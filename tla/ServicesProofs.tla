--------------------------- MODULE ServicesProofs ---------------------------
(***************************************************************************)
(* What TLAPS proves of Normalize and Services: what the version of a      *)
(* service says, in closed form, whichever grab of it is normalised, and   *)
(* that versions of different services differ.                             *)
(*                                                                         *)
(* The ...Form lemmas hold of any service, with any software, any number   *)
(* of options or capabilities and any redirects; the theorems at the end   *)
(* are about the services of Services.                                     *)
(***************************************************************************)
EXTENDS Services, SequenceTheorems, FiniteSetTheorems, TLAPS

(* What is reached along a path, as the loop of Get finds it. *)
Reaches(f, d, path) ==
    f = [i \in 0 .. Len(path) |-> IF i = 0 THEN d ELSE Descend(f[i - 1], path[i])]

(* Get gives what is reached at the end of the path. *)
LEMMA GetReaches ==
    ASSUME NEW d, NEW path, NEW f, Reaches(f, d, path)
    PROVE  \E g : Reaches(g, d, path) /\ Get(d, path) = g[Len(path)]
<1> DEFINE g == CHOOSE h : Reaches(h, d, path)
<1>1. Get(d, path) = g[Len(path)]
    BY DEF Get, Reaches
<1>2. Reaches(g, d, path)
    OBVIOUS
<1> QED
    BY <1>1, <1>2

(* A path of one key is one descent. *)
LEMMA GetOne == ASSUME NEW d, NEW a PROVE Get(d, <<a>>) = Descend(d, a)
<1> DEFINE f == [i \in 0 .. 1 |-> IF i = 0 THEN d ELSE Descend(d, a)]
<1>1. Reaches(f, d, <<a>>)
    BY DEF Reaches
<1>2. PICK g : Reaches(g, d, <<a>>) /\ Get(d, <<a>>) = g[Len(<<a>>)]
    <2> HIDE DEF f
    <2> QED BY <1>1, GetReaches
<1> QED
    BY <1>2 DEF Reaches

(* Two keys. *)
LEMMA GetTwo == ASSUME NEW d, NEW a, NEW b PROVE Get(d, <<a, b>>) = Descend(Descend(d, a), b)
<1> DEFINE f == [i \in 0 .. 2 |-> IF i = 0 THEN d ELSE IF i = 1 THEN Descend(d, a)
                                  ELSE Descend(Descend(d, a), b)]
<1>1. Reaches(f, d, <<a, b>>)
    BY DEF Reaches
<1>2. PICK g : Reaches(g, d, <<a, b>>) /\ Get(d, <<a, b>>) = g[Len(<<a, b>>)]
    <2> HIDE DEF f
    <2> QED BY <1>1, GetReaches
<1>3. g[0] = d /\ g[1] = Descend(g[0], a) /\ g[2] = Descend(g[1], b)
    BY <1>2 DEF Reaches
<1> QED
    BY <1>2, <1>3

(* Three keys. *)
LEMMA GetThree ==
    ASSUME NEW d, NEW a, NEW b, NEW c
    PROVE  Get(d, <<a, b, c>>) = Descend(Descend(Descend(d, a), b), c)
<1> DEFINE f == [i \in 0 .. 3 |-> IF i = 0 THEN d ELSE IF i = 1 THEN Descend(d, a)
                                  ELSE IF i = 2 THEN Descend(Descend(d, a), b)
                                  ELSE Descend(Descend(Descend(d, a), b), c)]
<1>1. Reaches(f, d, <<a, b, c>>)
    BY DEF Reaches
<1>2. PICK g : Reaches(g, d, <<a, b, c>>) /\ Get(d, <<a, b, c>>) = g[Len(<<a, b, c>>)]
    <2> HIDE DEF f
    <2> QED BY <1>1, GetReaches
<1>3. g[0] = d /\ g[1] = Descend(g[0], a) /\ g[2] = Descend(g[1], b) /\ g[3] = Descend(g[2], c)
    BY <1>2 DEF Reaches
<1> QED
    BY <1>2, <1>3

(* A descent into an object is a look-up. *)
LEMMA DescendObj == ASSUME NEW f, NEW key PROVE Descend(Obj(f), key) = Field(f, key)
BY DEF Descend, Obj

(* The way into an answer. *)
Report(answer) == Obj([status |-> Text("success"), result |-> Obj(answer)])

(* What is found under a key of the answer. *)
LEMMA InReport ==
    ASSUME NEW answer, NEW a
    PROVE  Get(Report(answer), <<"result", a>>) = Field(answer, a)
<1>1. Descend(Report(answer), "result") = Obj(answer)
    BY DescendObj DEF Report, Field
<1> QED
    BY <1>1, GetTwo, DescendObj

(* One level deeper. *)
LEMMA DeepInReport ==
    ASSUME NEW answer, NEW f, NEW a, NEW b, Field(answer, a) = Obj(f)
    PROVE  Get(Report(answer), <<"result", a, b>>) = Field(f, b)
<1>1. Descend(Report(answer), "result") = Obj(answer)
    BY DescendObj DEF Report, Field
<1> QED
    BY <1>1, GetThree, DescendObj

-----------------------------------------------------------------------------
(* ssh and TLS *)

(* A key of an object. *)
LEMMA GetKey == ASSUME NEW f, NEW key PROVE Get(Obj(f), <<key>>) = Field(f, key)
BY GetOne, DescendObj

(* A key of an object in an object. *)
LEMMA GetKeys ==
    ASSUME NEW f, NEW g, NEW a, NEW b, Field(f, a) = Obj(g)
    PROVE  Get(Obj(f), <<a, b>>) = Field(g, b)
BY GetTwo, DescendObj

(* Three objects deep. *)
LEMMA GetKeysOfThree ==
    ASSUME NEW f, NEW g, NEW h, NEW a, NEW b, NEW c, Field(f, a) = Obj(g), Field(g, b) = Obj(h)
    PROVE  Get(Obj(f), <<a, b, c>>) = Field(h, c)
BY GetThree, DescendObj

(* What the version of an ssh service says. *)
SshVersion(s) ==
    [banner |-> Text(<<s.software, s.comment>>), version |-> Text("2.0"),
     software |-> Text(s.software), comment |-> Text(s.comment),
     host_key_algorithm |-> Text("ed25519"), host_key_fingerprint_sha256 |-> Text(s.key)]

(* The cookie of the key exchange does not show. *)
LEMMA SshForm ==
    ASSUME NEW s, NEW n
    PROVE  NormalizeSsh(Report(SshAnswer(s, n))) = SshVersion(s)
<1> DEFINE id == [raw |-> Text(<<s.software, s.comment>>), version |-> Text("2.0"),
                  software |-> Text(s.software), comment |-> Text(s.comment)]
           key == [algorithm |-> Text("ed25519"), fingerprint_sha256 |-> Text(s.key)]
           exchange == [cookie |-> Num(n), server_host_key |-> Obj(key)]
           report == Report(SshAnswer(s, n))
<1>1. Get(report, <<"result", "server_id">>) = Obj(id)
    BY InReport DEF SshAnswer, Field
<1>2. Get(report, <<"result", "key_exchange", "server_host_key">>) = Obj(key)
    <2>1. Field(SshAnswer(s, n), "key_exchange") = Obj(exchange)
        BY DEF SshAnswer, Field
    <2>2. Field(exchange, "server_host_key") = Obj(key)
        BY DEF Field
    <2> QED
        BY <2>1, <2>2, DeepInReport
<1>3. /\ Get(Obj(id), <<"raw">>) = id.raw /\ Get(Obj(id), <<"version">>) = id.version
      /\ Get(Obj(id), <<"software">>) = id.software /\ Get(Obj(id), <<"comment">>) = id.comment
    BY GetKey DEF Field
<1>4. /\ Get(Obj(key), <<"algorithm">>) = key.algorithm
      /\ Get(Obj(key), <<"fingerprint_sha256">>) = key.fingerprint_sha256
    BY GetKey DEF Field
<1> QED
    BY <1>1, <1>2, <1>3, <1>4 DEF NormalizeSsh, SshVersion

(* What the version of a TLS service says. *)
TlsVersion(s) ==
    [version |-> Text(s.version), cipher_suite |-> Text(s.suite),
     certificate |-> Json(
        [subject_cn |-> IF s.subject = <<>> THEN Items(<<>>) ELSE Text(s.subject[1]),
         issuer_cn |-> Text("CA"), serial_number |-> Text(s.serial),
         signature_algorithm |-> Text("rsa"), fingerprint_sha256 |-> Text(s.print)])]

(* The random of the hello does not show. *)
LEMMA TlsForm ==
    ASSUME NEW s, NEW n, NEW S, s.subject \in Seq(S)
    PROVE  NormalizeTls(Report(TlsAnswer(s, n))) = TlsVersion(s)
<1> DEFINE Named(x) == Obj([name |-> Text(x)])
           names == [i \in DOMAIN s.subject |-> Text(s.subject[i])]
           cert == [subject |-> Obj([common_name |-> Items(names)]),
                    issuer |-> Obj([common_name |-> Text("CA")]),
                    serial_number |-> Text(s.serial),
                    signature_algorithm |-> Named("rsa"),
                    fingerprint_sha256 |-> Text(s.print)]
           hello == [version |-> Named(s.version), cipher_suite |-> Named(s.suite),
                     random |-> Num(n)]
           chain == [certificate |-> Obj([parsed |-> Obj(cert)])]
           log == [server_hello |-> Obj(hello), server_certificates |-> Obj(chain)]
<1>1. Get(Report(TlsAnswer(s, n)), <<"result", "handshake_log">>) = Obj(log)
    BY InReport DEF TlsAnswer, Field
<1>2. Get(Obj(log), <<"server_certificates", "certificate", "parsed">>) = Obj(cert)
    <2>1. Field(log, "server_certificates") = Obj(chain)
        BY DEF Field
    <2>2. Field(chain, "certificate") = Obj([parsed |-> Obj(cert)])
        BY DEF Field
    <2>3. Field([parsed |-> Obj(cert)], "parsed") = Obj(cert)
        BY DEF Field
    <2> QED
        BY <2>1, <2>2, <2>3, GetKeysOfThree
<1>3. /\ Get(Obj(log), <<"server_hello", "version", "name">>) = Text(s.version)
      /\ Get(Obj(log), <<"server_hello", "cipher_suite", "name">>) = Text(s.suite)
    <2>1. Field(log, "server_hello") = Obj(hello)
        BY DEF Field
    <2>2. Field(hello, "version") = Named(s.version)
              /\ Field(hello, "cipher_suite") = Named(s.suite)
        BY DEF Field
    <2>3. ASSUME NEW x PROVE Field([name |-> Text(x)], "name") = Text(x)
        BY DEF Field
    <2> QED
        BY <2>1, <2>2, <2>3, GetKeysOfThree
<1>4. /\ Get(Obj(cert), <<"serial_number">>) = Text(s.serial)
      /\ Get(Obj(cert), <<"fingerprint_sha256">>) = Text(s.print)
    BY GetKey DEF Field
<1>5. /\ Get(Obj(cert), <<"issuer", "common_name">>) = Text("CA")
      /\ Get(Obj(cert), <<"signature_algorithm", "name">>) = Text("rsa")
      /\ Get(Obj(cert), <<"subject", "common_name">>) = Items(names)
    <2>1. /\ Field(cert, "issuer") = Obj([common_name |-> Text("CA")])
          /\ Field(cert, "signature_algorithm") = Obj([name |-> Text("rsa")])
          /\ Field(cert, "subject") = Obj([common_name |-> Items(names)])
        BY DEF Field
    <2>2. /\ Field([common_name |-> Text("CA")], "common_name") = Text("CA")
          /\ Field([name |-> Text("rsa")], "name") = Text("rsa")
          /\ Field([common_name |-> Items(names)], "common_name") = Items(names)
        BY DEF Field
    <2> QED
        BY <2>1, <2>2, GetKeys
<1>6. CommonName(Text("CA")) = Text("CA")
    BY DEF CommonName, Text
<1>7. CommonName(Items(names)) = IF s.subject = <<>> THEN Items(<<>>) ELSE Text(s.subject[1])
    <2>1. CASE s.subject = <<>>
        BY <2>1 DEF CommonName, Items
    <2>2. CASE s.subject # <<>>
        <3>1. names # <<>> /\ names[1] = Text(s.subject[1])
            BY <2>2
        <3> QED
            BY <2>2, <3>1 DEF CommonName, Items
    <2> QED
        BY <2>1, <2>2
<1> HIDE DEF cert, log
<1> QED
    BY <1>1, <1>2, <1>3, <1>4, <1>5, <1>6, <1>7 DEF NormalizeTls, TlsVersion

-----------------------------------------------------------------------------
(* http *)

(* what the page of an http service is called *)
Titled(s) == IF s.title = Empty THEN Absent ELSE Text(s.title)

(* where an http service leads to *)
Leads(s) ==
    IF s.hops # <<>> THEN Text(s.hops[Len(s.hops)])
    ELSE IF s.location = Empty THEN Absent ELSE Text(s.location)

(* the headers that stay *)
HttpHeaders(s) ==
    [name \in {"server"} \union IF s.location = Empty THEN {} ELSE {"location"} |->
        Items(<<Text(IF name = "server" THEN s.server ELSE s.location)>>)]

(* What the version of an http service says. *)
HttpVersion(s) ==
    [status_code |-> Num(s.status), headers |-> Json(HttpHeaders(s)),
     server |-> Text(s.server), title |-> Titled(s), redirect_location |-> Leads(s)]

(* A lower-case name stays as it is. *)
LEMMA LowerTwice == ASSUME NEW key PROVE Lower(Lower(key)) = Lower(key)
BY DEF Lower

(* The names that are sent, in lower case. *)
LEMMA LowerFact ==
    /\ Lower("Server") = "server" /\ Lower("server") = "server"
    /\ Lower("Date") = "date" /\ Lower("date") = "date"
    /\ Lower("unknown") = "unknown" /\ Lower("location") = "location"
BY DEF Lower

(* Headers as sent, in whatever spelling, and what is left of them. *)
Sent(names, value) == [key \in names |-> Items(<<value[Lower(key)]>>)]
Left(names, value) ==
    [name \in {Lower(key) : key \in names} \ VolatileHeaderKeys |-> Items(<<value[name]>>)]

(* However the names are spelled, each stays once and with its value. *)
LEMMA HeadersFact ==
    ASSUME NEW names, NEW value
    PROVE  NormalizedHeaders(Sent(names, value)) = Left(names, value)
<1> DEFINE headers == Sent(names, value)
           Kept == {Lower(key) : key \in names} \ VolatileHeaderKeys
           Spelled(name) == IF name \in DOMAIN headers THEN name
                            ELSE CHOOSE key \in DOMAIN headers : Lower(key) = name
<1>1. ASSUME NEW name \in Kept
      PROVE  Spelled(name) \in names /\ Lower(Spelled(name)) = name
    BY <1>1, LowerTwice DEF Sent
<1>2. ASSUME NEW name \in Kept PROVE headers[Spelled(name)] = Items(<<value[name]>>)
    <2> HIDE DEF Spelled
    <2> QED
        BY <1>1, <1>2 DEF Sent
<1>3. NormalizedHeaders(headers) = [name \in Kept |-> headers[Spelled(name)]]
    BY DEF NormalizedHeaders, Sent
<1> HIDE DEF Spelled
<1>4. [name \in Kept |-> headers[Spelled(name)]] = [name \in Kept |-> Items(<<value[name]>>)]
    BY <1>2
<1> QED
    BY <1>3, <1>4 DEF Left

(* The date, the unknown headers and the rest of the page do not show. *)
LEMMA HttpForm ==
    ASSUME NEW s, NEW n \in Grabs, NEW S, s.hops \in Seq(S)
    PROVE  NormalizeHttp(Report(HttpAnswer(s, n))) = HttpVersion(s)
<1> DEFINE names == (IF n = 1 THEN {"Server", "Date", "unknown"} ELSE {"server", "date", "unknown"})
                    \union IF s.location = Empty THEN {} ELSE {"location"}
           value == [server |-> Text(s.server), date |-> Num(n), unknown |-> Num(n),
                     location |-> Text(s.location)]
           headers == Sent(names, value)
           page == [kind |-> "page", title |-> s.title, rest |-> n]
           response == [status_code |-> Num(s.status), headers |-> Obj(headers), body |-> page]
           chain == [i \in DOMAIN s.hops |-> Hop(s.hops[i])]
           report == Report(HttpAnswer(s, n))
<1>1. HttpAnswer(s, n) = [response |-> Obj(response), redirect_response_chain |-> Items(chain)]
    BY DEF HttpAnswer, Sent
<1>2. /\ Get(report, <<"result", "response">>) = Obj(response)
      /\ Get(report, <<"result", "redirect_response_chain">>) = Items(chain)
    <2> HIDE DEF response, chain
    <2>1. /\ Field(HttpAnswer(s, n), "response") = Obj(response)
          /\ Field(HttpAnswer(s, n), "redirect_response_chain") = Items(chain)
        BY <1>1 DEF Field
    <2> QED
        BY <2>1, InReport
<1>3. /\ Get(Obj(response), <<"headers">>) = Obj(headers)
      /\ Get(Obj(response), <<"status_code">>) = Num(s.status)
      /\ Get(Obj(response), <<"body">>) = page
    <2> HIDE DEF headers
    <2> QED
        BY GetKey DEF Field
<1>4. NormalizedHeaders(headers) = HttpHeaders(s)
    <2> DEFINE Kept == {Lower(key) : key \in names} \ VolatileHeaderKeys
               Said(name) == Items(<<Text(IF name = "server" THEN s.server ELSE s.location)>>)
    <2>1. NormalizedHeaders(headers) = [name \in Kept |-> Items(<<value[name]>>)]
        <3>1. NormalizedHeaders(headers) = Left(names, value)
            BY HeadersFact
        <3> HIDE DEF names, value
        <3> QED
            BY <3>1 DEF Left
    <2>2. Kept = {"server"} \union IF s.location = Empty THEN {} ELSE {"location"}
        <3>1. CASE n = 1
            BY <3>1, LowerFact DEF VolatileHeaderKeys
        <3>2. CASE n = 2
            BY <3>2, LowerFact DEF VolatileHeaderKeys
        <3> QED
            BY <3>1, <3>2 DEF Grabs
    <2>3. \A name \in {"server", "location"} :
              value[name] = Text(IF name = "server" THEN s.server ELSE s.location)
        OBVIOUS
    <2>4. HttpHeaders(s) = [name \in Kept |-> Said(name)]
        BY <2>2 DEF HttpHeaders
    <2> HIDE DEF Kept, value
    <2>5. \A name \in Kept : Items(<<value[name]>>) = Said(name)
        BY <2>2, <2>3
    <2> HIDE DEF Said
    <2>6. [name \in Kept |-> Items(<<value[name]>>)] = [name \in Kept |-> Said(name)]
        BY <2>5
    <2> QED
        BY <2>1, <2>4, <2>6
<1>5. FirstOrNone(Field(HttpHeaders(s), "server")) = Text(s.server)
    BY DEF FirstOrNone, Field, HttpHeaders, Items
<1>6. ExtractTitle(page) = Titled(s)
    BY DEF ExtractTitle, Titled, Absent
<1>7. FirstOrNone(RedirectLocation(Items(chain), HttpHeaders(s))) = Leads(s)
    <2>1. CASE s.hops = <<>>
        <3>1. RedirectLocation(Items(chain), HttpHeaders(s)) = Field(HttpHeaders(s), "location")
            BY <2>1 DEF RedirectLocation, Items
        <3>2. CASE s.location = Empty
            <4>1. Field(HttpHeaders(s), "location") = Absent
                BY <3>2 DEF Field, HttpHeaders
            <4>2. FirstOrNone(Absent) = Absent /\ Leads(s) = Absent
                BY <2>1, <3>2 DEF FirstOrNone, Absent, Leads
            <4> QED
                BY <3>1, <4>1, <4>2
        <3>3. CASE s.location # Empty
            <4>1. Field(HttpHeaders(s), "location") = Items(<<Text(s.location)>>)
                BY <3>3 DEF Field, HttpHeaders
            <4>2. FirstOrNone(Items(<<Text(s.location)>>)) = Text(s.location)
                BY DEF FirstOrNone, Items
            <4>3. Leads(s) = Text(s.location)
                BY <2>1, <3>3 DEF Leads
            <4> QED
                BY <3>1, <4>1, <4>2, <4>3
        <3> QED
            BY <3>2, <3>3
    <2>2. CASE s.hops # <<>>
        <3> DEFINE last == s.hops[Len(s.hops)]
        <3>1. chain # <<>> /\ Len(chain) = Len(s.hops) /\ Len(s.hops) \in DOMAIN s.hops
            BY <2>2
        <3>2. Last(chain) = Hop(last)
            BY <3>1 DEF Last
        <3>3. RedirectLocation(Items(chain), HttpHeaders(s)) = Get(Hop(last), <<"headers", "location">>)
            BY <3>1, <3>2 DEF RedirectLocation, Items
        <3>4. Get(Hop(last), <<"headers", "location">>) = Text(last)
            BY GetKeys DEF Hop, Field
        <3> QED
            BY <2>2, <3>3, <3>4 DEF FirstOrNone, Text, Leads
    <2> QED
        BY <2>1, <2>2
<1>8. Obj(headers) # Absent /\ Obj(headers).at = headers
    BY DEF Obj, Absent
<1> HIDE DEF headers, chain, page
<1> QED
    BY <1>2, <1>3, <1>4, <1>5, <1>6, <1>7, <1>8 DEF NormalizeHttp, HttpVersion

-----------------------------------------------------------------------------
(* Greetings and ftp *)

(* The first line is the first that is not blank. *)
LEMMA FirstLineFact ==
    ASSUME NEW lines, NEW first \in {1, 2},
           DOMAIN lines \subseteq Nat \ {0}, first \in DOMAIN lines, lines[first] # Blank,
           first = 2 => lines[1] = Blank
    PROVE  FirstLine(Text(lines)) = lines[first]
<1> DEFINE full == {i \in DOMAIN lines : lines[i] # Blank}
<1>1. FullLines(Text(lines)) = full /\ Text(lines).text = lines
    BY DEF FullLines, Text, Absent
<1>2. first \in full /\ \A i \in full : first <= i
    OBVIOUS
<1>3. Min(full) = first
    <2>1. \A i, j \in full : i <= j /\ j <= i => i = j
        OBVIOUS
    <2> HIDE DEF full
    <2> QED
        BY <1>2, <2>1 DEF Min
<1> QED
    BY <1>1, <1>2, <1>3 DEF FirstLine

(* What the two masks leave of a word. *)
LEMMA MaskFact ==
    ASSUME NEW w
    PROVE  /\ MaskDigits(MaskToken(Word(w))) = Word(w)
           /\ MaskDigits(MaskToken(Token(w))) = Mask
           /\ MaskDigits(MaskToken(Number(w))) = Mask
BY DEF MaskDigits, MaskToken, Word, Token, Number, Mask

(* What a banner keeps: neither the session nor the clock. *)
Kept(s) == <<Word(s.software), Mask, Mask>>

(* The identity on the first line survives the masks, and only that. *)
LEMMA KeptFact ==
    ASSUME NEW s, NEW session, NEW clock
    PROVE  MaskVolatile(<<Word(s.software), Token(session), Number(clock)>>) = Kept(s)
<1> DEFINE words == <<Word(s.software), Token(session), Number(clock)>>
<1>1. \A i \in 1 .. 3 : MaskDigits(MaskToken(words[i])) = Kept(s)[i]
    <2>1. \A i \in 1 .. 3 : i = 1 \/ i = 2 \/ i = 3
        OBVIOUS
    <2> QED
        BY <2>1, MaskFact DEF Kept
<1>2. DOMAIN words = 1 .. 3 /\ Kept(s) = [i \in 1 .. 3 |-> Kept(s)[i]]
    BY DEF Kept
<1> HIDE DEF words
<1>3. MaskVolatile(words) = [i \in 1 .. 3 |-> MaskDigits(MaskToken(words[i]))]
    BY <1>2 DEF MaskVolatile
<1>4. [i \in 1 .. 3 |-> MaskDigits(MaskToken(words[i]))] = [i \in 1 .. 3 |-> Kept(s)[i]]
    BY <1>1
<1>5. MaskVolatile(words) = Kept(s)
    BY <1>2, <1>3, <1>4
<1> QED
    BY <1>5 DEF words

(* The lines of a greeting, with a reply code or without one. *)
Says(lines, s, n, code) ==
    /\ DOMAIN lines = DOMAIN Greeting(s, n).text
    /\ \A i \in DOMAIN lines :
           /\ lines[i].words = Greeting(s, n).text[i].words
           /\ lines[i] = Line(IF lines[i].words = <<>> THEN Absent ELSE code, lines[i].words)

(* The banner and the code of a greeting are those of its first full line. *)
LEMMA GreetingFact ==
    ASSUME NEW s, NEW n \in Grabs, NEW code, NEW lines, Says(lines, s, n, code)
    PROVE  /\ StableBanner(Text(lines)) = Text(Kept(s))
           /\ ReplyCode(Text(lines)) = code
<1> DEFINE session == IF n = 1 THEN "d9443c01a7336" ELSE "k77f31bb02c19"
           clock == IF n = 1 THEN "2224" ELSE "2359"
           words == <<Word(s.software), Token(session), Number(clock)>>
           opening == Line(Num(s.code), words)
           chat == Line(Num(s.code), <<Word("user"), Number(clock)>>)
<1>1. Greeting(s, n).text = IF n = 1 THEN <<opening, chat>> ELSE <<Blank, opening, chat, chat>>
    BY DEF Greeting, Text
<1>2. opening.words = words /\ Blank.words = <<>> /\ words # <<>>
    BY DEF Line, Blank
<1> HIDE DEF words, opening, chat
<1>3. n \in {1, 2} /\ DOMAIN lines \subseteq Nat \ {0} /\ n \in DOMAIN lines
    BY <1>1 DEF Grabs, Says
<1>4. lines[n] = Line(code, words)
    <2>1. Greeting(s, n).text[n] = opening
        <3>1. CASE n = 1
            BY <1>1, <3>1
        <3>2. CASE n = 2
            BY <1>1, <3>2
        <3> QED
            BY <1>3, <3>1, <3>2
    <2> QED
        BY <1>2, <1>3, <2>1 DEF Says
<1>5. n = 2 => lines[1] = Blank
    <2>1. ASSUME n = 2 PROVE 1 \in DOMAIN lines /\ Greeting(s, n).text[1] = Blank
        BY <1>1, <2>1 DEF Says
    <2>2. Line(Absent, <<>>) = Blank
        BY DEF Line, Blank
    <2> QED
        BY <1>2, <2>1, <2>2 DEF Says
<1>6. lines[n] # Blank /\ lines[n].words = words /\ lines[n].code = code
    BY <1>2, <1>4 DEF Line
<1>7. FirstLine(Text(lines)) = lines[n]
    BY <1>3, <1>5, <1>6, FirstLineFact
<1>8. MaskVolatile(words) = Kept(s)
    BY KeptFact DEF words
<1> QED
    BY <1>2, <1>6, <1>7, <1>8 DEF StableBanner, ReplyCode

(* What the version of an ftp service says. *)
FtpVersion(s) == [banner |-> Text(Kept(s)), reply_code |-> Num(s.code)]

(* Each line of a greeting is blank or has the code. *)
LEMMA GreetingLines ==
    ASSUME NEW s, NEW n, NEW i \in DOMAIN Greeting(s, n).text
    PROVE  \E words : Greeting(s, n).text[i]
                         = Line(IF words = <<>> THEN Absent ELSE Num(s.code), words)
<1> DEFINE clock == IF n = 1 THEN "2224" ELSE "2359"
           session == IF n = 1 THEN "d9443c01a7336" ELSE "k77f31bb02c19"
           opening == Line(Num(s.code), <<Word(s.software), Token(session), Number(clock)>>)
           chat == Line(Num(s.code), <<Word("user"), Number(clock)>>)
           lines == Greeting(s, n).text
<1>1. lines = IF n = 1 THEN <<opening, chat>> ELSE <<Blank, opening, chat, chat>>
    BY DEF Greeting, Text
<1>2. \A line \in {opening, chat, Blank} :
          line = Line(IF line.words = <<>> THEN Absent ELSE Num(s.code), line.words)
    BY DEF Line, Blank
<1> HIDE DEF opening, chat, lines
<1>3. lines[i] \in {opening, chat, Blank}
    BY <1>1 DEF lines
<1> QED
    BY <1>2, <1>3 DEF lines

(* The greeting as the ftp and smtp modules report it. *)
LEMMA CodedGreeting ==
    ASSUME NEW s, NEW n \in Grabs
    PROVE  StableBanner(Greeting(s, n)) = Text(Kept(s)) /\ ReplyCode(Greeting(s, n)) = Num(s.code)
<1> DEFINE lines == Greeting(s, n).text
<1>1. Greeting(s, n) = Text(lines)
    BY DEF Greeting, Text
<1>2. ASSUME NEW i \in DOMAIN lines
      PROVE  lines[i] = Line(IF lines[i].words = <<>> THEN Absent ELSE Num(s.code), lines[i].words)
    <2>1. PICK words : lines[i] = Line(IF words = <<>> THEN Absent ELSE Num(s.code), words)
        BY GreetingLines
    <2>2. lines[i].words = words
        BY <2>1 DEF Line
    <2> QED
        BY <2>1, <2>2
<1> HIDE DEF lines
<1>3. Says(lines, s, n, Num(s.code))
    BY <1>2 DEF Says, lines
<1> QED
    BY <1>1, <1>3, GreetingFact

(* The session, the clock and the chat of a greeting do not show. *)
LEMMA FtpForm ==
    ASSUME NEW s, NEW n \in Grabs
    PROVE  NormalizeFtp(Report(FtpAnswer(s, n))) = FtpVersion(s)
<1>1. Get(Report(FtpAnswer(s, n)), <<"result", "banner">>) = Greeting(s, n)
    BY InReport DEF FtpAnswer, Field
<1> QED
    BY <1>1, CodedGreeting DEF NormalizeFtp, FtpVersion

-----------------------------------------------------------------------------
(* How often x is in a list, which is what its sorted form says. *)
Places(f, x) == {i \in DOMAIN f : f[i] = x}

(* Lists that are the same when sorted have each item as often. *)
LEMMA SortedCounts ==
    ASSUME NEW f, NEW g, Sorted(f) = Sorted(g), NEW x
    PROVE  Cardinality(Places(f, x)) = Cardinality(Places(g, x))
<1>1. Range(f) = Range(g)
    BY DEF Sorted, ToBag
<1>2. CASE x \in Range(f)
    <2>1. Sorted(f)[x] = Cardinality(Places(f, x)) /\ Sorted(g)[x] = Cardinality(Places(g, x))
        BY <1>1, <1>2 DEF Sorted, ToBag, Places
    <2> QED
        BY <2>1
<1>3. CASE x \notin Range(f)
    BY <1>1, <1>3 DEF Places, Range
<1> QED
    BY <1>2, <1>3

(* The same items, each as often, make the same sorted list. *)
LEMMA SortedEqual ==
    ASSUME NEW f, NEW g, Range(f) = Range(g),
           \A x \in Range(f) : Cardinality(Places(f, x)) = Cardinality(Places(g, x))
    PROVE  Sorted(f) = Sorted(g)
BY DEF Sorted, ToBag, Places

(* a sequence, whatever it holds *)
IsList(f) == Len(f) \in Nat /\ f = [i \in 1 .. Len(f) |-> f[i]]

(* A list and its reverse are the same when sorted. *)
LEMMA SortedReverse ==
    ASSUME NEW f, IsList(f)
    PROVE  Sorted(Reverse(f)) = Sorted(f)
<1> DEFINE g == Reverse(f)
           Mirror(i) == (Len(f) - i) + 1
<1>1. /\ Len(f) \in Nat /\ DOMAIN f = 1 .. Len(f) /\ DOMAIN g = 1 .. Len(f)
      /\ \A i \in 1 .. Len(f) : g[i] = f[Mirror(i)]
    BY DEF Reverse, IsList
<1>2. \A i \in 1 .. Len(f) : Mirror(i) \in 1 .. Len(f) /\ Mirror(Mirror(i)) = i
    BY <1>1
<1> HIDE DEF g, Mirror
<1>3. Range(g) = Range(f)
    BY <1>1, <1>2 DEF Range
<1>4. ASSUME NEW x PROVE Cardinality(Places(f, x)) = Cardinality(Places(g, x))
    <2> DEFINE b == [i \in Places(f, x) |-> Mirror(i)]
    <2>1. b \in [Places(f, x) -> Places(g, x)]
        BY <1>1, <1>2 DEF Places
    <2>2. \A i, j \in Places(f, x) : b[i] = b[j] => i = j
        BY <1>1, <1>2 DEF Places
    <2>3. \A j \in Places(g, x) : \E i \in Places(f, x) : b[i] = j
        BY <1>1, <1>2 DEF Places
    <2>4. b \in Bijection(Places(f, x), Places(g, x))
        BY <2>1, <2>2, <2>3 DEF Bijection, Injection, Surjection, IsInjective
    <2>5. IsFiniteSet(Places(f, x))
        <3>1. IsFiniteSet(1 .. Len(f)) /\ Places(f, x) \subseteq 1 .. Len(f)
            BY <1>1, FS_Interval DEF Places
        <3> QED
            BY <3>1, FS_Subset
    <2> QED
        BY <2>4, <2>5, FS_Bijection DEF ExistsBijection
<1> QED
    BY <1>3, <1>4, SortedEqual DEF g

-----------------------------------------------------------------------------
(* telnet *)

(* the name of an offered option *)
NameOf(option) ==
    LET name == IF option.kind # "object" THEN option
                ELSE IF Field(option.at, "name") # Absent THEN option.at["name"]
                ELSE Field(option.at, "value")
    IN  IF name.kind = "number" THEN Text(ToString(name.number)) ELSE name

(* The options that are offered, named and then one without a name, and    *)
(* what is kept of them.                                                   *)
Named(names) == [i \in DOMAIN names |-> Obj([name |-> Text(names[i]), value |-> Num(i)])]
Offered(names, code) == Named(names) \o <<Obj([value |-> Num(code)])>>
Options(names, code) == [i \in DOMAIN names |-> Text(names[i])] \o <<Text(ToString(code))>>

(* The names of a list of options, one by one. *)
LEMMA OptionNamesFact ==
    ASSUME NEW q PROVE OptionNames(Items(q)) = [i \in DOMAIN q |-> NameOf(q[i])]
BY DEF OptionNames, Items, NameOf

(* An option with a name goes by its name. *)
LEMMA NamedOption ==
    ASSUME NEW name, NEW i
    PROVE  NameOf(Obj([name |-> Text(name), value |-> Num(i)])) = Text(name)
<1>1. Field([name |-> Text(name), value |-> Num(i)], "name") = Text(name)
    BY DEF Field
<1>2. Text(name) # Absent /\ Text(name).kind = "text"
    BY DEF Text, Absent
<1> QED
    BY <1>1, <1>2 DEF NameOf, Obj

(* An option without a name goes by its value. *)
LEMMA UnnamedOption ==
    ASSUME NEW code PROVE NameOf(Obj([value |-> Num(code)])) = Text(ToString(code))
<1>1. Field([value |-> Num(code)], "name") = Absent
              /\ Field([value |-> Num(code)], "value") = Num(code)
    BY DEF Field
<1>2. Num(code).kind = "number" /\ Num(code).number = code
    BY DEF Num
<1> QED
    BY <1>1, <1>2 DEF NameOf, Obj

(* What is kept of the offered options, one by one. *)
LEMMA OfferedFact ==
    ASSUME NEW S, NEW names \in Seq(S), NEW code
    PROVE  /\ IsList(Offered(names, code)) /\ IsList(Options(names, code))
           /\ Len(Options(names, code)) = Len(names) + 1
           /\ \A i \in 1 .. Len(names) : Options(names, code)[i] = Text(names[i])
           /\ Options(names, code)[Len(names) + 1] = Text(ToString(code))
           /\ OptionNames(Items(Offered(names, code))) = Options(names, code)
<1> DEFINE m == Len(names)
           q == Offered(names, code)
           o == Options(names, code)
<1>1. m \in Nat /\ DOMAIN names = 1 .. m
    OBVIOUS
<1>2. /\ DOMAIN q = 1 .. m + 1 /\ Len(q) = m + 1 /\ q = [i \in 1 .. m + 1 |-> q[i]]
      /\ \A i \in 1 .. m : q[i] = Obj([name |-> Text(names[i]), value |-> Num(i)])
      /\ q[m + 1] = Obj([value |-> Num(code)])
    BY <1>1 DEF Offered, Named
<1>3. /\ DOMAIN o = 1 .. m + 1 /\ Len(o) = m + 1 /\ o = [i \in 1 .. m + 1 |-> o[i]]
      /\ \A i \in 1 .. m : o[i] = Text(names[i])
      /\ o[m + 1] = Text(ToString(code))
    BY <1>1 DEF Options
<1> HIDE DEF q, o, m
<1>4. \A i \in 1 .. m + 1 : NameOf(q[i]) = o[i]
    <2>1. ASSUME NEW i \in 1 .. m PROVE NameOf(q[i]) = o[i]
        <3>1. NameOf(Obj([name |-> Text(names[i]), value |-> Num(i)])) = Text(names[i])
            BY NamedOption
        <3> QED
            BY <1>2, <1>3, <3>1
    <2>2. NameOf(q[m + 1]) = o[m + 1]
        BY <1>2, <1>3, UnnamedOption
    <2>3. \A i \in 1 .. m + 1 : i \in 1 .. m \/ i = m + 1
        BY <1>1
    <2> QED
        BY <2>1, <2>2, <2>3
<1>5. OptionNames(Items(q)) = [i \in 1 .. m + 1 |-> NameOf(q[i])]
    BY <1>2, OptionNamesFact
<1>6. [i \in 1 .. m + 1 |-> NameOf(q[i])] = [i \in 1 .. m + 1 |-> o[i]]
    BY <1>4
<1>7. OptionNames(Items(q)) = o
    BY <1>3, <1>5, <1>6
<1>8. IsList(q) /\ IsList(o)
    BY <1>1, <1>2, <1>3 DEF IsList
<1> QED
    BY <1>3, <1>7, <1>8 DEF q, o, m

(* The names of the options are the same in either order once sorted. *)
LEMMA OptionsInAnyOrder ==
    ASSUME NEW q, IsList(q), NEW n
    PROVE  Sorted(OptionNames(InSomeOrder(q, n))) = Sorted(OptionNames(Items(q)))
<1> DEFINE names == [i \in 1 .. Len(q) |-> NameOf(q[i])]
           turned == [i \in 1 .. Len(q) |-> NameOf(q[(Len(q) - i) + 1])]
<1>1. OptionNames(Items(q)) = names
    BY OptionNamesFact DEF IsList
<1>2. OptionNames(Items(Reverse(q))) = turned
    <2>1. DOMAIN Reverse(q) = 1 .. Len(q) /\ \A i \in 1 .. Len(q) : Reverse(q)[i] = q[(Len(q) - i) + 1]
        BY DEF Reverse
    <2>2. OptionNames(Items(Reverse(q))) = [i \in 1 .. Len(q) |-> NameOf(Reverse(q)[i])]
        BY <2>1, OptionNamesFact
    <2> QED
        BY <2>1, <2>2
<1>3. turned = Reverse(names) /\ IsList(names)
    BY DEF Reverse, IsList
<1>4. Sorted(turned) = Sorted(names)
    <2> HIDE DEF names, turned
    <2> QED
        BY <1>3, SortedReverse
<1> QED
    BY <1>1, <1>2, <1>4 DEF InSomeOrder

(* What the version of a telnet service says. *)
TelnetVersion(s) ==
    [banner |-> Text(Kept(s)), will_options |-> Json(Sorted(Options(s.will, 39))),
     do_options |-> Json(Sorted(Options(s.do, 24)))]

(* The order in which the options are offered does not show. *)
LEMMA TelnetForm ==
    ASSUME NEW s, NEW n \in Grabs, NEW S, s.will \in Seq(S), s.do \in Seq(S)
    PROVE  NormalizeTelnet(Report(TelnetAnswer(s, n))) = TelnetVersion(s)
<1> DEFINE lines == [i \in DOMAIN Greeting(s, n).text |->
                        [Greeting(s, n).text[i] EXCEPT !.code = Absent]]
           report == Report(TelnetAnswer(s, n))
           Answered(names, code) == InSomeOrder(Offered(names, code), n)
<1>1. TelnetAnswer(s, n) = [banner |-> Text(lines), will |-> Answered(s.will, 39),
                            do |-> Answered(s.do, 24)]
    BY DEF TelnetAnswer, Offered, Named
<1>2. /\ Get(report, <<"result", "banner">>) = Text(lines)
      /\ Get(report, <<"result", "will">>) = Answered(s.will, 39)
      /\ Get(report, <<"result", "do">>) = Answered(s.do, 24)
    <2> HIDE DEF lines, Answered
    <2>1. /\ Field(TelnetAnswer(s, n), "banner") = Text(lines)
          /\ Field(TelnetAnswer(s, n), "will") = Answered(s.will, 39)
          /\ Field(TelnetAnswer(s, n), "do") = Answered(s.do, 24)
        BY <1>1 DEF Field
    <2> QED
        BY <2>1, InReport
<1>3. Says(lines, s, n, Absent)
    <2>1. ASSUME NEW i \in DOMAIN Greeting(s, n).text
          PROVE  lines[i] = Line(Absent, Greeting(s, n).text[i].words)
        <3>1. PICK code, words : Greeting(s, n).text[i] = Line(code, words)
            BY GreetingLines
        <3> QED
            BY <3>1 DEF Line
    <2>2. \A words : Line(Absent, words).words = words
        BY DEF Line
    <2>3. DOMAIN lines = DOMAIN Greeting(s, n).text
        OBVIOUS
    <2> HIDE DEF lines
    <2> QED
        BY <2>1, <2>2, <2>3 DEF Says
<1> HIDE DEF lines
<1>4. StableBanner(Text(lines)) = Text(Kept(s))
    BY <1>3, GreetingFact
<1>5. /\ Sorted(OptionNames(Answered(s.will, 39))) = Sorted(Options(s.will, 39))
      /\ Sorted(OptionNames(Answered(s.do, 24))) = Sorted(Options(s.do, 24))
    BY OfferedFact, OptionsInAnyOrder
<1> QED
    BY <1>2, <1>4, <1>5 DEF NormalizeTelnet, TelnetVersion

-----------------------------------------------------------------------------
(* smtp *)

(* The lines of an EHLO or HELO answer, and what is kept of them. *)
Capability(words) == Line(Num(250), words)
Advertised(s, clock) ==
    <<Capability(<<Word("SIZE"), Number(clock)>>)>>
    \o [i \in DOMAIN s.offers |-> Capability(<<Word(s.offers[i])>>)]
Capabilities(s) == <<<<Word("SIZE"), Mask>>>> \o [i \in DOMAIN s.offers |-> <<Word(s.offers[i])>>]

(* What the version of an smtp service says. *)
SmtpVersion(s) ==
    [banner |-> Text(Kept(s)), reply_code |-> Num(s.code),
     capabilities |-> Json(Sorted(Capabilities(s))), extended |-> Bool(s.ehlo)]

(* A capability keeps its words, and no number. *)
LEMMA CapabilityMask ==
    ASSUME NEW w
    PROVE  /\ MaskVolatile(<<Word("SIZE"), Number(w)>>) = <<Word("SIZE"), Mask>>
           /\ MaskVolatile(<<Word(w)>>) = <<Word(w)>>
<1>1. MaskVolatile(<<Word(w)>>) = [i \in 1 .. 1 |-> Word(w)]
    <2>1. \A i \in 1 .. 1 : MaskDigits(MaskToken(<<Word(w)>>[i])) = Word(w)
        BY MaskFact
    <2> QED
        BY <2>1 DEF MaskVolatile
<1>2. MaskVolatile(<<Word("SIZE"), Number(w)>>) = [i \in 1 .. 2 |-> <<Word("SIZE"), Mask>>[i]]
    <2>1. \A i \in 1 .. 2 : i = 1 \/ i = 2
        OBVIOUS
    <2>2. \A i \in 1 .. 2 : MaskDigits(MaskToken(<<Word("SIZE"), Number(w)>>[i])) = <<Word("SIZE"), Mask>>[i]
        BY <2>1, MaskFact
    <2> QED
        BY <2>2 DEF MaskVolatile
<1> QED
    BY <1>1, <1>2

(* The capabilities that are kept, one by one. *)
LEMMA CapabilitiesFact ==
    ASSUME NEW s, NEW S, s.offers \in Seq(S)
    PROVE  /\ Len(s.offers) \in Nat /\ IsList(Capabilities(s))
           /\ Len(Capabilities(s)) = Len(s.offers) + 1
           /\ Capabilities(s)[1] = <<Word("SIZE"), Mask>>
           /\ \A i \in 1 .. Len(s.offers) : Capabilities(s)[i + 1] = <<Word(s.offers[i])>>
<1> DEFINE m == Len(s.offers)
           c == Capabilities(s)
<1>1. m \in Nat /\ DOMAIN s.offers = 1 .. m
    OBVIOUS
<1>2. /\ DOMAIN c = 1 .. m + 1 /\ Len(c) = m + 1 /\ c = [i \in 1 .. m + 1 |-> c[i]]
      /\ c[1] = <<Word("SIZE"), Mask>>
      /\ \A i \in 1 .. m : c[i + 1] = <<Word(s.offers[i])>>
    BY <1>1 DEF Capabilities
<1> HIDE DEF c, m
<1>3. IsList(c)
    BY <1>1, <1>2 DEF IsList
<1> QED
    BY <1>1, <1>2, <1>3 DEF c, m

(* Each line that is advertised, masked, is a capability that is kept. *)
LEMMA AdvertisedFact ==
    ASSUME NEW s, NEW S, s.offers \in Seq(S), NEW clock
    PROVE  /\ IsList(Advertised(s, clock))
           /\ Len(Advertised(s, clock)) = Len(s.offers) + 1
           /\ \A i \in 1 .. Len(s.offers) + 1 :
                  /\ Advertised(s, clock)[i].words # <<>>
                  /\ MaskVolatile(Advertised(s, clock)[i].words) = Capabilities(s)[i]
<1> DEFINE m == Len(s.offers)
           q == Advertised(s, clock)
           c == Capabilities(s)
<1>1. m \in Nat /\ DOMAIN s.offers = 1 .. m
    OBVIOUS
<1>2. /\ DOMAIN q = 1 .. m + 1 /\ Len(q) = m + 1 /\ q = [i \in 1 .. m + 1 |-> q[i]]
      /\ q[1] = Capability(<<Word("SIZE"), Number(clock)>>)
      /\ \A i \in 1 .. m : q[i + 1] = Capability(<<Word(s.offers[i])>>)
    BY <1>1 DEF Advertised
<1>3. c[1] = <<Word("SIZE"), Mask>> /\ \A i \in 1 .. m : c[i + 1] = <<Word(s.offers[i])>>
    BY CapabilitiesFact
<1> HIDE DEF q, c, m
<1>4. ASSUME NEW i \in 1 .. m + 1
      PROVE  q[i].words # <<>> /\ MaskVolatile(q[i].words) = c[i]
    <2>1. \A words : Capability(words).words = words
        BY DEF Capability, Line
    <2>2. CASE i = 1
        <3>1. q[i].words = <<Word("SIZE"), Number(clock)>>
            BY <1>2, <2>1, <2>2
        <3>2. MaskVolatile(<<Word("SIZE"), Number(clock)>>) = <<Word("SIZE"), Mask>>
            BY CapabilityMask
        <3>3. c[i] = <<Word("SIZE"), Mask>>
            BY <1>3, <2>2
        <3> QED
            BY <3>1, <3>2, <3>3
    <2>3. CASE i # 1
        <3>1. i - 1 \in 1 .. m /\ i = (i - 1) + 1
            BY <1>1, <2>3
        <3>2. q[i].words = <<Word(s.offers[i - 1])>> /\ c[i] = <<Word(s.offers[i - 1])>>
            BY <1>2, <1>3, <2>1, <3>1
        <3>3. MaskVolatile(<<Word(s.offers[i - 1])>>) = <<Word(s.offers[i - 1])>>
            BY CapabilityMask
        <3> QED
            BY <3>2, <3>3
    <2> QED
        BY <2>2, <2>3
<1>5. IsList(q)
    BY <1>1, <1>2 DEF IsList
<1> QED
    BY <1>2, <1>4, <1>5 DEF q, c, m

(* The order and the limits of the capabilities do not show. *)
LEMMA SmtpForm ==
    ASSUME NEW s, NEW n \in Grabs, NEW S, s.offers \in Seq(S), s.ehlo \in BOOLEAN
    PROVE  NormalizeSmtp(Report(SmtpAnswer(s, n))) = SmtpVersion(s)
<1> DEFINE clock == IF n = 1 THEN "3141" ELSE "5926"
           lines == Advertised(s, clock)
           q == InSomeOrder(lines, n).items
           report == Report(SmtpAnswer(s, n))
           masked == [i \in FullLines(Text(q)) |-> MaskVolatile(q[i].words)]
<1>1. SmtpAnswer(s, n) = IF s.ehlo THEN [banner |-> Greeting(s, n), ehlo |-> Text(q)]
                         ELSE [banner |-> Greeting(s, n), helo |-> Text(q)]
    BY DEF SmtpAnswer, Advertised, Capability
<1> HIDE DEF clock
<1>2. /\ IsList(lines) /\ IsList(Capabilities(s)) /\ Len(lines) = Len(Capabilities(s))
      /\ \A i \in 1 .. Len(lines) : lines[i].words # <<>> /\ MaskVolatile(lines[i].words) = Capabilities(s)[i]
      /\ Len(lines) > 0
    <2>1. /\ Len(s.offers) \in Nat /\ IsList(Capabilities(s))
          /\ Len(Capabilities(s)) = Len(s.offers) + 1
        BY CapabilitiesFact
    <2>2. /\ IsList(lines) /\ Len(lines) = Len(s.offers) + 1
          /\ \A i \in 1 .. Len(s.offers) + 1 :
                 lines[i].words # <<>> /\ MaskVolatile(lines[i].words) = Capabilities(s)[i]
        BY AdvertisedFact
    <2> HIDE DEF lines
    <2> QED
        BY <2>1, <2>2
<1>3. q = IF n = 1 THEN lines ELSE Reverse(lines)
    BY DEF InSomeOrder, Items
<1>4. DOMAIN q = 1 .. Len(lines)
    BY <1>2, <1>3 DEF IsList, Reverse
<1>5. \A i \in 1 .. Len(lines) : q[i] = lines[IF n = 1 THEN i ELSE (Len(lines) - i) + 1]
    BY <1>2, <1>3 DEF IsList, Reverse
<1> HIDE DEF lines, q
<1>6. FullLines(Text(q)) = 1 .. Len(lines)
    <2>1. \A i \in 1 .. Len(lines) : q[i].words # <<>>
        BY <1>2, <1>5 DEF IsList
    <2>2. Blank.words = <<>>
        BY DEF Blank
    <2> QED
        BY <1>4, <2>1, <2>2 DEF FullLines, Text, Absent
<1>7. masked = IF n = 1 THEN Capabilities(s) ELSE Reverse(Capabilities(s))
    <2>1. CASE n = 1
        <3>1. \A i \in 1 .. Len(lines) : MaskVolatile(q[i].words) = Capabilities(s)[i]
            BY <1>2, <1>5, <2>1
        <3> QED
            BY <1>2, <1>6, <2>1, <3>1 DEF IsList
    <2>2. CASE n # 1
        <3>1. \A i \in 1 .. Len(lines) :
                  MaskVolatile(q[i].words) = Capabilities(s)[(Len(lines) - i) + 1]
            BY <1>2, <1>5, <2>2 DEF IsList
        <3> QED
            BY <1>2, <1>6, <2>2, <3>1 DEF IsList, Reverse
    <2> QED
        BY <2>1, <2>2
<1>8. Sorted(masked) = Sorted(Capabilities(s))
    BY <1>2, <1>7, SortedReverse
<1>9. /\ Get(report, <<"result", "banner">>) = Greeting(s, n)
      /\ Get(report, <<"result", "ehlo">>) = IF s.ehlo THEN Text(q) ELSE Absent
      /\ ~s.ehlo => Get(report, <<"result", "helo">>) = Text(q)
    <2>1. /\ Field(SmtpAnswer(s, n), "banner") = Greeting(s, n)
          /\ Field(SmtpAnswer(s, n), "ehlo") = IF s.ehlo THEN Text(q) ELSE Absent
          /\ ~s.ehlo => Field(SmtpAnswer(s, n), "helo") = Text(q)
        BY <1>1 DEF Field
    <2> QED
        BY <2>1, InReport
<1>10. Text(q) # Absent /\ Text(q) # Text(<<>>) /\ Text(q).text = q
    <2>1. q # <<>>
        BY <1>2, <1>4
    <2> QED
        BY <2>1 DEF Text, Absent
<1>11. StableBanner(Greeting(s, n)) = Text(Kept(s)) /\ ReplyCode(Greeting(s, n)) = Num(s.code)
    BY CodedGreeting
<1> DEFINE ehlo == Get(report, <<"result", "ehlo">>)
           extended == ehlo # Absent /\ ehlo # Text(<<>>)
           greeting == IF extended THEN ehlo ELSE Get(report, <<"result", "helo">>)
<1>12. extended = s.ehlo /\ greeting = Text(q)
    BY <1>9, <1>10
<1>13. NormalizeSmtp(report) =
          [banner |-> StableBanner(Greeting(s, n)), reply_code |-> ReplyCode(Greeting(s, n)),
           capabilities |-> Json(Sorted([i \in FullLines(greeting) |-> MaskVolatile(greeting.text[i].words)])),
           extended |-> Bool(extended)]
    BY <1>9 DEF NormalizeSmtp
<1>14. [i \in FullLines(greeting) |-> MaskVolatile(greeting.text[i].words)] = masked
    <2> HIDE DEF greeting
    <2> QED
        BY <1>10, <1>12
<1> HIDE DEF greeting, extended, masked
<1> QED
    BY <1>8, <1>11, <1>12, <1>13, <1>14 DEF SmtpVersion

-----------------------------------------------------------------------------
(* The services *)

(* What a version says of a service. *)
Described(protocol, s) ==
    CASE protocol = "http" -> HttpVersion(s)
      [] protocol = "https" -> TlsVersion(s)
      [] protocol = "ssh" -> SshVersion(s)
      [] protocol = "ftp" -> FtpVersion(s)
      [] protocol = "telnet" -> TelnetVersion(s)
      [] protocol = "smtp" -> SmtpVersion(s)

(* Where each http service leads to. *)
LEMMA HttpFact ==
    ASSUME NEW v \in DOMAIN HttpServices, NEW s, s = HttpServices[v]
    PROVE  /\ s.hops \in Seq({"/a", "/b", "/c"})
           /\ Leads(s) = IF v = "direct" THEN Absent
                         ELSE Text(IF v = "detour" THEN "/c" ELSE "/b")
<1>1. /\ s.hops = IF v \in {"direct", "location"} THEN <<>>
                  ELSE <<"/a", IF v = "detour" THEN "/c" ELSE "/b">>
      /\ s.location = IF v = "location" THEN "/b" ELSE Empty
    BY DEF HttpServices
<1>2. CASE v \in {"direct", "location"}
    <2>1. Empty # "/b"
        BY Zenon DEF Empty
    <2> QED
        BY <1>1, <1>2, <2>1 DEF Leads
<1>3. CASE v \notin {"direct", "location"}
    <2> DEFINE to == IF v = "detour" THEN "/c" ELSE "/b"
    <2>1. s.hops = <<"/a", to>> /\ to \in {"/a", "/b", "/c"}
        BY <1>1, <1>3
    <2>2. Leads(s) = Text(to)
        <3> HIDE DEF to
        <3> QED
            BY <2>1 DEF Leads
    <2>3. s.hops \in Seq({"/a", "/b", "/c"})
        <3> HIDE DEF to
        <3> QED
            BY <2>1
    <2> QED
        BY <1>3, <2>2, <2>3
<1> QED
    BY <1>2, <1>3

(* The common names of each TLS service. *)
LEMMA TlsFact ==
    ASSUME NEW v \in DOMAIN TlsServices, NEW s, s = TlsServices[v]
    PROVE  /\ s.subject \in Seq({"a.example", "b.example"})
           /\ s.subject = <<>> <=> v = "unnamed"
           /\ v # "unnamed" => s.subject[1] = IF v = "subject" THEN "b.example" ELSE "a.example"
<1> DEFINE name == IF v = "subject" THEN "b.example" ELSE "a.example"
<1>1. s.subject = IF v = "unnamed" THEN <<>> ELSE <<name>>
    BY DEF TlsServices
<1>2. name \in {"a.example", "b.example"}
    OBVIOUS
<1>3. CASE v = "unnamed"
    BY <1>1, <1>3
<1>4. CASE v # "unnamed"
    <2>1. s.subject = <<name>>
        BY <1>1, <1>4
    <2>2. s.subject \in Seq({"a.example", "b.example"}) /\ s.subject # <<>> /\ s.subject[1] = name
        <3> HIDE DEF name
        <3> QED
            BY <1>2, <2>1
    <2> QED
        BY <1>4, <2>2
<1> QED
    BY <1>3, <1>4

(* the options that telnet services know *)
TelnetOptions == {"Echo", "Binary", "TerminalType", "WindowSize", "Linemode"}

(* What each telnet service offers and asks for. *)
LEMMA TelnetFact ==
    ASSUME NEW v \in DOMAIN TelnetServices, NEW s, s = TelnetServices[v]
    PROVE  /\ s.will \in Seq(TelnetOptions) /\ s.do \in Seq(TelnetOptions)
           /\ "Binary" \in Range(s.will) <=> v # "will"
           /\ "WindowSize" \in Range(s.will) <=> v = "moved"
           /\ "WindowSize" \in Range(s.do) <=> v \notin {"do", "moved"}
<1>1. s.will = IF v = "will" THEN <<"Echo">>
               ELSE IF v = "moved" THEN <<"Echo", "Binary", "WindowSize">>
               ELSE <<"Echo", "Binary">>
    BY DEF TelnetServices
<1>2. s.do = IF v = "moved" THEN <<"TerminalType">>
             ELSE <<"TerminalType", IF v = "do" THEN "Linemode" ELSE "WindowSize">>
    BY DEF TelnetServices
<1>3. /\ s.will \in Seq(TelnetOptions)
      /\ Range(s.will) = {"Echo"} \union (IF v = "will" THEN {} ELSE {"Binary"})
                         \union (IF v = "moved" THEN {"WindowSize"} ELSE {})
    <2>1. CASE v = "will"
        <3>1. s.will = <<"Echo">>
            BY <1>1, <2>1
        <3>2. s.will \in Seq(TelnetOptions) /\ Range(s.will) = {"Echo"}
            BY <3>1 DEF TelnetOptions, Range
        <3> QED
            BY <2>1, <3>2
    <2>2. CASE v = "moved"
        <3>1. s.will = <<"Echo", "Binary", "WindowSize">>
            BY <1>1, <2>2
        <3>2. s.will \in Seq(TelnetOptions) /\ Range(s.will) = {"Echo", "Binary", "WindowSize"}
            BY <3>1 DEF TelnetOptions, Range
        <3> QED
            BY <2>2, <3>2
    <2>3. CASE v \notin {"will", "moved"}
        <3>1. s.will = <<"Echo", "Binary">>
            BY <1>1, <2>3
        <3>2. s.will \in Seq(TelnetOptions) /\ Range(s.will) = {"Echo", "Binary"}
            BY <3>1 DEF TelnetOptions, Range
        <3> QED
            BY <2>3, <3>2
    <2> QED
        BY <2>1, <2>2, <2>3
<1>4. /\ s.do \in Seq(TelnetOptions)
      /\ Range(s.do) = {"TerminalType"}
            \union (IF v = "moved" THEN {} ELSE {IF v = "do" THEN "Linemode" ELSE "WindowSize"})
    <2>1. CASE v = "moved"
        <3>1. s.do = <<"TerminalType">>
            BY <1>2, <2>1
        <3>2. s.do \in Seq(TelnetOptions) /\ Range(s.do) = {"TerminalType"}
            BY <3>1 DEF TelnetOptions, Range
        <3> QED
            BY <2>1, <3>2
    <2>2. CASE v # "moved"
        <3> DEFINE size == IF v = "do" THEN "Linemode" ELSE "WindowSize"
        <3>1. s.do = <<"TerminalType", size>> /\ size \in TelnetOptions
            BY <1>2, <2>2 DEF TelnetOptions
        <3>2. s.do \in Seq(TelnetOptions) /\ Range(s.do) = {"TerminalType", size}
            <4> HIDE DEF size
            <4> QED
                BY <3>1 DEF TelnetOptions, Range
        <3> QED
            BY <2>2, <3>2
    <2> QED
        BY <2>1, <2>2
<1> QED
    BY <1>3, <1>4

(* What each smtp service offers. *)
LEMMA SmtpFact ==
    ASSUME NEW v \in DOMAIN SmtpServices, NEW s, s = SmtpServices[v]
    PROVE  /\ s.offers \in Seq({"PIPELINING", "STARTTLS"}) /\ s.ehlo \in BOOLEAN
           /\ "STARTTLS" \in Range(s.offers) <=> v # "offers"
<1>1. /\ s.offers = IF v = "offers" THEN <<"PIPELINING">> ELSE <<"PIPELINING", "STARTTLS">>
      /\ s.ehlo = (v # "plain")
    BY DEF SmtpServices
<1>2. CASE v = "offers"
    <2>1. s.offers = <<"PIPELINING">>
        BY <1>1, <1>2
    <2>2. s.offers \in Seq({"PIPELINING", "STARTTLS"}) /\ Range(s.offers) = {"PIPELINING"}
        BY <2>1 DEF Range
    <2> QED
        BY <1>1, <1>2, <2>2
<1>3. CASE v # "offers"
    <2>1. s.offers = <<"PIPELINING", "STARTTLS">>
        BY <1>1, <1>3
    <2>2. s.offers \in Seq({"PIPELINING", "STARTTLS"}) /\ Range(s.offers) = {"PIPELINING", "STARTTLS"}
        BY <2>1 DEF Range
    <2> QED
        BY <1>1, <1>3, <2>2
<1> QED
    BY <1>2, <1>3

(* A version is made of the service alone: the two grabs of a service, with *)
(* the clocks, sessions, counters, spellings and orders of each, normalise *)
(* to the same row.                                                        *)
THEOREM VersionForm ==
    ASSUME NEW p \in Protocols, NEW v \in Variants(p), NEW n \in Grabs
    PROVE  NormalizeResult(ModuleOf(p), Success(p, v, n)) = Described(p, ServicesOf(p)[v])
<1> DEFINE s == ServicesOf(p)[v]
           report(answer) == NormalizeResult(ModuleOf(p), Report(answer))
<1>1. CASE p = "http"
    <2>1. s.hops \in Seq({"/a", "/b", "/c"})
        BY <1>1, HttpFact DEF ServicesOf, Variants
    <2>2. NormalizeHttp(Report(HttpAnswer(s, n))) = HttpVersion(s)
        <3> HIDE DEF s
        <3> QED
            BY <2>1, HttpForm
    <2>3. Success(p, v, n) = Report(HttpAnswer(s, n))
        BY <1>1 DEF Success, Report
    <2> QED
        BY <1>1, <2>2, <2>3 DEF NormalizeResult, ModuleOf, Described
<1>2. CASE p = "https"
    <2>1. s.subject \in Seq({"a.example", "b.example"})
        BY <1>2, TlsFact DEF ServicesOf, Variants
    <2>2. NormalizeTls(Report(TlsAnswer(s, n))) = TlsVersion(s)
        <3> HIDE DEF s
        <3> QED
            BY <2>1, TlsForm
    <2>3. Success(p, v, n) = Report(TlsAnswer(s, n))
        BY <1>2 DEF Success, Report
    <2> QED
        BY <1>2, <2>2, <2>3 DEF NormalizeResult, ModuleOf, Described
<1>3. CASE p = "ssh"
    <2>1. NormalizeSsh(Report(SshAnswer(s, n))) = SshVersion(s)
        BY SshForm
    <2>2. Success(p, v, n) = Report(SshAnswer(s, n))
        BY <1>3 DEF Success, Report
    <2> QED
        BY <1>3, <2>1, <2>2 DEF NormalizeResult, ModuleOf, Described
<1>4. CASE p = "ftp"
    <2>1. NormalizeFtp(Report(FtpAnswer(s, n))) = FtpVersion(s)
        BY FtpForm
    <2>2. Success(p, v, n) = Report(FtpAnswer(s, n))
        BY <1>4 DEF Success, Report
    <2> QED
        BY <1>4, <2>1, <2>2 DEF NormalizeResult, ModuleOf, Described
<1>5. CASE p = "telnet"
    <2>1. s.will \in Seq(TelnetOptions) /\ s.do \in Seq(TelnetOptions)
        BY <1>5, TelnetFact DEF ServicesOf, Variants
    <2>2. NormalizeTelnet(Report(TelnetAnswer(s, n))) = TelnetVersion(s)
        <3> HIDE DEF s
        <3> QED
            BY <2>1, TelnetForm
    <2>3. Success(p, v, n) = Report(TelnetAnswer(s, n))
        BY <1>5 DEF Success, Report
    <2> QED
        BY <1>5, <2>2, <2>3 DEF NormalizeResult, ModuleOf, Described
<1>6. CASE p = "smtp"
    <2>1. s.offers \in Seq({"PIPELINING", "STARTTLS"}) /\ s.ehlo \in BOOLEAN
        BY <1>6, SmtpFact DEF ServicesOf, Variants
    <2>2. NormalizeSmtp(Report(SmtpAnswer(s, n))) = SmtpVersion(s)
        <3> HIDE DEF s
        <3> QED
            BY <2>1, SmtpForm
    <2>3. Success(p, v, n) = Report(SmtpAnswer(s, n))
        BY <1>6 DEF Success, Report
    <2> QED
        BY <1>6, <2>2, <2>3 DEF NormalizeResult, ModuleOf, Described
<1> QED
    BY <1>1, <1>2, <1>3, <1>4, <1>5, <1>6 DEF Protocols

-----------------------------------------------------------------------------
(* Differences *)

(* A list of options with a name and one without differ when they are sorted. *)
LEMMA OptionsApart ==
    ASSUME NEW S, NEW a \in Seq(S), NEW b \in Seq(S), NEW x, x \in Range(a), x \notin Range(b), NEW code
    PROVE  Sorted(Options(a, code)) # Sorted(Options(b, code))
<1> DEFINE f == Options(a, code)
           g == Options(b, code)
           A == {i \in 1 .. Len(a) : Text(a[i]) = Text(x)}
           Extra(m) == IF Text(ToString(code)) = Text(x) THEN {m + 1} ELSE {}
<1>1. Len(a) \in Nat /\ Len(b) \in Nat /\ DOMAIN a = 1 .. Len(a) /\ DOMAIN b = 1 .. Len(b)
    OBVIOUS
<1>2. /\ DOMAIN f = 1 .. Len(a) + 1 /\ f[Len(a) + 1] = Text(ToString(code))
      /\ \A i \in 1 .. Len(a) : f[i] = Text(a[i])
    BY <1>1, OfferedFact DEF IsList
<1>3. /\ DOMAIN g = 1 .. Len(b) + 1 /\ g[Len(b) + 1] = Text(ToString(code))
      /\ \A i \in 1 .. Len(b) : g[i] = Text(b[i])
    BY <1>1, OfferedFact DEF IsList
<1> HIDE DEF f, g
<1>4. \A y, z : Text(y) = Text(z) => y = z
    BY DEF Text
<1>5. Places(f, Text(x)) = A \union Extra(Len(a))
    <2>1. \A i \in 1 .. Len(a) + 1 : i \in 1 .. Len(a) \/ i = Len(a) + 1
        BY <1>1
    <2>2. Places(f, Text(x)) \subseteq A \union Extra(Len(a))
        BY <1>2, <2>1 DEF Places
    <2>3. A \union Extra(Len(a)) \subseteq Places(f, Text(x))
        BY <1>1, <1>2 DEF Places
    <2> QED
        BY <2>2, <2>3
<1>6. Places(g, Text(x)) = Extra(Len(b))
    <2>1. \A i \in 1 .. Len(b) + 1 : i \in 1 .. Len(b) \/ i = Len(b) + 1
        BY <1>1
    <2>2. \A i \in 1 .. Len(b) : g[i] # Text(x)
        BY <1>1, <1>3, <1>4 DEF Range
    <2>3. Places(g, Text(x)) \subseteq Extra(Len(b))
        BY <1>3, <2>1, <2>2 DEF Places
    <2>4. Extra(Len(b)) \subseteq Places(g, Text(x))
        BY <1>1, <1>3 DEF Places
    <2> QED
        BY <2>3, <2>4
<1>7. IsFiniteSet(A) /\ Cardinality(A) \in Nat \ {0} /\ Len(a) + 1 \notin A
    <2>1. PICK i \in 1 .. Len(a) : a[i] = x
        BY <1>1 DEF Range
    <2>2. IsFiniteSet(A)
        <3>1. IsFiniteSet(1 .. Len(a)) /\ A \subseteq 1 .. Len(a)
            BY <1>1, FS_Interval
        <3> QED
            BY <3>1, FS_Subset
    <2>3. A # {}
        BY <2>1
    <2>4. Len(a) + 1 \notin A
        BY <1>1
    <2> HIDE DEF A
    <2> QED
        BY <2>2, <2>3, <2>4, FS_CardinalityType, FS_EmptySet
<1> HIDE DEF A
<1>8. Cardinality(Places(f, Text(x))) # Cardinality(Places(g, Text(x)))
    <2>1. CASE Text(ToString(code)) = Text(x)
        <3>1. Extra(Len(a)) = {Len(a) + 1} /\ Extra(Len(b)) = {Len(b) + 1}
            BY <2>1
        <3>2. Cardinality(A \union {Len(a) + 1}) = Cardinality(A) + 1
            BY <1>7, FS_AddElement
        <3>3. Cardinality({Len(b) + 1}) = 1
            BY FS_Singleton
        <3> HIDE DEF Extra
        <3>4. Cardinality(Places(f, Text(x))) = Cardinality(A) + 1
              /\ Cardinality(Places(g, Text(x))) = 1
            BY <1>5, <1>6, <3>1, <3>2, <3>3
        <3> QED
            BY <1>7, <3>4
    <2>2. CASE Text(ToString(code)) # Text(x)
        <3>1. Extra(Len(a)) = {} /\ Extra(Len(b)) = {}
            BY <2>2
        <3> HIDE DEF Extra
        <3>2. Cardinality(Places(f, Text(x))) = Cardinality(A)
              /\ Cardinality(Places(g, Text(x))) = 0
            BY <1>5, <1>6, <3>1, FS_EmptySet
        <3> QED
            BY <1>7, <3>2
    <2> QED
        BY <2>1, <2>2
<1> QED
    BY <1>8, SortedCounts DEF f, g

(* So do two lists of capabilities. *)
LEMMA CapabilitiesApart ==
    ASSUME NEW S, NEW s, NEW t, s.offers \in Seq(S), t.offers \in Seq(S), NEW x,
           x \in Range(s.offers), x \notin Range(t.offers)
    PROVE  Sorted(Capabilities(s)) # Sorted(Capabilities(t))
<1>1. /\ DOMAIN Capabilities(s) = 1 .. Len(s.offers) + 1 /\ Len(s.offers) \in Nat
      /\ \A i \in 1 .. Len(s.offers) : Capabilities(s)[i + 1] = <<Word(s.offers[i])>>
    BY CapabilitiesFact DEF IsList
<1>2. /\ DOMAIN Capabilities(t) = 1 .. Len(t.offers) + 1 /\ Len(t.offers) \in Nat
      /\ \A i \in 1 .. Len(t.offers) : Capabilities(t)[i + 1] = <<Word(t.offers[i])>>
      /\ Capabilities(t)[1] = <<Word("SIZE"), Mask>>
    BY CapabilitiesFact DEF IsList
<1>3. <<Word(x)>> \in Range(Capabilities(s))
    <2>1. PICK i \in 1 .. Len(s.offers) : s.offers[i] = x
        BY <1>1 DEF Range
    <2>2. i + 1 \in DOMAIN Capabilities(s) /\ Capabilities(s)[i + 1] = <<Word(x)>>
        BY <1>1, <2>1
    <2> QED
        BY <2>2 DEF Range
<1>4. ASSUME NEW i \in DOMAIN Capabilities(t) PROVE Capabilities(t)[i] # <<Word(x)>>
    <2>1. CASE i = 1
        <3>1. Len(<<Word("SIZE"), Mask>>) = 2 /\ Len(<<Word(x)>>) = 1
            OBVIOUS
        <3>2. Capabilities(t)[i] = <<Word("SIZE"), Mask>>
            BY <1>2, <2>1
        <3> QED
            BY <3>1, <3>2
    <2>2. CASE i # 1
        <3>1. i - 1 \in 1 .. Len(t.offers) /\ i = (i - 1) + 1
            BY <1>2, <2>2
        <3>2. Capabilities(t)[i] = <<Word(t.offers[i - 1])>> /\ t.offers[i - 1] # x
            BY <1>2, <3>1 DEF Range
        <3>3. \A y, z : <<Word(y)>> = <<Word(z)>> => y = z
            BY DEF Word
        <3> QED
            BY <3>2, <3>3
    <2> QED
        BY <2>1, <2>2
<1>5. Range(Capabilities(s)) # Range(Capabilities(t))
    BY <1>3, <1>4 DEF Range
<1> QED
    BY <1>5 DEF Sorted, ToBag

(* The banners of two pieces of software differ. *)
LEMMA BannerApart ==
    ASSUME NEW s, NEW t, s.software # t.software PROVE Text(Kept(s)) # Text(Kept(t))
<1>1. Text(Kept(s)) = Text(Kept(t)) => Kept(s) = Kept(t)
    BY DEF Text
<1>2. Kept(s) = Kept(t) => Word(s.software) = Word(t.software)
    BY DEF Kept
<1>3. Word(s.software) # Word(t.software)
    BY DEF Word
<1> QED
    BY <1>1, <1>2, <1>3

(* Two services of a protocol that differ have versions that differ: what  *)
(* the masks and the sorting take away is never all that tells them apart. *)
THEOREM VersionsApart ==
    ASSUME NEW p \in Protocols, NEW v \in Variants(p), NEW w \in Variants(p), v # w
    PROVE  Described(p, ServicesOf(p)[v]) # Described(p, ServicesOf(p)[w])
<1> DEFINE s == ServicesOf(p)[v]
           t == ServicesOf(p)[w]
<1>1. CASE p = "http"
    <2>1. v \in DOMAIN HttpServices /\ w \in DOMAIN HttpServices
              /\ s = HttpServices[v] /\ t = HttpServices[w]
        BY <1>1 DEF Variants, ServicesOf
    <2>2. Described(p, s) = HttpVersion(s) /\ Described(p, t) = HttpVersion(t)
        BY <1>1 DEF Described
    <2> HIDE DEF s, t
    <2>3. HttpVersion(s) = HttpVersion(t) =>
              /\ Num(s.status) = Num(t.status) /\ Json(HttpHeaders(s)) = Json(HttpHeaders(t))
              /\ Text(s.server) = Text(t.server) /\ Titled(s) = Titled(t) /\ Leads(s) = Leads(t)
        BY DEF HttpVersion
    <2>4. /\ v \in {"base", "status", "server", "untitled", "detour", "direct", "location"}
          /\ w \in {"base", "status", "server", "untitled", "detour", "direct", "location"}
        BY <2>1 DEF HttpServices
    <2>5. Num(s.status) = Num(t.status) => (v = "status" <=> w = "status")
        BY <2>1 DEF HttpServices, Num
    <2>6. Text(s.server) = Text(t.server) => (v = "server" <=> w = "server")
        BY <2>1 DEF HttpServices, Text
    <2>7. Titled(s) = Titled(t) => (v = "untitled" <=> w = "untitled")
        <3>1. Empty # "Home"
            BY Zenon DEF Empty
        <3>2. s.title = (IF v = "untitled" THEN Empty ELSE "Home")
                  /\ t.title = (IF w = "untitled" THEN Empty ELSE "Home")
            BY <2>1 DEF HttpServices
        <3> QED
            BY <3>1, <3>2 DEF Titled, Text, Absent
    <2>8. Leads(s) = Leads(t) => (v = "detour" <=> w = "detour") /\ (v = "direct" <=> w = "direct")
        <3>1. /\ Leads(s) = IF v = "direct" THEN Absent ELSE Text(IF v = "detour" THEN "/c" ELSE "/b")
              /\ Leads(t) = IF w = "direct" THEN Absent ELSE Text(IF w = "detour" THEN "/c" ELSE "/b")
            BY <2>1, HttpFact
        <3> QED
            BY <3>1 DEF Text, Absent
    <2>9. Json(HttpHeaders(s)) = Json(HttpHeaders(t)) => (v = "location" <=> w = "location")
        <3>1. Json(HttpHeaders(s)) = Json(HttpHeaders(t)) =>
              DOMAIN HttpHeaders(s) = DOMAIN HttpHeaders(t)
            BY DEF Json
        <3>2. Empty # "/b"
            BY Zenon DEF Empty
        <3>3. s.location = (IF v = "location" THEN "/b" ELSE Empty)
                  /\ t.location = (IF w = "location" THEN "/b" ELSE Empty)
            BY <2>1 DEF HttpServices
        <3>4. /\ "location" \in DOMAIN HttpHeaders(s) <=> v = "location"
              /\ "location" \in DOMAIN HttpHeaders(t) <=> w = "location"
            BY <3>2, <3>3 DEF HttpHeaders
        <3> QED
            BY <3>1, <3>4
    <2>10. HttpVersion(s) # HttpVersion(t)
        BY <2>3, <2>4, <2>5, <2>6, <2>7, <2>8, <2>9
    <2>11. Described(p, s) # Described(p, t)
        BY <2>2, <2>10
    <2> QED
        BY <2>11 DEF s, t
<1>2. CASE p = "https"
    <2>1. v \in DOMAIN TlsServices /\ w \in DOMAIN TlsServices
              /\ s = TlsServices[v] /\ t = TlsServices[w]
        BY <1>2 DEF Variants, ServicesOf
    <2>2. Described(p, s) = TlsVersion(s) /\ Described(p, t) = TlsVersion(t)
        BY <1>2 DEF Described
    <2> HIDE DEF s, t
    <2> DEFINE Subject(x) == IF x.subject = <<>> THEN Items(<<>>) ELSE Text(x.subject[1])
    <2>3. TlsVersion(s) = TlsVersion(t) =>
              /\ Text(s.version) = Text(t.version) /\ Text(s.suite) = Text(t.suite)
              /\ Subject(s) = Subject(t) /\ Text(s.serial) = Text(t.serial)
        <3> DEFINE Cert(x) == [subject_cn |-> Subject(x), issuer_cn |-> Text("CA"),
                               serial_number |-> Text(x.serial), signature_algorithm |-> Text("rsa"),
                               fingerprint_sha256 |-> Text(x.print)]
        <3>1. TlsVersion(s) = TlsVersion(t) =>
                  /\ Text(s.version) = Text(t.version) /\ Text(s.suite) = Text(t.suite)
                  /\ Json(Cert(s)) = Json(Cert(t))
            BY DEF TlsVersion
        <3>2. Json(Cert(s)) = Json(Cert(t)) => Cert(s) = Cert(t)
            <4> HIDE DEF Cert
            <4> QED
                BY DEF Json
        <3>3. Cert(s) = Cert(t) => Subject(s) = Subject(t) /\ Text(s.serial) = Text(t.serial)
            <4> HIDE DEF Subject
            <4> QED
                OBVIOUS
        <3> QED
            BY <3>1, <3>2, <3>3
    <2>4. /\ v \in {"base", "version", "suite", "subject", "unnamed", "renewed"}
          /\ w \in {"base", "version", "suite", "subject", "unnamed", "renewed"}
        BY <2>1 DEF TlsServices
    <2>5. Text(s.version) = Text(t.version) => (v = "version" <=> w = "version")
        BY <2>1 DEF TlsServices, Text
    <2>6. Text(s.suite) = Text(t.suite) => (v = "suite" <=> w = "suite")
        BY <2>1 DEF TlsServices, Text
    <2>7. Text(s.serial) = Text(t.serial) => (v = "renewed" <=> w = "renewed")
        BY <2>1 DEF TlsServices, Text
    <2>8. Subject(s) = Subject(t) =>
              (v = "subject" <=> w = "subject") /\ (v = "unnamed" <=> w = "unnamed")
        <3>1. /\ Subject(s) = IF v = "unnamed" THEN Items(<<>>)
                              ELSE Text(IF v = "subject" THEN "b.example" ELSE "a.example")
              /\ Subject(t) = IF w = "unnamed" THEN Items(<<>>)
                              ELSE Text(IF w = "subject" THEN "b.example" ELSE "a.example")
            BY <2>1, TlsFact
        <3>2. \A y : Items(<<>>) # Text(y)
            BY DEF Items, Text
        <3>3. Text("a.example") # Text("b.example")
            BY DEF Text
        <3> HIDE DEF Subject
        <3> QED
            BY <3>1, <3>2, <3>3
    <2> HIDE DEF Subject
    <2>9. TlsVersion(s) # TlsVersion(t)
        BY <2>3, <2>4, <2>5, <2>6, <2>7, <2>8
    <2>10. Described(p, s) # Described(p, t)
        BY <2>2, <2>9
    <2> QED
        BY <2>10 DEF s, t
<1>3. CASE p = "ssh"
    <2>1. v \in DOMAIN SshServices /\ w \in DOMAIN SshServices
              /\ s = SshServices[v] /\ t = SshServices[w]
        BY <1>3 DEF Variants, ServicesOf
    <2>2. Described(p, s) = SshVersion(s) /\ Described(p, t) = SshVersion(t)
        BY <1>3 DEF Described
    <2> HIDE DEF s, t
    <2>3. SshVersion(s) = SshVersion(t) =>
              Text(s.software) = Text(t.software) /\ Text(s.comment) = Text(t.comment) /\ Text(s.key) = Text(t.key)
        BY DEF SshVersion
    <2>4. v \in {"base", "software", "comment", "key"}
              /\ w \in {"base", "software", "comment", "key"}
        BY <2>1 DEF SshServices
    <2>5. Text(s.software) = Text(t.software) => (v = "software" <=> w = "software")
        BY <2>1 DEF SshServices, Text
    <2>6. Text(s.comment) = Text(t.comment) => (v = "comment" <=> w = "comment")
        BY <2>1 DEF SshServices, Text
    <2>7. Text(s.key) = Text(t.key) => (v = "key" <=> w = "key")
        BY <2>1 DEF SshServices, Text
    <2>8. SshVersion(s) # SshVersion(t)
        BY <2>3, <2>4, <2>5, <2>6, <2>7
    <2>9. Described(p, s) # Described(p, t)
        BY <2>2, <2>8
    <2> QED
        BY <2>9 DEF s, t
<1>4. CASE p = "ftp"
    <2>1. v \in DOMAIN FtpServices /\ w \in DOMAIN FtpServices
              /\ s = FtpServices[v] /\ t = FtpServices[w]
        BY <1>4 DEF Variants, ServicesOf
    <2>2. Described(p, s) = FtpVersion(s) /\ Described(p, t) = FtpVersion(t)
        BY <1>4 DEF Described
    <2> HIDE DEF s, t
    <2>3. FtpVersion(s) = FtpVersion(t) =>
              Text(Kept(s)) = Text(Kept(t)) /\ Num(s.code) = Num(t.code)
        BY DEF FtpVersion
    <2>4. v \in {"base", "code", "software"} /\ w \in {"base", "code", "software"}
        BY <2>1 DEF FtpServices
    <2>5. Num(s.code) = Num(t.code) => (v = "code" <=> w = "code")
        BY <2>1 DEF FtpServices, Num
    <2>6. s.software = t.software => (v = "software" <=> w = "software")
        BY <2>1 DEF FtpServices
    <2>7. FtpVersion(s) # FtpVersion(t)
        BY <2>3, <2>4, <2>5, <2>6, BannerApart
    <2>8. Described(p, s) # Described(p, t)
        BY <2>2, <2>7
    <2> QED
        BY <2>8 DEF s, t
<1>5. CASE p = "telnet"
    <2>1. v \in DOMAIN TelnetServices /\ w \in DOMAIN TelnetServices
              /\ s = TelnetServices[v] /\ t = TelnetServices[w]
        BY <1>5 DEF Variants, ServicesOf
    <2>2. Described(p, s) = TelnetVersion(s) /\ Described(p, t) = TelnetVersion(t)
        BY <1>5 DEF Described
    <2> HIDE DEF s, t
    <2>3. TelnetVersion(s) = TelnetVersion(t) =>
              /\ Text(Kept(s)) = Text(Kept(t))
              /\ Json(Sorted(Options(s.will, 39))) = Json(Sorted(Options(t.will, 39)))
              /\ Json(Sorted(Options(s.do, 24))) = Json(Sorted(Options(t.do, 24)))
        BY DEF TelnetVersion
    <2>4. \A x, y : Json(x) = Json(y) => x = y
        BY DEF Json
    <2>5. v \in {"base", "software", "will", "do", "moved"}
              /\ w \in {"base", "software", "will", "do", "moved"}
        BY <2>1 DEF TelnetServices
    <2>6. s.software = t.software => (v = "software" <=> w = "software")
        BY <2>1 DEF TelnetServices
    <2>7. /\ s.will \in Seq(TelnetOptions) /\ s.do \in Seq(TelnetOptions)
          /\ "Binary" \in Range(s.will) <=> v # "will"
          /\ "WindowSize" \in Range(s.will) <=> v = "moved"
          /\ "WindowSize" \in Range(s.do) <=> v \notin {"do", "moved"}
        BY <2>1, TelnetFact
    <2>8. /\ t.will \in Seq(TelnetOptions) /\ t.do \in Seq(TelnetOptions)
          /\ "Binary" \in Range(t.will) <=> w # "will"
          /\ "WindowSize" \in Range(t.will) <=> w = "moved"
          /\ "WindowSize" \in Range(t.do) <=> w \notin {"do", "moved"}
        BY <2>1, TelnetFact
    <2>9. ASSUME NEW a \in Seq(TelnetOptions), NEW b \in Seq(TelnetOptions), NEW code,
                 Sorted(Options(a, code)) = Sorted(Options(b, code))
          PROVE  \A x : x \in Range(a) <=> x \in Range(b)
        BY <2>9, OptionsApart
    <2>10. TelnetVersion(s) = TelnetVersion(t) =>
               /\ \A x : x \in Range(s.will) <=> x \in Range(t.will)
               /\ \A x : x \in Range(s.do) <=> x \in Range(t.do)
        BY <2>3, <2>4, <2>7, <2>8, <2>9
    <2>11. TelnetVersion(s) # TelnetVersion(t)
        BY <2>3, <2>5, <2>6, <2>7, <2>8, <2>10, BannerApart
    <2>12. Described(p, s) # Described(p, t)
        BY <2>2, <2>11
    <2> QED
        BY <2>12 DEF s, t
<1>6. CASE p = "smtp"
    <2>1. v \in DOMAIN SmtpServices /\ w \in DOMAIN SmtpServices
              /\ s = SmtpServices[v] /\ t = SmtpServices[w]
        BY <1>6 DEF Variants, ServicesOf
    <2>2. Described(p, s) = SmtpVersion(s) /\ Described(p, t) = SmtpVersion(t)
        BY <1>6 DEF Described
    <2> HIDE DEF s, t
    <2>3. SmtpVersion(s) = SmtpVersion(t) =>
              /\ Text(Kept(s)) = Text(Kept(t)) /\ Num(s.code) = Num(t.code)
              /\ Json(Sorted(Capabilities(s))) = Json(Sorted(Capabilities(t))) /\ Bool(s.ehlo) = Bool(t.ehlo)
        BY DEF SmtpVersion
    <2>4. \A x, y : Json(x) = Json(y) => x = y
        BY DEF Json
    <2>5. v \in {"base", "code", "software", "offers", "plain"}
              /\ w \in {"base", "code", "software", "offers", "plain"}
        BY <2>1 DEF SmtpServices
    <2>6. Num(s.code) = Num(t.code) => (v = "code" <=> w = "code")
        BY <2>1 DEF SmtpServices, Num
    <2>7. s.software = t.software => (v = "software" <=> w = "software")
        BY <2>1 DEF SmtpServices
    <2>8. Bool(s.ehlo) = Bool(t.ehlo) => (v = "plain" <=> w = "plain")
        <3>1. s.ehlo = (v # "plain") /\ t.ehlo = (w # "plain")
            BY <2>1 DEF SmtpServices
        <3>2. Bool(s.ehlo) = Bool(t.ehlo) => s.ehlo = t.ehlo
            BY DEF Bool
        <3> QED
            BY <3>1, <3>2
    <2>9. /\ s.offers \in Seq({"PIPELINING", "STARTTLS"}) /\ t.offers \in Seq({"PIPELINING", "STARTTLS"})
          /\ "STARTTLS" \in Range(s.offers) <=> v # "offers"
          /\ "STARTTLS" \in Range(t.offers) <=> w # "offers"
        BY <2>1, SmtpFact
    <2>10. Sorted(Capabilities(s)) = Sorted(Capabilities(t)) =>
               ("STARTTLS" \in Range(s.offers) <=> "STARTTLS" \in Range(t.offers))
        <3> DEFINE Offers == {"PIPELINING", "STARTTLS"}
        <3>1. ASSUME NEW a, NEW b, a.offers \in Seq(Offers), b.offers \in Seq(Offers),
                     "STARTTLS" \in Range(a.offers), "STARTTLS" \notin Range(b.offers)
              PROVE  Sorted(Capabilities(a)) # Sorted(Capabilities(b))
            <4> HIDE DEF Offers
            <4> QED
                BY <3>1, CapabilitiesApart
        <3> QED
            BY <2>9, <3>1
    <2>11. SmtpVersion(s) = SmtpVersion(t) =>
              ("STARTTLS" \in Range(s.offers) <=> "STARTTLS" \in Range(t.offers))
        BY <2>3, <2>4, <2>10
    <2>12. SmtpVersion(s) # SmtpVersion(t)
        BY <2>3, <2>5, <2>6, <2>7, <2>8, <2>9, <2>11, BannerApart
    <2>13. Described(p, s) # Described(p, t)
        BY <2>2, <2>12
    <2> QED
        BY <2>13 DEF s, t
<1> QED
    BY <1>1, <1>2, <1>3, <1>4, <1>5, <1>6 DEF Protocols
=============================================================================
