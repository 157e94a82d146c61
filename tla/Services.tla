------------------------------ MODULE Services ------------------------------
(***************************************************************************)
(* The services behind the addresses, and the data.<module> object in      *)
(* which ZGrab2 reports one (external, as normalize.py and its tests       *)
(* describe it).  A service is a base or differs from it in one respect.   *)
(* What else is in an answer depends on the grab: a clock, a counter, a    *)
(* session, the order of a list, the spelling of a header.                 *)
(***************************************************************************)
EXTENDS Normalize

Protocols == {"http", "https", "ssh", "ftp", "telnet", "smtp"}
ModuleOf(protocol) == IF protocol = "https" THEN "tls" ELSE protocol
Grabs == {1, 2}

Word(w) == [shape |-> "word", of |-> w]
Number(w) == [shape |-> "number", of |-> w]
Token(w) == [shape |-> "token", of |-> w]
Line(code, words) == [code |-> code, words |-> words]

HttpServices ==
    [v \in {"base", "status", "server", "untitled", "detour", "direct", "location"} |->
        [status |-> IF v = "status" THEN 404 ELSE 200,
         server |-> IF v = "server" THEN "apache" ELSE "nginx",
         title |-> IF v = "untitled" THEN Empty ELSE "Home",
         location |-> IF v = "location" THEN "/b" ELSE Empty,
         hops |-> IF v \in {"direct", "location"} THEN <<>>
                  ELSE <<"/a", IF v = "detour" THEN "/c" ELSE "/b">>]]

Hop(to) == Obj([headers |-> Obj([location |-> Text(to)])])

HttpAnswer(s, n) ==
    LET names ==
            (IF n = 1 THEN {"Server", "Date", "unknown"} ELSE {"server", "date", "unknown"})
            \cup IF s.location = Empty THEN {} ELSE {"location"}
        value == [server |-> Text(s.server), date |-> Num(n), unknown |-> Num(n),
                  location |-> Text(s.location)]
        headers == [name \in names |-> Items(<<value[Lower(name)]>>)]
    IN  [response |-> Obj([status_code |-> Num(s.status), headers |-> Obj(headers),
                           body |-> [kind |-> "page", title |-> s.title, rest |-> n]]),
         redirect_response_chain |-> Items([i \in DOMAIN s.hops |-> Hop(s.hops[i])])]

TlsServices ==
    [v \in {"base", "version", "suite", "subject", "unnamed", "renewed"} |->
        [version |-> IF v = "version" THEN "TLSv1.2" ELSE "TLSv1.3",
         suite |-> IF v = "suite" THEN "chacha" ELSE "aes",
         subject |-> IF v = "unnamed" THEN <<>>
                     ELSE <<IF v = "subject" THEN "b.example" ELSE "a.example">>,
         serial |-> IF v = "renewed" THEN "2" ELSE "1",
         print |-> IF v = "renewed" THEN "q" ELSE "p"]]

TlsAnswer(s, n) ==
    LET Named(x) == Obj([name |-> Text(x)])
        cert == Obj([subject |-> Obj([common_name |-> Items([i \in DOMAIN s.subject |->
                                                             Text(s.subject[i])])]),
                     issuer |-> Obj([common_name |-> Text("CA")]),
                     serial_number |-> Text(s.serial),
                     signature_algorithm |-> Named("rsa"),
                     fingerprint_sha256 |-> Text(s.print)])
    IN  [handshake_log |->
            Obj([server_hello |-> Obj([version |-> Named(s.version),
                                       cipher_suite |-> Named(s.suite),
                                       random |-> Num(n)]),
                 server_certificates |->
                    Obj([certificate |-> Obj([parsed |-> cert])])])]

SshServices ==
    [v \in {"base", "software", "comment", "key"} |->
        [software |-> IF v = "software" THEN "dropbear" ELSE "OpenSSH_9",
         comment |-> IF v = "comment" THEN "Ubuntu" ELSE "Debian",
         key |-> IF v = "key" THEN "l" ELSE "k"]]

SshAnswer(s, n) ==
    [server_id |-> Obj([raw |-> Text(<<s.software, s.comment>>), version |-> Text("2.0"),
                        software |-> Text(s.software), comment |-> Text(s.comment)]),
     key_exchange |->
        Obj([cookie |-> Num(n),
             server_host_key |-> Obj([algorithm |-> Text("ed25519"),
                                      fingerprint_sha256 |-> Text(s.key)])])]

(* A greeting: its identity on the first line, with a session and a clock, *)
(* and chat on the lines after it; blank lines may come before it.         *)
Greeting(s, n) ==
    LET session == IF n = 1 THEN "d9443c01a7336" ELSE "k77f31bb02c19"
        clock == IF n = 1 THEN "2224" ELSE "2359"
        opening == Line(Num(s.code), <<Word(s.software), Token(session), Number(clock)>>)
        chat == Line(Num(s.code), <<Word("user"), Number(clock)>>)
    IN  Text(IF n = 1 THEN <<opening, chat>> ELSE <<Blank, opening, chat, chat>>)

FtpServices ==
    [v \in {"base", "code", "software"} |->
        [code |-> IF v = "code" THEN 421 ELSE 220,
         software |-> IF v = "software" THEN "vsftpd-3.0.5" ELSE "vsftpd-3.0.3"]]

FtpAnswer(s, n) == [banner |-> Greeting(s, n)]

(* The second grab meets the same items in another order. *)
InSomeOrder(s, n) == Items(IF n = 1 THEN s ELSE Reverse(s))

TelnetServices ==
    [v \in {"base", "software", "will", "do", "moved"} |->
        [code |-> 0,
         software |-> IF v = "software" THEN "MikroTik" ELSE "BusyBox",
         will |-> IF v = "will" THEN <<"Echo">>
                  ELSE IF v = "moved" THEN <<"Echo", "Binary", "WindowSize">>
                  ELSE <<"Echo", "Binary">>,
         do |-> IF v = "moved" THEN <<"TerminalType">>
                ELSE <<"TerminalType", IF v = "do" THEN "Linemode" ELSE "WindowSize">>]]

TelnetAnswer(s, n) ==
    LET Options(names, code) ==
            InSomeOrder([i \in DOMAIN names |-> Obj([name |-> Text(names[i]), value |-> Num(i)])]
                        \o <<Obj([value |-> Num(code)])>>, n)
    IN  [banner |-> Text([i \in DOMAIN Greeting(s, n).text |->
                            [Greeting(s, n).text[i] EXCEPT !.code = Absent]]),
         will |-> Options(s.will, 39),
         do |-> Options(s.do, 24)]

SmtpServices ==
    [v \in {"base", "code", "software", "offers", "plain"} |->
        [code |-> IF v = "code" THEN 554 ELSE 220,
         software |-> IF v = "software" THEN "Postfix" ELSE "Exim-4.9",
         offers |-> IF v = "offers" THEN <<"PIPELINING">> ELSE <<"PIPELINING", "STARTTLS">>,
         ehlo |-> v # "plain"]]

SmtpAnswer(s, n) ==
    LET clock == IF n = 1 THEN "3141" ELSE "5926"
        lines == <<Line(Num(250), <<Word("SIZE"), Number(clock)>>)>>
                 \o [i \in DOMAIN s.offers |-> Line(Num(250), <<Word(s.offers[i])>>)]
        offer == Text(InSomeOrder(lines, n).items)
    IN  IF s.ehlo THEN [banner |-> Greeting(s, n), ehlo |-> offer]
        ELSE [banner |-> Greeting(s, n), helo |-> offer]

-----------------------------------------------------------------------------
ServicesOf(protocol) ==
    CASE protocol = "http" -> HttpServices
      [] protocol = "https" -> TlsServices
      [] protocol = "ssh" -> SshServices
      [] protocol = "ftp" -> FtpServices
      [] protocol = "telnet" -> TelnetServices
      [] protocol = "smtp" -> SmtpServices

Variants(protocol) == DOMAIN ServicesOf(protocol)

(* The n-th grab of a service, as ZGrab2 reports it. *)
Success(protocol, variant, n) ==
    LET s == ServicesOf(protocol)[variant]
        result ==
            CASE protocol = "http" -> HttpAnswer(s, n)
              [] protocol = "https" -> TlsAnswer(s, n)
              [] protocol = "ssh" -> SshAnswer(s, n)
              [] protocol = "ftp" -> FtpAnswer(s, n)
              [] protocol = "telnet" -> TelnetAnswer(s, n)
              [] protocol = "smtp" -> SmtpAnswer(s, n)
    IN  Obj([status |-> Text("success"), result |-> Obj(result)])

Failure == Obj([status |-> Text("connection-timeout"), result |-> Obj(<<>>)])
=============================================================================
