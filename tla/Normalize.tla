----------------------------- MODULE Normalize -----------------------------
(***************************************************************************)
(* normalize.py and fingerprint.py: what of a ZGrab2 result a version of a *)
(* service is made of.  A JSON value is a record with its kind.  A header  *)
(* value, a title, a name is whatever the caller puts into Text; a banner  *)
(* is Text of a sequence of lines, a line its leading three digits and its *)
(* words, a word its shape (all that the two masks look at) and the rest.  *)
(*                                                                         *)
(* A definition named Mut... is no part of the model: it is the definition *)
(* after it with a plausible bug, which the properties must notice.        *)
(***************************************************************************)
EXTENDS Naturals, SequencesExt

Empty == ""
Absent == [kind |-> "none"]
Text(t) == [kind |-> "text", text |-> t]
Num(n) == [kind |-> "number", number |-> n]
Bool(b) == [kind |-> "boolean", boolean |-> b]
Items(s) == [kind |-> "list", items |-> s]
Obj(f) == [kind |-> "object", at |-> f]
Json(x) == [kind |-> "json", of |-> x]      \* json.dumps(x, sort_keys=True)

Field(f, key) == IF key \in DOMAIN f THEN f[key] ELSE Absent

Descend(v, key) == IF v.kind = "object" THEN Field(v.at, key) ELSE Absent

Get(d, path) ==
    LET reached[i \in 0 .. Len(path)] == IF i = 0 THEN d ELSE Descend(reached[i - 1], path[i])
    IN  reached[Len(path)]

(* the value is published as it came *)
MutFirstOrNone(v) == v

FirstOrNone(v) ==
    IF v.kind # "list" THEN v
    ELSE IF v.items = <<>> THEN Absent ELSE v.items[1]

-----------------------------------------------------------------------------
(* http, tls, ssh *)

VolatileHeaderKeys == {"date", "expires", "age", "unknown"}

Lower(key) ==
    LET spelled == [Server |-> "server", Date |-> "date", Location |-> "location"]
    IN  IF key \in DOMAIN spelled THEN spelled[key] ELSE key

(* Of two spellings of a name the lower-case one is sorted last and stays. *)
NormalizedHeaders(headers) ==
    [name \in {Lower(key) : key \in DOMAIN headers} \ VolatileHeaderKeys |->
        headers[IF name \in DOMAIN headers THEN name
                ELSE CHOOSE key \in DOMAIN headers : Lower(key) = name]]

ExtractTitle(body) ==
    IF body = Absent \/ body.title = Empty THEN Absent ELSE Text(body.title)

(* the first hop of the chain in place of the last *)
MutRedirectLocation(chain, headers) ==
    IF chain.kind = "list" /\ chain.items # <<>>
    THEN Get(chain.items[1], <<"headers", "location">>)
    ELSE Field(headers, "location")

RedirectLocation(chain, headers) ==
    IF chain.kind = "list" /\ chain.items # <<>>
    THEN Get(Last(chain.items), <<"headers", "location">>)
    ELSE Field(headers, "location")

NormalizeHttp(result) ==
    LET response == Get(result, <<"result", "response">>)
        raw == Get(response, <<"headers">>)
        headers == NormalizedHeaders(IF raw = Absent THEN <<>> ELSE raw.at)
        chain == Get(result, <<"result", "redirect_response_chain">>)
    IN  [status_code |-> Get(response, <<"status_code">>),
         headers |-> Json(headers),
         server |-> FirstOrNone(Field(headers, "server")),
         title |-> ExtractTitle(Get(response, <<"body">>)),
         redirect_location |-> FirstOrNone(RedirectLocation(chain, headers))]

(* A common name is the first of its list, an empty list stays a list. *)
CommonName(name) ==
    IF name.kind = "list" /\ name.items # <<>> THEN name.items[1] ELSE name

NormalizeTls(result) ==
    LET handshake == Get(result, <<"result", "handshake_log">>)
        cert == Get(handshake, <<"server_certificates", "certificate", "parsed">>)
    IN  [version |-> Get(handshake, <<"server_hello", "version", "name">>),
         cipher_suite |-> Get(handshake, <<"server_hello", "cipher_suite", "name">>),
         certificate |-> Json(
            [subject_cn |-> CommonName(Get(cert, <<"subject", "common_name">>)),
             issuer_cn |-> CommonName(Get(cert, <<"issuer", "common_name">>)),
             serial_number |-> Get(cert, <<"serial_number">>),
             signature_algorithm |-> Get(cert, <<"signature_algorithm", "name">>),
             fingerprint_sha256 |-> Get(cert, <<"fingerprint_sha256">>)])]

NormalizeSsh(result) ==
    LET id == Get(result, <<"result", "server_id">>)
        key == Get(result, <<"result", "key_exchange", "server_host_key">>)
    IN  [banner |-> Get(id, <<"raw">>),
         version |-> Get(id, <<"version">>),
         software |-> Get(id, <<"software">>),
         comment |-> Get(id, <<"comment">>),
         host_key_algorithm |-> Get(key, <<"algorithm">>),
         host_key_fingerprint_sha256 |-> Get(key, <<"fingerprint_sha256">>)]

-----------------------------------------------------------------------------
(* The banner protocols.  A word is a "token" (eight or more letters and   *)
(* digits, one a digit at least), a "number" (a run of two digits or more, *)
(* and no token) or a "word".                                              *)

Mask == [shape |-> "mask", of |-> "#"]

MaskToken(w) == IF w.shape = "token" THEN Mask ELSE w

(* The letters of a token stay, in pieces that no longer look like one. *)
MaskDigits(w) ==
    IF w.shape = "number" THEN Mask
    ELSE IF w.shape = "token" THEN [w EXCEPT !.shape = "pieces"] ELSE w

(* the digits go first *)
MutMaskVolatile(words) == [i \in DOMAIN words |-> MaskToken(MaskDigits(words[i]))]

MaskVolatile(words) == [i \in DOMAIN words |-> MaskDigits(MaskToken(words[i]))]

Blank == [code |-> Absent, words |-> <<>>]

(* where the lines are that are not blank *)
FullLines(raw) ==
    IF raw = Absent THEN {} ELSE {i \in DOMAIN raw.text : raw.text[i] # Blank}

FirstLine(raw) == IF FullLines(raw) = {} THEN Blank ELSE raw.text[Min(FullLines(raw))]

StableBanner(raw) ==
    IF FirstLine(raw).words = <<>> THEN Absent
    ELSE Text(MaskVolatile(FirstLine(raw).words))

ReplyCode(raw) == FirstLine(raw).code

NormalizeFtp(result) ==
    LET banner == Get(result, <<"result", "banner">>)
    IN  [banner |-> StableBanner(banner), reply_code |-> ReplyCode(banner)]

(* A sorted list is the bag of its items. *)
Sorted(s) == ToBag(s)

OptionNames(options) ==
    LET Str(v) == IF v.kind = "number" THEN Text(ToString(v.number)) ELSE v
        Name(option) ==
            IF option.kind # "object" THEN option
            ELSE IF Field(option.at, "name") # Absent THEN option.at["name"]
            ELSE Field(option.at, "value")
    IN  IF options.kind # "list" THEN <<>>
        ELSE [i \in DOMAIN options.items |-> Str(Name(options.items[i]))]

NormalizeTelnet(result) ==
    [banner |-> StableBanner(Get(result, <<"result", "banner">>)),
     will_options |-> Json(Sorted(OptionNames(Get(result, <<"result", "will">>)))),
     do_options |-> Json(Sorted(OptionNames(Get(result, <<"result", "do">>))))]

NormalizeSmtp(result) ==
    LET banner == Get(result, <<"result", "banner">>)
        ehlo == Get(result, <<"result", "ehlo">>)
        extended == ehlo # Absent /\ ehlo # Text(<<>>)
        greeting == IF extended THEN ehlo ELSE Get(result, <<"result", "helo">>)
    IN  [banner |-> StableBanner(banner),
         reply_code |-> ReplyCode(banner),
         capabilities |->
            Json(Sorted([i \in FullLines(greeting) |-> MaskVolatile(greeting.text[i].words)])),
         extended |-> Bool(extended)]

-----------------------------------------------------------------------------
NormalizeResult(module, result) ==
    CASE module = "http" -> NormalizeHttp(result)
      [] module = "tls" -> NormalizeTls(result)
      [] module = "ssh" -> NormalizeSsh(result)
      [] module = "ftp" -> NormalizeFtp(result)
      [] module = "telnet" -> NormalizeTelnet(result)
      [] module = "smtp" -> NormalizeSmtp(result)

(* sha256 of the canonical JSON: equal for equal payloads, and taken to    *)
(* differ for different ones.                                              *)
FingerprintId(payload) == payload
=============================================================================
