----------------------------- MODULE MCTargeted -----------------------------
(* Small instances of Targeted for TLC. *)
EXTENDS Targeted

(* The topmost address is never scanned. *)
TopBogon == {[base |-> 2 ^ Width - 1, len |-> Width]}

NoRange == [wanted |-> FALSE, type |-> "ipv4", start |-> 0, value |-> 1]

Alike(protocol) == [a \in Addresses |-> "base"]

Plain(protocol) ==
    [protocol |-> protocol, variant |-> Alike(protocol), enabled |-> TRUE,
     known |-> {}, delegated |-> {NoRange}, optOuts |-> {}, targets |-> {0, 1},
     runs |-> Runs]

(* Two runs meet two hosts with the same service, or with two services. *)
ServiceWorlds ==
    UNION {{[Plain(p) EXCEPT !.variant[1] = v] : v \in Variants(p)} : p \in Protocols}

Ranges == [wanted : {TRUE}, type : {"ipv4", "asn"}, start : Addresses,
           value : 0 .. 2 ^ Width + 1]

Entries == (0 .. 2 ^ Width) \X (0 .. Width + 1)

(* One run meets every range and, with two of them, every opt-out. *)
LayerWorlds ==
    LET One(rows, entries, known) ==
            [Plain("ftp") EXCEPT !.delegated = rows, !.optOuts = entries, !.known = known,
                                 !.targets = Addresses \cup {Nowhere},
                                 !.runs = {CHOOSE r \in Runs : TRUE}]
        inner == [wanted |-> TRUE, type |-> "ipv4", start |-> 1, value |-> 3]
    IN  {One({d, NoRange}, {}, {}) : d \in Ranges}
        \cup {One({d, inner}, {}, {5}) : d \in Ranges}
        \cup {One({NoRange}, {e}, {}) : e \in Entries}
        \cup {One({inner}, {e}, {5}) : e \in Entries}

SmallWorlds ==
    ServiceWorlds \cup LayerWorlds \cup {[Plain("ssh") EXCEPT !.enabled = FALSE]}
=============================================================================
