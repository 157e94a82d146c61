------------------------------ MODULE Targeted ------------------------------
(***************************************************************************)
(* Runs against one given address (`ichnos scan --target`): the list of    *)
(* what is not to be scanned is built from its layers and the address is   *)
(* looked up in it (blocklist.py, jurisdiction.py, the opt-out form), the  *)
(* host is grabbed by a ZGrab2 of its own, its answer is normalised and    *)
(* fingerprinted, the version index is asked, and the rows are staged.     *)
(* Runs share the list, the index and the pending files.                   *)
(*                                                                         *)
(* A definition named Mut... is no part of the model: it is the definition *)
(* after it with a plausible bug, which the properties must notice.        *)
(***************************************************************************)
EXTENDS Services

CONSTANTS
    Runs,
    Width,      \* bits of an address
    Bogons,     \* DEFAULT_BOGONS, as networks
    Nowhere,    \* a --target that is no address
    Worlds,     \* what the runs may meet: see WorldOK
    Fragile     \* the store may fail, and a run be killed

Addresses == 0 .. 2 ^ Width - 1
Outcomes == {"silent", "garbage", "failed", "odd", "answered"}
Unasked == [outcome |-> "unasked", grab |-> 1]

(* What does not change while the runs go on. *)
WorldOK(w) ==
    /\ w.protocol \in Protocols
    /\ w.variant \in [Addresses -> Variants(w.protocol)]  \* the service of each address
    /\ w.enabled \in BOOLEAN               \* the schedule entry of the protocol
    /\ w.known \subseteq Addresses         \* the known-responsive list of the protocol
    /\ w.optOuts \subseteq Nat \X Nat      \* what may be entered in the form: <<ip, len>>
    /\ w.targets \subseteq Addresses \cup {Nowhere}
    /\ w.runs \subseteq Runs
    /\ \A row \in w.delegated : row.start \in Addresses /\ row.value \in Nat

ASSUME TargetedAssumption ==
    /\ Width \in Nat
    /\ Nowhere \notin Addresses
    /\ Fragile \in BOOLEAN
    /\ \A w \in Worlds : WorldOK(w)

VARIABLES
    world,
    register,   \* the exclusion register
    file,       \* settings.blocklist_path
    index,      \* VersionIndex: each claimed fingerprint, with the run that claimed it
    staged,     \* rows in the pending files: <<dataset, run>>
    pc, target,
    attempted, responsive,      \* of the metadata
    grabbed,    \* what ZGrab2 came back with
    row,        \* outcome.observations
    version,    \* outcome.new_versions
    todo        \* datasets still to be staged

runVars == <<pc, target, attempted, responsive, grabbed, row, version, todo>>
shared == <<world, register, file, index, staged>>
vars == <<shared, runVars>>

Init ==
    /\ world \in Worlds
    /\ register = {} /\ file = {} /\ index = <<>> /\ staged = {}
    /\ pc = [r \in Runs |-> "idle"]
    /\ target = [r \in Runs |-> Nowhere]
    /\ attempted = [r \in Runs |-> 0] /\ responsive = [r \in Runs |-> 0]
    /\ grabbed = [r \in Runs |-> Unasked]
    /\ row = [r \in Runs |-> <<>>] /\ version = [r \in Runs |-> <<>>]
    /\ todo = [r \in Runs |-> <<>>]

-----------------------------------------------------------------------------
(* Networks. *)

Size(len) == 2 ^ (Width - len)
Networks == {n \in [base : Addresses, len : 0 .. Width] : n.base % Size(n.len) = 0}
Members(n) == n.base .. n.base + Size(n.len) - 1

(* Standard library: the fewest networks that cover exactly S. *)
Summarize(S) ==
    LET inside == {n \in Networks : Members(n) \subseteq S}
    IN  {n \in inside : ~\E m \in inside : m.len < n.len /\ Members(n) \subseteq Members(m)}

(* count read as the distance to the last address *)
MutRangeToCidrs(start, count) ==
    IF count > 0 /\ start + count <= 2 ^ Width
    THEN Summarize((start .. start + count) \cap Addresses) ELSE {}

(* A range that is empty or leaves the address space raises, and its row   *)
(* is skipped.                                                             *)
RangeToCidrs(start, count) ==
    IF count > 0 /\ start + count <= 2 ^ Width
    THEN Summarize(start .. start + count - 1) ELSE {}

ParseDelegatedStats(rows) ==
    UNION {RangeToCidrs(d.start, d.value) :
              d \in {x \in rows : x.wanted /\ x.type = "ipv4"}}

(* ip_network(entry, strict=False); an invalid entry is skipped. *)
Parse(entries) ==
    {[base |-> e[1] - (e[1] % Size(e[2])), len |-> e[2]] :
        e \in {x \in entries : x[1] \in Addresses /\ x[2] \in 0 .. Width}}

BuildBlocklist(exclusions, jurisdiction) ==
    Summarize(UNION {Members(n) : n \in Bogons \cup Parse(exclusions) \cup jurisdiction})

(* An address that is none counts as blocked. *)
IsBlocked(ip, cidrs) == ip \notin Addresses \/ \E n \in cidrs : ip \in Members(n)

-----------------------------------------------------------------------------
(* The opt-out form, with its challenge answered.  What a run makes of an  *)
(* opt-out that arrives while it rebuilds the list is in Blocklist.        *)

ValidIpOrCidr(e) == e[1] \in Addresses /\ e[2] \in 0 .. Width

OptOutSubmit ==
    /\ \A r \in Runs : pc[r] = "idle"
    /\ \E e \in world.optOuts :
        /\ ValidIpOrCidr(e)
        /\ register = {}
        /\ register' = register \cup {e}
    /\ UNCHANGED <<world, file, index, staged, runVars>>

-----------------------------------------------------------------------------
(* A run. *)

Goto(r, label) == pc' = [pc EXCEPT ![r] = label]

Begin(r) ==
    /\ r \in world.runs /\ pc[r] = "idle"
    /\ \E t \in world.targets : target' = [target EXCEPT ![r] = t]
    /\ Goto(r, IF world.enabled THEN "rebuilding" ELSE "refused")
    /\ UNCHANGED <<shared, attempted, responsive, grabbed, row, version, todo>>

(* _rebuild_blocklist: bare addresses are networks of full length. *)
Rebuild(r) ==
    /\ pc[r] = "rebuilding"
    /\ file' = BuildBlocklist(register \cup (world.known \X {Width}),
                              ParseDelegatedStats(world.delegated))
    /\ Goto(r, "checking")
    /\ UNCHANGED <<world, register, index, staged, target, attempted, responsive,
                   grabbed, row, version, todo>>

(* The targeted branch of run_scan, up to the grab.  Its token bucket is   *)
(* new and full, so that wait() returns at once.                           *)
Check(r) ==
    /\ pc[r] = "checking"
    /\ attempted' = [attempted EXCEPT ![r] = @ + 1]
    /\ IF IsBlocked(target[r], file)
       THEN Goto(r, "staging") /\ todo' = [todo EXCEPT ![r] = <<"scan_metadata">>]
       ELSE Goto(r, "grabbing") /\ UNCHANGED todo
    /\ UNCHANGED <<shared, target, responsive, grabbed, row, version>>

(* ZGrab2 times out, writes something that is no JSON, reports a failure,  *)
(* or reports a grab; an "odd" one has a shape the normaliser raises on.   *)
Grab(r) ==
    /\ pc[r] = "grabbing"
    /\ \E outcome \in Outcomes, n \in Grabs :
        /\ outcome # "answered" => n = 1
        /\ grabbed' = [grabbed EXCEPT ![r] = [outcome |-> outcome, grab |-> n]]
    /\ Goto(r, "recording")
    /\ UNCHANGED <<shared, target, attempted, responsive, row, version, todo>>

(* the status is not looked at *)
MutSuccessfulModuleResult(m) == m # Absent

SuccessfulModuleResult(m) == m.kind = "object" /\ Field(m.at, "status") = Text("success")

(* grab_one; the line of an "odd" grab is a success, too *)
GrabOne(r) ==
    LET g == grabbed[r]
        line == CASE g.outcome \in {"silent", "garbage"} -> Absent
                  [] g.outcome = "failed" -> Failure
                  [] OTHER -> Success(world.protocol, world.variant[target[r]], g.grab)
    IN  IF SuccessfulModuleResult(line) THEN line ELSE Absent

Payload(r) == NormalizeResult(ModuleOf(world.protocol), GrabOne(r))

(* dict order: the rows of the protocol are added last *)
Datasets(r) ==
    IF version[r] = <<>> THEN <<"observations", "scan_metadata">>
    ELSE <<"observations", "versions", "scan_metadata", world.protocol>>

Observe(r, status, fp) ==
    row' = [row EXCEPT ![r] = Append(@, [status |-> status, fingerprint_id |-> fp])]

RecordFailed(r) ==
    /\ pc[r] = "recording" /\ GrabOne(r) = Absent
    /\ Observe(r, "grab-failed", Absent)
    /\ Goto(r, "finishing")
    /\ UNCHANGED <<shared, target, attempted, responsive, grabbed, version, todo>>

(* the exception takes the observation with it *)
MutNormalizeRaises(r) ==
    /\ pc[r] = "recording" /\ GrabOne(r) # Absent /\ grabbed[r].outcome = "odd"
    /\ responsive' = [responsive EXCEPT ![r] = @ + 1]
    /\ Goto(r, "finishing")
    /\ UNCHANGED <<shared, target, attempted, grabbed, row, version, todo>>

NormalizeRaises(r) ==
    /\ pc[r] = "recording" /\ GrabOne(r) # Absent /\ grabbed[r].outcome = "odd"
    /\ responsive' = [responsive EXCEPT ![r] = @ + 1]
    /\ Observe(r, "normalize-failed", Absent)
    /\ Goto(r, "finishing")
    /\ UNCHANGED <<shared, target, attempted, grabbed, version, todo>>

RecordSuccess(r) ==
    /\ pc[r] = "recording" /\ GrabOne(r) # Absent /\ grabbed[r].outcome # "odd"
    /\ responsive' = [responsive EXCEPT ![r] = @ + 1]
    /\ Observe(r, "success", FingerprintId(Payload(r)))
    /\ Goto(r, "claiming")
    /\ UNCHANGED <<shared, target, attempted, grabbed, version, todo>>

Fingerprint(r) == row[r][1].fingerprint_id

(* The index with an item for fp, put there by r. *)
Claimed(fp, r) == [f \in DOMAIN index \cup {fp} |-> IF f = fp THEN r ELSE index[f]]

(* an unconditional put *)
MutClaimWon(r) ==
    /\ pc[r] = "claiming"
    /\ index' = Claimed(Fingerprint(r), r)
    /\ version' = [version EXCEPT ![r] = <<Fingerprint(r)>>]
    /\ Goto(r, "finishing")
    /\ UNCHANGED <<world, register, file, staged, target, attempted, responsive,
                   grabbed, row, todo>>

(* version_index.claim, a conditional put *)
ClaimWon(r) ==
    /\ pc[r] = "claiming" /\ Fingerprint(r) \notin DOMAIN index
    /\ index' = Claimed(Fingerprint(r), r)
    /\ version' = [version EXCEPT ![r] = <<Fingerprint(r)>>]
    /\ Goto(r, "finishing")
    /\ UNCHANGED <<world, register, file, staged, target, attempted, responsive,
                   grabbed, row, todo>>

ClaimLost(r) ==
    /\ pc[r] = "claiming" /\ Fingerprint(r) \in DOMAIN index
    /\ Goto(r, "finishing")
    /\ UNCHANGED <<shared, target, attempted, responsive, grabbed, row, version, todo>>

(* The put fails, or its answer is lost; the exception ends the command.   *)
ClaimRaises(r) ==
    /\ Fragile
    /\ pc[r] = "claiming"
    /\ \/ UNCHANGED index
       \/ /\ Fingerprint(r) \notin DOMAIN index
          /\ index' = Claimed(Fingerprint(r), r)
    /\ Goto(r, "died")
    /\ UNCHANGED <<world, register, file, staged, target, attempted, responsive,
                   grabbed, row, version, todo>>

(* the rows of the protocol go by the name of the ZGrab2 module *)
MutFinish(r) ==
    /\ pc[r] = "finishing"
    /\ todo' = [todo EXCEPT ![r] =
                   [i \in DOMAIN Datasets(r) |->
                       IF i = 4 THEN ModuleOf(world.protocol) ELSE Datasets(r)[i]]]
    /\ Goto(r, "staging")
    /\ UNCHANGED <<shared, target, attempted, responsive, grabbed, row, version>>

(* The run is completed, and its rows become a batch. *)
Finish(r) ==
    /\ pc[r] = "finishing"
    /\ todo' = [todo EXCEPT ![r] = Datasets(r)]
    /\ Goto(r, "staging")
    /\ UNCHANGED <<shared, target, attempted, responsive, grabbed, row, version>>

(* _write_pending_outcome appends one dataset after the other. *)
Stage(r) ==
    /\ pc[r] = "staging"
    /\ staged' = staged \cup {<<Head(todo[r]), r>>}
    /\ todo' = [todo EXCEPT ![r] = Tail(@)]
    /\ IF Len(todo[r]) = 1 THEN Goto(r, "done") ELSE UNCHANGED pc
    /\ UNCHANGED <<world, register, file, index, target, attempted, responsive,
                   grabbed, row, version>>

Ended == {"idle", "refused", "done", "died"}

(* The command is killed, or cannot append any more. *)
Crash(r) ==
    /\ Fragile
    /\ pc[r] \notin Ended
    /\ Goto(r, "died")
    /\ UNCHANGED <<shared, target, attempted, responsive, grabbed, row, version, todo>>

Terminated ==
    /\ \A r \in world.runs : pc[r] \in Ended \ {"idle"}
    /\ UNCHANGED vars

Next ==
    \/ OptOutSubmit \/ Terminated
    \/ \E r \in Runs :
        \/ Begin(r) \/ Rebuild(r) \/ Check(r) \/ Grab(r)
        \/ RecordFailed(r) \/ NormalizeRaises(r) \/ RecordSuccess(r)
        \/ ClaimWon(r) \/ ClaimLost(r) \/ ClaimRaises(r)
        \/ Finish(r) \/ Stage(r) \/ Crash(r)

Spec == Init /\ [][Next]_vars

-----------------------------------------------------------------------------
(* Properties. *)

(* The layers, address by address. *)
Protected ==
    LET Delegated(a) == \E d \in world.delegated :
            /\ d.wanted /\ d.type = "ipv4" /\ d.start + d.value <= 2 ^ Width
            /\ d.start <= a /\ a < d.start + d.value
        OptedOut(a) == \E e \in register : a \div Size(e[2]) = e[1] \div Size(e[2])
        Bogon(a) == \E n \in Bogons : a \in Members(n)
    IN  {a \in Addresses : Delegated(a) \/ OptedOut(a) \/ Bogon(a)} \cup world.known

(* An address is probed exactly if it is one and no layer covers it: the   *)
(* way from ranges, prefixes and bare addresses through CIDRs to the file  *)
(* and back neither loses nor adds an address, whatever its bounds.        *)
BlockedExactly ==
    \A r \in Runs :
        /\ grabbed[r] # Unasked => target[r] \in Addresses \ Protected
        /\ pc[r] \in {"staging", "done"} /\ grabbed[r] = Unasked =>
                target[r] \notin Addresses \ Protected

Recorded == {r \in Runs : row[r] # <<>> /\ row[r][1].status = "success"}
SameService(r, s) == world.variant[target[r]] = world.variant[target[s]]

(* A service keeps its fingerprint from grab to grab, whatever clocks,     *)
(* sessions, counters and orders its answers carry, and what did not       *)
(* answer has none: an unchanged host makes no second version.             *)
OneVersionPerService ==
    \A r, s \in Recorded : SameService(r, s) => Fingerprint(r) = Fingerprint(s)

(* Two services that differ in what the datasets describe have different   *)
(* fingerprints: a change of a host is seen.                               *)
DriftSeen ==
    \A r, s \in Recorded : ~SameService(r, s) => Fingerprint(r) # Fingerprint(s)

VersionRows(fp, dataset) ==
    {r \in Runs : version[r] = <<fp>> /\ <<dataset, r>> \in staged}

(* However many hosts and runs meet a new fingerprint at once, one version *)
(* row at most is staged for it, in `versions` and in the protocol's       *)
(* dataset.                                                                *)
VersionRowOnce ==
    \A fp \in DOMAIN index, dataset \in {"versions", world.protocol} :
        Cardinality(VersionRows(fp, dataset)) <= 1

(* A fingerprint that a finished run observed has its version row in both  *)
(* datasets, or a run still owes it, or the run that claimed it has died.  *)
(* (run_scan's comment promises more: that a repeated run makes up for a   *)
(* crashed one.  It does for a crash before the claim.)                    *)
VersionOwed ==
    \A r \in Recorded : pc[r] = "done" =>
        /\ Fingerprint(r) \in DOMAIN index
        /\ LET owner == index[Fingerprint(r)]
           IN  pc[owner] = "done" =>
                  {<<"versions", owner>>, <<world.protocol, owner>>} \subseteq staged

(* A staged scan_metadata row never counts a responsive host that the      *)
(* observations staged before it have no row for, nor one that did not     *)
(* answer, and an attempt without a row is one that was refused.           *)
MetadataBacked ==
    \A r \in Runs : <<"scan_metadata", r>> \in staged =>
        /\ responsive[r] = (IF grabbed[r].outcome \in {"odd", "answered"} THEN 1 ELSE 0)
        /\ responsive[r] = Cardinality({i \in DOMAIN row[r] : row[r][i].status # "grab-failed"})
        /\ IF grabbed[r] = Unasked THEN row[r] = <<>>
           ELSE <<"observations", r>> \in staged /\ Len(row[r]) = attempted[r]

(* publish.SCHEMAS, without the two columns that every row is given *)
Schemas ==
    [http |-> [status_code |-> "int64", headers |-> "string", server |-> "string",
               title |-> "string", redirect_location |-> "string"],
     https |-> [version |-> "string", cipher_suite |-> "string", certificate |-> "string"],
     ssh |-> [banner |-> "string", version |-> "string", software |-> "string",
              comment |-> "string", host_key_algorithm |-> "string",
              host_key_fingerprint_sha256 |-> "string"],
     ftp |-> [banner |-> "string", reply_code |-> "int64"],
     telnet |-> [banner |-> "string", will_options |-> "string", do_options |-> "string"],
     smtp |-> [banner |-> "string", reply_code |-> "int64", capabilities |-> "string",
               extended |-> "boolean"]]

Fits(type) ==
    {"none"} \cup (CASE type = "string" -> {"text", "json"}
                     [] type = "int64" -> {"number"}
                     [] type = "boolean" -> {"boolean"})

(* A version row has the columns that the schema of its dataset declares,  *)
(* each with a value of its type or none, so that no batch is rejected for *)
(* the answers it happens to hold.                                         *)
SchemaFits ==
    \A r \in Recorded :
        LET schema == Schemas[world.protocol]
        IN  /\ DOMAIN Fingerprint(r) = DOMAIN schema
            /\ \A column \in DOMAIN schema :
                    Fingerprint(r)[column].kind \in Fits(schema[column])
=============================================================================
