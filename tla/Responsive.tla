----------------------------- MODULE Responsive -----------------------------
(***************************************************************************)
(* The known-responsive list of one protocol, which is refresh's target    *)
(* list and its cursor at once (responsive.py, run_refresh_scan,           *)
(* cmd_refresh, cmd_responsive_refresh).  refresh walks the list from the  *)
(* top until its time is over, stages an observation for each host it      *)
(* tried, and rotates those hosts to the back; once a night the list is    *)
(* derived anew from the published observations, least recently tried      *)
(* first.  The two are processes that share the file, its temporary name   *)
(* and no lock.                                                            *)
(*                                                                         *)
(* A time is a position here: feed and staged hold the newest observation  *)
(* of each host and status, the oldest first.  A line of a file stands for *)
(* one write of Python's buffer.  What is staged is published at once:     *)
(* Publish has the details.                                                *)
(*                                                                         *)
(* A definition named Mut... is no part of the model: it is the definition *)
(* after it with a plausible bug, which the properties must notice.        *)
(***************************************************************************)
EXTENDS Naturals, Sequences, FiniteSets, SequencesExt

CONSTANTS
    Hosts,
    Flaky,            \* hosts whose grab may fail
    Blocked,          \* hosts on the blocklist that refresh reads
    None,
    Hole,             \* a stretch of a file that was never written
    Top,              \* the rows of one page of the OData feed
    Apart,            \* rotation and derivation never write at once
    MaxEvents         \* bound: crashes, replacements, rows that age, and writers
                      \* that meet

Statuses == {"success", "failure"}
Rows == {<<h, "success">> : h \in Hosts} \union {<<h, "failure">> : h \in Flaky}
Writers == {"run", "derivation"}
Lines == Hosts \union {Hole}

ASSUME ResponsiveAssumption ==
    /\ IsFiniteSet(Hosts) /\ Flaky \subseteq Hosts /\ Blocked \subseteq Hosts
    /\ None \notin Seq(Lines) /\ Hole \notin Hosts
    /\ Top \in Nat \ {0} /\ Apart \in BOOLEAN /\ MaxEvents \in Nat

VARIABLES
    feed,       \* the published observations in the window
    staged,     \* the rows that wait for publish
    file, tmp,  \* the list and the temporary file: sequences of lines
    pc,         \* what each writer is doing
    list,       \* what each writer writes, or has decided to
    pos,        \* how many lines of it are written
    target,     \* where the file is now that the writer has open
    known,      \* the list as the run has read it
    tried,      \* how many hosts of it are covered
    rows,       \* the rows of the run's outcome
    derived,    \* history: the hosts of the derivation last put in place
    lap,        \* history: the hosts covered in this lap around the list
    events

fileVars == <<file, tmp, list, pos, target>>
runVars == <<known, tried, rows>>
dataVars == <<feed, staged>>
vars == <<dataVars, fileVars, pc, runVars, derived, lap, events>>

Distinct(s) == \A i, j \in DOMAIN s : s[i] = s[j] => i = j

TypeOK ==
    /\ feed \in Seq(Rows) /\ Distinct(feed)
    /\ staged \in Seq(Rows) /\ Distinct(staged)
    /\ file \in Seq(Lines) /\ tmp \in Seq(Lines) \union {None}
    /\ pc \in [Writers -> {"idle", "checking", "rotating",
                           "querying", "opening", "writing"}]
    /\ list \in [Writers -> Seq(Lines)]
    /\ \A w \in Writers : pos[w] \in 0 .. Len(list[w])
    /\ target \in [Writers -> {"none", "tmp", "file", "gone"}]
    /\ known \in Seq(Lines) /\ tried \in 0 .. Len(known)
    /\ rows \in Seq(Rows)
    /\ derived \subseteq Hosts /\ lap \subseteq Lines
    /\ events \in 0 .. MaxEvents

(* A new instance: no list, and observations of earlier ones. *)
Init ==
    /\ feed \in {[i \in 1 .. Len(s) |-> <<s[i], "success">>] : s \in SetToSeqs(Hosts)}
    /\ staged = <<>>
    /\ file = <<>> /\ tmp = None
    /\ pc = [w \in Writers |-> "idle"]
    /\ list = [w \in Writers |-> <<>>]
    /\ pos = [w \in Writers |-> 0]
    /\ target = [w \in Writers |-> "none"]
    /\ known = <<>> /\ tried = 0 /\ rows = <<>>
    /\ derived = {} /\ lap = {}
    /\ events = 0

Goto(w, s) == pc' = [pc EXCEPT ![w] = s]
Event == events < MaxEvents /\ events' = events + 1

(* The items of s at the positions I, in the order of their keys. *)
Arranged(s, I, key) ==
    LET place(i) == Cardinality({j \in I : key[j] <= key[i]})
    IN  [k \in 1 .. Cardinality(I) |-> s[CHOOSE i \in I : place(i) = k]]

(* A newer observation takes the place of the older one. *)
Newest(s, new) ==
    LET all == s \o new
        last == {i \in 1 .. Len(all) : ~\E j \in i + 1 .. Len(all) : all[j] = all[i]}
    IN  Arranged(all, last, [i \in 1 .. Len(all) |-> i])

-----------------------------------------------------------------------------
(* write_responsive_file, which both writers use with the same tmp_path.   *)

Idle(w) ==
    /\ Goto(w, "idle")
    /\ list' = [list EXCEPT ![w] = <<>>]
    /\ pos' = [pos EXCEPT ![w] = 0]
    /\ target' = [target EXCEPT ![w] = "none"]
    /\ IF w = "run" THEN known' = <<>> /\ tried' = 0 /\ rows' = <<>>
                    ELSE UNCHANGED runVars

Writes(w) == pc[w] \in {"opening", "writing"}

(* w is going to write; if the other is writing, that is a rare event.     *)
Begins(w) ==
    IF \E v \in Writers \ {w} : Writes(v) THEN ~Apart /\ Event ELSE UNCHANGED events

(* open(tmp_path, "w"): creates the file or cuts it to nothing. *)
Open(w) ==
    /\ pc[w] = "opening"
    /\ tmp' = <<>>
    /\ target' = [target EXCEPT ![w] = "tmp"]
    /\ Goto(w, "writing")
    /\ UNCHANGED <<dataVars, file, list, pos, runVars, derived, lap, events>>

PutAt(s, i, x) ==
    [k \in 1 .. (IF i > Len(s) THEN i ELSE Len(s)) |->
        IF k = i THEN x ELSE IF k <= Len(s) THEN s[k] ELSE Hole]

WriteLine(w) ==
    /\ pc[w] = "writing" /\ pos[w] < Len(list[w])
    /\ LET i == pos[w] + 1 IN
       /\ pos' = [pos EXCEPT ![w] = i]
       /\ tmp' = IF target[w] = "tmp" THEN PutAt(tmp, i, list[w][i]) ELSE tmp
       /\ file' = IF target[w] = "file" THEN PutAt(file, i, list[w][i]) ELSE file
    /\ UNCHANGED <<dataVars, pc, list, target, runVars, derived, lap, events>>

(* os.replace: another writer's open file moves with its name. *)
Replace(w) ==
    /\ pc[w] = "writing" /\ pos[w] = Len(list[w]) /\ tmp # None
    /\ file' = tmp /\ tmp' = None
    /\ Goto(w, "idle")
    /\ list' = [list EXCEPT ![w] = <<>>]
    /\ pos' = [pos EXCEPT ![w] = 0]
    /\ target' = [v \in Writers |->
           IF v = w THEN "none"
           ELSE CASE target[v] = "tmp" -> "file"
                  [] target[v] = "file" -> "gone"
                  [] OTHER -> target[v]]
    /\ IF w = "run"
       THEN known' = <<>> /\ tried' = 0 /\ rows' = <<>> /\ UNCHANGED <<derived, lap>>
       ELSE /\ derived' = ToSet(list[w])
            /\ lap' = {known[i] : i \in 1 .. tried}
            /\ UNCHANGED runVars
    /\ UNCHANGED <<dataVars, events>>

(* FileNotFoundError: another writer has already moved it. *)
ReplaceRaises(w) ==
    /\ pc[w] = "writing" /\ pos[w] = Len(list[w]) /\ tmp = None
    /\ Idle(w)
    /\ UNCHANGED <<dataVars, file, tmp, derived, lap, events>>

-----------------------------------------------------------------------------
(* A refresh run; flock allows one at a time. *)

RunStart ==
    /\ pc["run"] = "idle" /\ file # <<>>
    /\ known' = file
    /\ Goto("run", "checking")
    /\ UNCHANGED <<dataVars, fileVars, tried, rows, derived, lap, events>>

(* One host: skipped if it is blocked, or is no address at all. *)
Check(result) ==
    /\ pc["run"] = "checking" /\ tried < Len(known)
    /\ LET ip == known[tried + 1] IN
       /\ rows' = IF ip \in Blocked \union {Hole} THEN rows ELSE Append(rows, <<ip, result>>)
       /\ result = "failure" => ip \in Flaky
       /\ lap' = IF derived \subseteq lap THEN {ip} ELSE lap \union {ip}
    /\ tried' = tried + 1
    /\ UNCHANGED <<dataVars, fileVars, pc, known, derived, events>>

(* The time is over, or the list is; the rows of the outcome are staged. *)
StageRows ==
    /\ pc["run"] = "checking" /\ tried > 0
    /\ staged' = Newest(staged, rows)
    /\ rows' = <<>>
    /\ Goto("run", "rotating")
    /\ UNCHANGED <<feed, fileVars, known, tried, derived, lap, events>>

Covered == {known[i] : i \in 1 .. tried}

(* the hosts just checked are not put back *)
MutRotated(hosts) ==
    LET remaining == {i \in DOMAIN hosts : hosts[i] \notin Covered}
    IN  Arranged(hosts, remaining, [i \in remaining |-> i])

Rotated(hosts) ==
    Arranged(hosts, DOMAIN hosts,
             [i \in DOMAIN hosts |-> IF hosts[i] \in Covered THEN Len(hosts) + i ELSE i])

(* the run rotates the list it started with *)
MutRotateOwnCopy ==
    /\ pc["run"] = "rotating" /\ Begins("run")
    /\ list' = [list EXCEPT !["run"] = Rotated(known)]
    /\ Goto("run", "opening")
    /\ UNCHANGED <<dataVars, file, tmp, pos, target, runVars, derived, lap>>

(* the file is never advanced *)
MutNoRotation ==
    /\ pc["run"] = "rotating"
    /\ Idle("run")
    /\ UNCHANGED <<dataVars, file, tmp, derived, lap, events>>

(* advance_responsive_cursor reads the file again, and rewrites it only if *)
(* one of the hosts is still in it.                                        *)
Rotate ==
    /\ pc["run"] = "rotating"
    /\ IF ToSet(file) \intersect Covered = {}
       THEN Idle("run") /\ UNCHANGED events
       ELSE /\ Begins("run")
            /\ list' = [list EXCEPT !["run"] = Rotated(file)]
            /\ Goto("run", "opening")
            /\ UNCHANGED <<pos, target, runVars>>
    /\ UNCHANGED <<dataVars, file, tmp, derived, lap>>

-----------------------------------------------------------------------------
(* The nightly derivation. *)

DerivationStart ==
    /\ pc["derivation"] = "idle"
    /\ Goto("derivation", "querying")
    /\ UNCHANGED <<dataVars, fileVars, runVars, derived, lap, events>>

(* grouped_max for one half of the statuses: one page, the oldest first.   *)
(* (The positions of its rows.)                                            *)
Page(status) ==
    {i \in DOMAIN feed :
        feed[i][2] = status /\ Cardinality({j \in 1 .. i : feed[j][2] = status}) <= Top}

(* a failed grab does not count as an attempt *)
MutLastAttempt(i) == i

(* of the host that row i says has answered *)
LastAttempt(i) ==
    LET later == {j \in Page("failure") : j > i /\ feed[j][1] = feed[i][1]}
    IN  IF later = {} THEN i ELSE CHOOSE j \in later : TRUE

Fetched ==
    Arranged([i \in DOMAIN feed |-> feed[i][1]], Page("success"),
             [i \in Page("success") |-> LastAttempt(i)])

Query ==
    /\ pc["derivation"] = "querying" /\ Begins("derivation")
    /\ list' = [list EXCEPT !["derivation"] = Fetched]
    /\ Goto("derivation", "opening")
    /\ UNCHANGED <<dataVars, file, tmp, pos, target, runVars, derived, lap>>

(* ODataError: the list stays as it is. *)
QueryFails ==
    /\ pc["derivation"] = "querying"
    /\ Idle("derivation")
    /\ UNCHANGED <<dataVars, file, tmp, derived, lap, events>>

-----------------------------------------------------------------------------
(* The rest of the system. *)

(* the rows are only added *)
MutPublishAppends ==
    /\ staged # <<>>
    /\ feed' = feed \o staged
    /\ staged' = <<>>
    /\ UNCHANGED <<fileVars, pc, runVars, derived, lap, events>>

PublishRows ==
    /\ staged # <<>>
    /\ feed' = Newest(feed, staged)
    /\ staged' = <<>>
    /\ UNCHANGED <<fileVars, pc, runVars, derived, lap, events>>

(* A scan, which excludes the hosts on the list, finds a host.  (Bound: no *)
(* second observation of a host it has found.)                             *)
Discover(h) ==
    /\ h \notin ToSet(file) \union Blocked
    /\ <<h, "success">> \notin ToSet(feed) \union ToSet(staged)
    /\ staged' = Newest(staged, <<<<h, "success">>>>)
    /\ UNCHANGED <<feed, fileVars, pc, runVars, derived, lap, events>>

(* The oldest observation leaves the window. *)
AgeOut ==
    /\ Event
    /\ feed # <<>>
    /\ feed' = Tail(feed)
    /\ UNCHANGED <<staged, fileVars, pc, runVars, derived, lap>>

(* A writer dies; what a run had not staged is lost, and its lap with it.  *)
Crash(w) ==
    /\ Event
    /\ pc[w] # "idle"
    /\ Idle(w)
    /\ lap' = IF w = "run" THEN {} ELSE lap
    /\ UNCHANGED <<dataVars, file, tmp, derived>>

(* The instance is replaced: its root volume is gone. *)
InstanceReplaced ==
    /\ Event
    /\ file' = <<>> /\ tmp' = None /\ staged' = <<>>
    /\ pc' = [w \in Writers |-> "idle"]
    /\ list' = [w \in Writers |-> <<>>]
    /\ pos' = [w \in Writers |-> 0]
    /\ target' = [w \in Writers |-> "none"]
    /\ known' = <<>> /\ tried' = 0 /\ rows' = <<>>
    /\ derived' = {} /\ lap' = {}
    /\ UNCHANGED feed

WriteFile(w) == Open(w) \/ WriteLine(w) \/ Replace(w) \/ ReplaceRaises(w)

RunStep ==
    \/ RunStart \/ (\E result \in Statuses : Check(result))
    \/ StageRows \/ Rotate \/ WriteFile("run")

DerivationStep == DerivationStart \/ Query \/ WriteFile("derivation")

Next ==
    \/ RunStep \/ DerivationStep \/ QueryFails \/ PublishRows
    \/ (\E h \in Hosts : Discover(h)) \/ AgeOut
    \/ (\E w \in Writers : Crash(w)) \/ InstanceReplaced

(* cron starts refresh every hour, publish every hour and the derivation   *)
(* every night, and their processes run.  A run is never kept from its     *)
(* rotation for ever by derivations, which are a day apart.                *)
Fairness == SF_vars(RunStep) /\ WF_vars(DerivationStep) /\ WF_vars(PublishRows)

Spec == Init /\ [][Next]_vars /\ Fairness

-----------------------------------------------------------------------------
(* Properties. *)

(* Rotating loses nothing: every host of the derivation that was last put  *)
(* in place is on the list once, and the list is whole, whatever crashed.  *)
NoneForgotten ==
    /\ derived \subseteq ToSet(file)
    /\ Distinct(file) /\ Hole \notin ToSet(file)

(* Rotating brings nothing back: a host that the derivation has dropped is *)
(* not reinstated by a run that read the list before it.                   *)
NoneReinstated == ToSet(file) \intersect Hosts \subseteq derived

(* A run starts where the one before it stopped: no host is tried again    *)
(* before every other host of the list has been covered.  (A derivation    *)
(* orders the list anew, and a run that dies does not count.)              *)
Tries(ip) == tried' = tried + 1 /\ known[tried + 1] = ip
RoundRobin == [][\A h \in Hosts : Tries(h) => h \notin lap \/ derived \subseteq lap]_vars

(* As long as a host is on the list it is tried again and again, and hosts *)
(* that fail do not keep the others waiting.                               *)
Rechecked ==
    \A h \in Hosts \ Blocked :
        []<>(h \notin ToSet(file) \/ (tried > 0 /\ known[tried] = h))
=============================================================================
