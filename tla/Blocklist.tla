----------------------------- MODULE Blocklist -----------------------------
(***************************************************************************)
(* The blocklist file, and who keeps an address from being probed          *)
(* (_rebuild_blocklist, blocklist.py, s3sync.py, cmd_jurisdiction_refresh, *)
(* opt_out_submit).  Before it probes, every scan and refresh merges the   *)
(* bogons, the register of opt-outs and the jurisdiction list into one     *)
(* file - a scan adds the hosts refresh covers - and then reads that file  *)
(* back, in ZMap or in run_refresh_scan and again in ZGrab2.  The file is  *)
(* the same for all of them.  cron starts runs of several protocols in the *)
(* same second; runs of different minutes are far enough apart.  The boot  *)
(* script runs jurisdiction-refresh before it installs cron, and only the  *)
(* first runs of an instance pull the copy: that is PullApart.             *)
(*                                                                         *)
(* A list is the set of addresses it covers: collapsing CIDRs changes the  *)
(* text and not the set.                                                   *)
(*                                                                         *)
(* A definition named Mut... is no part of the model: it is the definition *)
(* after it with a plausible bug, which the properties must notice.        *)
(***************************************************************************)
EXTENDS Naturals

CONSTANTS
    Addresses,
    None,             \* a file or an S3 object that does not exist
    Runs,             \* the protocols' scans and refreshes, one each at a time
    Kind,             \* per run: "scan" or "refresh"
    Known,            \* per run: the known-responsive hosts of its protocol
    Minute,           \* per run: the minute cron starts it at
    Bogons,
    Foreign,          \* addresses that registries may give to a jurisdiction
    OtherFamily,      \* IPv6: the opt-out form takes them, the rest is IPv4
    PullApart,        \* no jurisdiction-refresh while a run pulls the S3 copy
    MaxReplacements   \* bound: replacements of the instance

ASSUME BlocklistAssumption ==
    /\ Bogons \subseteq Addresses /\ Foreign \subseteq Addresses
    /\ OtherFamily \subseteq Addresses
    /\ Kind \in [Runs -> {"scan", "refresh"}]
    /\ Known \in [Runs -> SUBSET Addresses]
    /\ PullApart \in BOOLEAN /\ MaxReplacements \in Nat
(* The crontab: refreshes at :00, :20 and :40, scans at none of these. *)
ASSUME MinuteAssumption ==
    \A q, r \in Runs : Kind[q] # Kind[r] => Minute[q] # Minute[r]
ASSUME NoneAssumption == \A S \in SUBSET Addresses : S # None

VARIABLES
    register,     \* the opt-outs
    allocated,    \* what the registries give to the jurisdictions
    local, s3,    \* the jurisdiction list on the instance and its copy
    blocklist,    \* the file at blocklist_path
    pc,           \* per run
    list,         \* per run: what it merges
    loaded,       \* per run: what ZMap, or run_refresh_scan, has read
    grabs,        \* per run: what ZGrab2 has read
    job, fetched, \* jurisdiction-refresh
    replacements,
    settled,      \* history: protections in force when last no run was rebuilding
    due           \* history: per run, those of them when it started

worldVars == <<register, allocated>>
fileVars == <<local, s3, blocklist>>
runVars == <<pc, list, loaded, grabs, due>>
jobVars == <<job, fetched>>
vars == <<worldVars, fileVars, runVars, jobVars, replacements, settled>>

Rebuilding == {"pulling", "exclusions", "jurisdiction", "writing", "replacing",
               "loading", "spawning"}

TypeOK ==
    /\ register \subseteq Addresses /\ allocated \subseteq Addresses
    /\ {local, s3, blocklist} \subseteq {None} \union SUBSET Addresses
    /\ pc \in [Runs -> Rebuilding \union {"idle", "probing"}]
    /\ {list, loaded, grabs} \subseteq [Runs -> SUBSET Addresses]
    /\ job \in {"idle", "writing", "uploading"}
    /\ fetched \subseteq Addresses
    /\ replacements \in 0 .. MaxReplacements
    /\ settled \subseteq Addresses
    /\ due \in [Runs -> SUBSET Addresses]

Entries(f) == IF f = None THEN {} ELSE f

(* The first instance, before any jurisdiction-refresh has run. *)
Init ==
    /\ register = {} /\ allocated = {}
    /\ local = None /\ s3 = None /\ blocklist = None
    /\ pc = [r \in Runs |-> "idle"]
    /\ list = [r \in Runs |-> {}]
    /\ loaded = [r \in Runs |-> {}]
    /\ grabs = [r \in Runs |-> {}]
    /\ job = "idle" /\ fetched = {}
    /\ replacements = 0
    /\ settled = Bogons
    /\ due = [r \in Runs |-> {}]

Goto(r, s) == pc' = [pc EXCEPT ![r] = s]

(* History: what is protected while no run is rebuilding. *)
Quiet == \A r \in Runs : pc[r] \notin Rebuilding
Settles ==
    settled' = IF Quiet' THEN Bogons \union register' \union Entries(s3') ELSE settled

-----------------------------------------------------------------------------
(* A run, up to the moment it probes. *)

Start(r) ==
    /\ pc[r] = "idle"
    /\ \A q \in Runs : pc[q] \in Rebuilding => Minute[q] = Minute[r]
    /\ PullApart /\ local = None => job = "idle"
    /\ Goto(r, IF local = None THEN "pulling" ELSE "exclusions")
    /\ due' = [due EXCEPT ![r] = settled]
    /\ UNCHANGED <<worldVars, fileVars, list, loaded, grabs, jobVars, replacements>>
    /\ Settles

(* s3sync.download_file: an object that is not there is a normal case. *)
Pull(r) ==
    /\ pc[r] = "pulling"
    /\ local' = IF s3 = None THEN local ELSE s3
    /\ Goto(r, "exclusions")
    /\ UNCHANGED <<worldVars, s3, blocklist, list, loaded, grabs, due, jobVars,
                   replacements>>
    /\ Settles

Ends(r) ==
    /\ Goto(r, "idle")
    /\ list' = [list EXCEPT ![r] = {}]
    /\ loaded' = [loaded EXCEPT ![r] = {}]
    /\ grabs' = [grabs EXCEPT ![r] = {}]
    /\ due' = [due EXCEPT ![r] = {}]

(* S3 or DynamoDB raises (or the run is killed): nothing was probed. *)
Fails(r) ==
    /\ pc[r] \in {"pulling", "exclusions"}
    /\ Ends(r)
    /\ UNCHANGED <<worldVars, fileVars, jobVars, replacements>>
    /\ Settles

ReadExclusions(r) ==
    /\ pc[r] = "exclusions"
    /\ list' = [list EXCEPT ![r] = register]
    /\ Goto(r, "jurisdiction")
    /\ UNCHANGED <<worldVars, fileVars, loaded, grabs, due, jobVars,
                   replacements>>
    /\ Settles

(* refresh is given the hosts it covers as well *)
MutExtra(r) == Known[r]

Extra(r) == IF Kind[r] = "scan" THEN Known[r] ELSE {}

(* _read_jurisdiction_cidrs and build_blocklist. *)
Merge(r) ==
    /\ pc[r] = "jurisdiction"
    /\ list[r] \intersect OtherFamily = {}
    /\ list' = [list EXCEPT ![r] = @ \union Bogons \union Extra(r) \union Entries(local)]
    /\ Goto(r, "writing")
    /\ UNCHANGED <<worldVars, fileVars, loaded, grabs, due, jobVars,
                   replacements>>
    /\ Settles

(* collapse_addresses does not take networks of two families. *)
MergeRaises(r) ==
    /\ pc[r] = "jurisdiction"
    /\ list[r] \intersect OtherFamily # {}
    /\ Ends(r)
    /\ UNCHANGED <<worldVars, fileVars, jobVars, replacements>>
    /\ Settles

(* the destination itself is opened, and emptied *)
MutOpenTemp(r) ==
    /\ pc[r] = "writing"
    /\ blocklist' = {}
    /\ Goto(r, "replacing")
    /\ UNCHANGED <<worldVars, local, s3, list, loaded, grabs, due, jobVars,
                   replacements>>
    /\ Settles

(* mkstemp: a temporary file of its own, which nobody else reads. *)
OpenTemp(r) ==
    /\ pc[r] = "writing"
    /\ Goto(r, "replacing")
    /\ UNCHANGED <<worldVars, fileVars, list, loaded, grabs, due, jobVars,
                   replacements>>
    /\ Settles

Install(r) ==
    /\ pc[r] = "replacing"
    /\ blocklist' = list[r]
    /\ list' = [list EXCEPT ![r] = {}]
    /\ Goto(r, "loading")
    /\ UNCHANGED <<worldVars, local, s3, loaded, grabs, due, jobVars,
                   replacements>>
    /\ Settles

(* ZMap's --blacklist-file, or read_blocklist_file. *)
Load(r) ==
    /\ pc[r] = "loading"
    /\ loaded' = [loaded EXCEPT ![r] = Entries(blocklist)]
    /\ Goto(r, "spawning")
    /\ UNCHANGED <<worldVars, fileVars, list, grabs, due, jobVars, replacements>>
    /\ Settles

(* ZGrab2's --blocklist-file. *)
SpawnZGrab(r) ==
    /\ pc[r] = "spawning"
    /\ grabs' = [grabs EXCEPT ![r] = Entries(blocklist)]
    /\ Goto(r, "probing")
    /\ UNCHANGED <<worldVars, fileVars, list, loaded, due, jobVars, replacements>>
    /\ Settles

(* The run is over, or is killed. *)
RunEnds(r) ==
    /\ pc[r] \notin {"idle", "pulling", "exclusions"}
    /\ Ends(r)
    /\ UNCHANGED <<worldVars, fileVars, jobVars, replacements>>
    /\ Settles

-----------------------------------------------------------------------------
(* jurisdiction-refresh: weekly and at boot, one at a time. *)

(* A fetch that raises changes nothing. *)
Fetch ==
    /\ job = "idle"
    /\ PullApart => \A r \in Runs : pc[r] # "pulling"
    /\ fetched' = allocated
    /\ job' = "writing"
    /\ UNCHANGED <<worldVars, fileVars, runVars, replacements>>
    /\ Settles

WriteLocal ==
    /\ job = "writing"
    /\ local' = fetched
    /\ job' = "uploading"
    /\ UNCHANGED <<worldVars, s3, blocklist, runVars, fetched, replacements>>
    /\ Settles

Upload ==
    /\ job = "uploading"
    /\ s3' = local
    /\ job' = "idle" /\ fetched' = {}
    /\ UNCHANGED <<worldVars, local, blocklist, runVars, replacements>>
    /\ Settles

(* a job that raised stays behind, and no other is started *)
MutJobEnds ==
    /\ job # "idle"
    /\ job' = "raised" /\ fetched' = {}
    /\ UNCHANGED <<worldVars, fileVars, runVars, replacements>>
    /\ Settles

(* It raises or is killed. *)
JobEnds ==
    /\ job # "idle"
    /\ job' = "idle" /\ fetched' = {}
    /\ UNCHANGED <<worldVars, fileVars, runVars, replacements>>
    /\ Settles

-----------------------------------------------------------------------------
(* The world around the instance. *)

OptOut(a) ==
    /\ a \notin register
    /\ register' = register \union {a}
    /\ UNCHANGED <<allocated, fileVars, runVars, jobVars, replacements>>
    /\ Settles

Allocate(a) ==
    /\ a \in Foreign \ allocated
    /\ allocated' = allocated \union {a}
    /\ UNCHANGED <<register, fileVars, runVars, jobVars, replacements>>
    /\ Settles

(* Its root volume goes with it; S3 and DynamoDB stay. *)
InstanceReplaced ==
    /\ replacements < MaxReplacements
    /\ replacements' = replacements + 1
    /\ local' = None /\ blocklist' = None
    /\ pc' = [r \in Runs |-> "idle"]
    /\ list' = [r \in Runs |-> {}]
    /\ loaded' = [r \in Runs |-> {}]
    /\ grabs' = [r \in Runs |-> {}]
    /\ due' = [r \in Runs |-> {}]
    /\ job' = "idle" /\ fetched' = {}
    /\ UNCHANGED <<worldVars, s3>>
    /\ Settles

Rebuild(r) ==
    \/ Start(r) \/ Pull(r) \/ ReadExclusions(r) \/ Merge(r) \/ MergeRaises(r)
    \/ OpenTemp(r) \/ Install(r) \/ Load(r) \/ SpawnZGrab(r)
RunStep(r) == Rebuild(r) \/ Fails(r) \/ RunEnds(r)

JobStep == Fetch \/ WriteLocal \/ Upload \/ JobEnds

WorldStep ==
    \/ \E a \in Addresses : OptOut(a) \/ Allocate(a)
    \/ InstanceReplaced

Next == (\E r \in Runs : RunStep(r)) \/ JobStep \/ WorldStep

Spec == Init /\ [][Next]_vars

(* cron starts every run again and again, and their processes run. *)
Fairness == (\A r \in Runs : SF_vars(Rebuild(r))) /\ WF_vars(JobStep)
FairSpec == Spec /\ Fairness

-----------------------------------------------------------------------------
(* Properties. *)

(* What was protected at a moment when no run was rebuilding - bogons,     *)
(* opt-outs, the jurisdiction list that reached S3 - is on the lists of    *)
(* every run that starts later, though runs of the same minute replace the *)
(* file under it, S3 and DynamoDB fail and the instance is replaced.       *)
SettledHonoured ==
    \A r \in Runs :
        /\ pc[r] \in {"spawning", "probing"} => due[r] \subseteq loaded[r]
        /\ pc[r] = "probing" => due[r] \subseteq grabs[r]

(* refresh is not kept from the hosts it exists to check by the list of a  *)
(* scan: what it skips is a bogon, an opt-out or of a jurisdiction.        *)
RefreshSeesItsHosts ==
    \A r \in Runs :
        Kind[r] = "refresh" /\ pc[r] \in {"spawning", "probing"} =>
            loaded[r] \intersect Known[r] \subseteq Bogons \union register \union allocated

(* No entry of the register blocks a whole run: once runs no longer fail,  *)
(* every protocol's run gets to probe again and again.                     *)
NoEntryBlocks ==
    \A r \in Runs :
        <>[][~Fails(r) /\ (RunEnds(r) => pc[r] = "probing" \/ MergeRaises(r))]_vars
            => []<>(pc[r] = "probing")
=============================================================================
