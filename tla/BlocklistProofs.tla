-------------------------- MODULE BlocklistProofs --------------------------
(***************************************************************************)
(* Every run honours what was settled when it started, for any addresses,  *)
(* runs and crontab, as long as no jurisdiction-refresh is in flight while *)
(* a run pulls the S3 copy (PullApart).  The argument: while a run is      *)
(* rebuilding, settled does not change, so that it is what each of them    *)
(* owes; whoever of them replaces the file puts a list there that covers   *)
(* it, because the register only grows and the local jurisdiction list is  *)
(* never behind its copy.  And a refresh is not kept from its own hosts:   *)
(* the crontab gives scans and refreshes different minutes, so that no run *)
(* that rebuilds the file beside a refresh puts known hosts on it.         *)
(***************************************************************************)
EXTENDS Blocklist, TLAPS

TypeInv ==
    /\ register \subseteq Addresses /\ allocated \subseteq Addresses
    /\ local \in {None} \union SUBSET Addresses
    /\ s3 \in {None} \union SUBSET Addresses
    /\ blocklist \in {None} \union SUBSET Addresses
    /\ pc \in [Runs -> Rebuilding \union {"idle", "probing"}]
    /\ list \in [Runs -> SUBSET Addresses]
    /\ loaded \in [Runs -> SUBSET Addresses]
    /\ grabs \in [Runs -> SUBSET Addresses]
    /\ due \in [Runs -> SUBSET Addresses]
    /\ job \in {"idle", "writing", "uploading"}
    /\ fetched \subseteq Addresses
    /\ replacements \in 0 .. MaxReplacements
    /\ settled \subseteq Addresses

LEMMA TypeInit == Init => TypeInv
BY BlocklistAssumption DEF Init, TypeInv

LEMMA TypeStep == TypeInv /\ [Next]_vars => TypeInv'
<1> SUFFICES ASSUME TypeInv, [Next]_vars PROVE TypeInv'
  OBVIOUS
<1> USE BlocklistAssumption DEF TypeInv, Goto, Entries, Rebuilding
<1>s. ASSUME Settles, register' \subseteq Addresses, s3' \in {None} \union SUBSET Addresses
      PROVE  settled' \subseteq Addresses
  BY <1>s DEF Settles
<1>e. ASSUME NEW r \in Runs, Ends(r)
      PROVE  /\ pc' \in [Runs -> Rebuilding \union {"idle", "probing"}]
             /\ list' \in [Runs -> SUBSET Addresses]
             /\ loaded' \in [Runs -> SUBSET Addresses]
             /\ grabs' \in [Runs -> SUBSET Addresses]
             /\ due' \in [Runs -> SUBSET Addresses]
  BY <1>e DEF Ends
<1>1. ASSUME NEW r \in Runs, Start(r) PROVE TypeInv'
  BY <1>1, <1>s DEF Start, worldVars, fileVars, jobVars
<1>2. ASSUME NEW r \in Runs, Pull(r) PROVE TypeInv'
  BY <1>2, <1>s DEF Pull, worldVars, jobVars
<1>3. ASSUME NEW r \in Runs, Fails(r) \/ MergeRaises(r) PROVE TypeInv'
  BY <1>3, <1>s, <1>e DEF Fails, MergeRaises, worldVars, fileVars, jobVars
<1>4. ASSUME NEW r \in Runs, ReadExclusions(r) PROVE TypeInv'
  BY <1>4, <1>s DEF ReadExclusions, worldVars, fileVars, jobVars
<1>5. ASSUME NEW r \in Runs, Merge(r) PROVE TypeInv'
  <2>1. Extra(r) \subseteq Addresses
    BY DEF Extra
  <2>2. list[r] \union Bogons \union Extra(r) \union Entries(local) \in SUBSET Addresses
    BY <2>1
  <2> QED
    BY <1>5, <1>s, <2>2 DEF Merge, worldVars, fileVars, jobVars
<1>6. ASSUME NEW r \in Runs, OpenTemp(r) PROVE TypeInv'
  BY <1>6, <1>s DEF OpenTemp, worldVars, fileVars, jobVars
<1>7. ASSUME NEW r \in Runs, Install(r) PROVE TypeInv'
  BY <1>7, <1>s DEF Install, worldVars, jobVars
<1>8. ASSUME NEW r \in Runs, Load(r) PROVE TypeInv'
  BY <1>8, <1>s DEF Load, worldVars, fileVars, jobVars
<1>9. ASSUME NEW r \in Runs, SpawnZGrab(r) PROVE TypeInv'
  BY <1>9, <1>s DEF SpawnZGrab, worldVars, fileVars, jobVars
<1>10. ASSUME NEW r \in Runs, RunEnds(r) PROVE TypeInv'
  BY <1>10, <1>s, <1>e DEF RunEnds, worldVars, fileVars, jobVars
<1>11. CASE JobStep
  BY <1>11, <1>s DEF JobStep, Fetch, WriteLocal, Upload, JobEnds, worldVars, fileVars, runVars
<1>12. ASSUME NEW a \in Addresses, OptOut(a) \/ Allocate(a) PROVE TypeInv'
  BY <1>12, <1>s DEF OptOut, Allocate, fileVars, runVars, jobVars
<1>13. CASE InstanceReplaced
  BY <1>13, <1>s DEF InstanceReplaced, worldVars
<1>14. CASE UNCHANGED vars
  BY <1>14 DEF vars, worldVars, fileVars, runVars, jobVars
<1> QED
  BY <1>1, <1>2, <1>3, <1>4, <1>5, <1>6, <1>7, <1>8, <1>9, <1>10, <1>11, <1>12, <1>13, <1>14
  DEF Next, RunStep, Rebuild, WorldStep

(* Every variable keeps its type, whatever the runs and the world do.      *)
THEOREM TypeCorrect == Spec => []TypeOK
<1>1. TypeInv => TypeOK
  BY DEF TypeInv, TypeOK
<1> QED
  BY TypeInit, TypeStep, <1>1, PTL DEF Spec

-----------------------------------------------------------------------------
(* The inductive invariant. *)

(* What is settled is still known: the register and the copy only grow. *)
SettledKnown == settled \subseteq Bogons \union register \union Entries(s3)

(* The local list is not behind its copy, unless it is about to be pulled. *)
LocalAhead ==
    /\ Entries(s3) \subseteq allocated /\ Entries(local) \subseteq allocated
    /\ fetched \subseteq allocated
    /\ local # None => Entries(s3) \subseteq Entries(local)
    /\ \A r \in Runs : pc[r] \in Rebuilding \ {"pulling"} =>
           Entries(s3) \subseteq Entries(local)

(* The list a job holds is not behind the copy either, and a job that has  *)
(* written the local list finds it there when it uploads.                  *)
JobAhead ==
    /\ job # "idle" => Entries(s3) \subseteq fetched
    /\ job = "uploading" => local = fetched
    /\ job # "idle" => \A r \in Runs : pc[r] # "pulling"

(* What run r has in hand covers what is settled, at each of its steps. *)
RunCovers(r) ==
    /\ pc[r] \in Rebuilding => due[r] = settled
    /\ pc[r] = "jurisdiction" => settled \subseteq Bogons \union list[r] \union Entries(s3)
    /\ pc[r] \in {"writing", "replacing"} => settled \subseteq list[r]
    /\ pc[r] \in {"loading", "spawning"} => settled \subseteq Entries(blocklist)
    /\ pc[r] \in {"spawning", "probing"} => due[r] \subseteq loaded[r]
    /\ pc[r] = "probing" => due[r] \subseteq grabs[r]

IInv == TypeInv /\ SettledKnown /\ LocalAhead /\ JobAhead /\ \A r \in Runs : RunCovers(r)

LEMMA SettledInit == Init => IInv
BY TypeInit, NoneAssumption
DEF Init, IInv, SettledKnown, LocalAhead, JobAhead, RunCovers, Entries, Rebuilding

(* The history variable keeps to what is known, and stands still while a   *)
(* run is rebuilding.                                                      *)
LEMMA SettlesFacts ==
    ASSUME Settles, SettledKnown,
           register \subseteq register', Entries(s3) \subseteq Entries(s3')
    PROVE  /\ SettledKnown'
           /\ \A r \in Runs : pc'[r] \in Rebuilding => settled' = settled
BY DEF Settles, Quiet, SettledKnown


(* The register and the copy of the jurisdiction list only grow. *)
LEMMA Grow ==
    ASSUME IInv, [Next]_vars
    PROVE  register \subseteq register' /\ Entries(s3) \subseteq Entries(s3')
<1> USE DEF worldVars, fileVars, runVars, jobVars
<1>1. ASSUME NEW r \in Runs, RunStep(r) PROVE UNCHANGED <<register, s3>>
  BY <1>1 DEF RunStep, Rebuild, Start, Pull, Fails, ReadExclusions, Merge, MergeRaises, OpenTemp, Install, Load,
     SpawnZGrab, RunEnds
<1>2. CASE Upload
  BY <1>2, NoneAssumption DEF Upload, IInv, TypeInv, JobAhead, Entries
<1>3. CASE Fetch \/ WriteLocal \/ JobEnds
  BY <1>3 DEF Fetch, WriteLocal, JobEnds
<1>4. CASE WorldStep
  BY <1>4 DEF WorldStep, OptOut, Allocate, InstanceReplaced
<1>5. CASE UNCHANGED vars
  BY <1>5 DEF vars
<1> QED
  BY <1>1, <1>2, <1>3, <1>4, <1>5 DEF Next, JobStep, Entries

LEMMA KnownStep ==
    ASSUME IInv, [Next]_vars
    PROVE  /\ SettledKnown'
           /\ \A r \in Runs : pc'[r] \in Rebuilding => settled' = settled
<1>1. register \subseteq register' /\ Entries(s3) \subseteq Entries(s3') /\ SettledKnown
  BY Grow DEF IInv
<1>2. CASE UNCHANGED vars
  BY <1>1, <1>2 DEF vars, worldVars, fileVars, SettledKnown
<1>3. CASE Next
  <2>1. Settles
    BY <1>3 DEF Next, RunStep, Rebuild, JobStep, WorldStep, Start, Pull, Fails, ReadExclusions, Merge, MergeRaises,
       OpenTemp, Install, Load, SpawnZGrab, RunEnds, Fetch, WriteLocal, Upload, JobEnds,
       OptOut, Allocate, InstanceReplaced
  <2> QED
    BY <1>1, <2>1, SettlesFacts
<1> QED
  BY <1>2, <1>3

(* Where PullApart is needed: a pull would put an older copy over a newer  *)
(* local list, and the upload that follows would then not match it.        *)
LEMMA AheadStep ==
    ASSUME PullApart, IInv, [Next]_vars
    PROVE  LocalAhead' /\ JobAhead'
<1> USE NoneAssumption DEF IInv, TypeInv, LocalAhead, JobAhead, Entries, Goto, Rebuilding,
    worldVars, fileVars, runVars, jobVars
<1>1. ASSUME NEW r \in Runs, Start(r) PROVE LocalAhead' /\ JobAhead'
  BY <1>1 DEF Start
<1>2. ASSUME NEW r \in Runs, Pull(r) PROVE LocalAhead' /\ JobAhead'
  BY <1>2 DEF Pull
<1>3. ASSUME NEW r \in Runs, Fails(r) \/ MergeRaises(r) \/ RunEnds(r) PROVE LocalAhead' /\ JobAhead'
  BY <1>3 DEF Fails, MergeRaises, RunEnds, Ends
<1>4. ASSUME NEW r \in Runs, ReadExclusions(r) \/ Merge(r) PROVE LocalAhead' /\ JobAhead'
  BY <1>4 DEF ReadExclusions, Merge
<1>5. ASSUME NEW r \in Runs, OpenTemp(r) \/ Install(r) PROVE LocalAhead' /\ JobAhead'
  BY <1>5 DEF OpenTemp, Install
<1>6. ASSUME NEW r \in Runs, Load(r) \/ SpawnZGrab(r) PROVE LocalAhead' /\ JobAhead'
  BY <1>6 DEF Load, SpawnZGrab
<1>7. CASE Fetch
  BY <1>7 DEF Fetch
<1>8. CASE WriteLocal
  BY <1>8 DEF WriteLocal
<1>9. CASE Upload
  BY <1>9 DEF Upload
<1>10. CASE JobEnds
  BY <1>10 DEF JobEnds
<1>11. CASE WorldStep
  BY <1>11 DEF WorldStep, OptOut, Allocate, InstanceReplaced
<1>12. CASE UNCHANGED vars
  BY <1>12 DEF vars
<1> QED
  BY <1>1, <1>2, <1>3, <1>4, <1>5, <1>6, <1>7, <1>8, <1>9, <1>10, <1>11, <1>12
  DEF Next, RunStep, Rebuild, JobStep

(* Run r, whichever run takes the step: a step of another run can only     *)
(* disturb it by replacing the file, and the other's list covers as much.  *)
LEMMA CoversStep ==
    ASSUME IInv, [Next]_vars, NEW r \in Runs
    PROVE  RunCovers(r)'
<1>1. /\ SettledKnown /\ LocalAhead /\ TypeInv /\ Entries(s3) \subseteq Entries(s3')
      /\ \A q \in Runs : RunCovers(q)
      /\ pc'[r] \in Rebuilding => settled' = settled
  BY Grow, KnownStep DEF IInv
<1> USE DEF RunCovers, TypeInv, Goto, Rebuilding, worldVars, fileVars, runVars, jobVars
<1>2. ASSUME NEW q \in Runs, Start(q) PROVE RunCovers(r)'
  BY <1>1, <1>2 DEF Start
<1>3. ASSUME NEW q \in Runs, Pull(q) PROVE RunCovers(r)'
  BY <1>1, <1>3 DEF Pull
<1>4. ASSUME NEW q \in Runs, Fails(q) \/ MergeRaises(q) \/ RunEnds(q) PROVE RunCovers(r)'
  BY <1>1, <1>4 DEF Fails, MergeRaises, RunEnds, Ends
<1>5. ASSUME NEW q \in Runs, ReadExclusions(q) PROVE RunCovers(r)'
  BY <1>1, <1>5 DEF ReadExclusions, SettledKnown
<1>6. ASSUME NEW q \in Runs, Merge(q) PROVE RunCovers(r)'
  BY <1>1, <1>6 DEF Merge, LocalAhead
<1>7. ASSUME NEW q \in Runs, OpenTemp(q) PROVE RunCovers(r)'
  BY <1>1, <1>7 DEF OpenTemp
<1>8. ASSUME NEW q \in Runs, Install(q) PROVE RunCovers(r)'
  <2>1. blocklist' = list[q] /\ settled \subseteq list[q] /\ Entries(blocklist') = list[q]
    BY <1>1, <1>8, NoneAssumption DEF Install, Entries
  <2> QED
    BY <1>1, <1>8, <2>1 DEF Install
<1>9. ASSUME NEW q \in Runs, Load(q) PROVE RunCovers(r)'
  BY <1>1, <1>9 DEF Load
<1>10. ASSUME NEW q \in Runs, SpawnZGrab(q) PROVE RunCovers(r)'
  BY <1>1, <1>10 DEF SpawnZGrab
<1>11. CASE JobStep
  BY <1>1, <1>11 DEF JobStep, Fetch, WriteLocal, Upload, JobEnds
<1>12. CASE WorldStep
  BY <1>1, <1>12 DEF WorldStep, OptOut, Allocate, InstanceReplaced
<1>13. CASE UNCHANGED vars
  BY <1>1, <1>13 DEF vars
<1> QED
  BY <1>2, <1>3, <1>4, <1>5, <1>6, <1>7, <1>8, <1>9, <1>10, <1>11, <1>12, <1>13
  DEF Next, RunStep, Rebuild

(* If no jurisdiction-refresh is in flight while a run pulls the copy, a   *)
(* run probes nothing that was protected when it started, for any number   *)
(* of runs, any crontab and any addresses.                                 *)
THEOREM ProtectionHonoured == ASSUME PullApart PROVE Spec => []SettledHonoured
<1>1. IInv /\ [Next]_vars => IInv'
  BY TypeStep, KnownStep, AheadStep, CoversStep DEF IInv
<1>2. IInv => SettledHonoured
  BY DEF IInv, RunCovers, SettledHonoured
<1> QED
  BY SettledInit, <1>1, <1>2, PTL DEF Spec

-----------------------------------------------------------------------------
(* A refresh and its hosts. *)

Protected == Bogons \union register \union allocated

(* What a refresh has in hand holds protected addresses and nothing else. *)
RefreshIsLean(r) ==
    Kind[r] = "refresh" =>
        /\ pc[r] \in {"jurisdiction", "writing", "replacing"} => list[r] \subseteq Protected
        /\ pc[r] \in {"loading", "spawning"} => Entries(blocklist) \subseteq Protected
        /\ pc[r] \in {"spawning", "probing"} => loaded[r] \subseteq Protected

ListsAllocated ==
    Entries(s3) \subseteq allocated /\ Entries(local) \subseteq allocated /\ fetched \subseteq allocated

OneMinute ==
    \A q, r \in Runs : pc[q] \in Rebuilding /\ pc[r] \in Rebuilding => Minute[q] = Minute[r]

RInv == TypeInv /\ ListsAllocated /\ OneMinute /\ \A r \in Runs : RefreshIsLean(r)

LEMMA LeanInit == Init => RInv
BY TypeInit DEF Init, RInv, ListsAllocated, OneMinute, RefreshIsLean, Entries, Rebuilding

LEMMA AllocatedStep ==
    ASSUME RInv, [Next]_vars
    PROVE  ListsAllocated' /\ Protected \subseteq Protected'
<1> USE NoneAssumption DEF RInv, TypeInv, ListsAllocated, Protected, Entries, Goto,
    worldVars, fileVars, runVars, jobVars
<1>1. ASSUME NEW r \in Runs, RunStep(r) PROVE ListsAllocated' /\ Protected \subseteq Protected'
  BY <1>1 DEF RunStep, Rebuild, Start, Pull, Fails, ReadExclusions, Merge, MergeRaises, OpenTemp, Install, Load,
     SpawnZGrab, RunEnds
<1>2. CASE JobStep
  BY <1>2 DEF JobStep, Fetch, WriteLocal, Upload, JobEnds
<1>3. CASE WorldStep
  BY <1>3 DEF WorldStep, OptOut, Allocate, InstanceReplaced
<1>4. CASE UNCHANGED vars
  BY <1>4 DEF vars
<1> QED
  BY <1>1, <1>2, <1>3, <1>4 DEF Next

(* Start looks at the minutes of the runs that are rebuilding. *)
LEMMA MinuteStep ==
    ASSUME RInv, [Next]_vars
    PROVE  OneMinute'
<1> USE DEF RInv, TypeInv, OneMinute, Goto, Rebuilding, runVars
<1>1. ASSUME NEW q \in Runs, Start(q) PROVE OneMinute'
  BY <1>1 DEF Start
<1>2. ASSUME NEW q \in Runs, Fails(q) \/ MergeRaises(q) \/ RunEnds(q) PROVE OneMinute'
  BY <1>2 DEF Fails, MergeRaises, RunEnds, Ends
<1>3. ASSUME NEW q \in Runs, Pull(q) \/ ReadExclusions(q) \/ Merge(q) PROVE OneMinute'
  BY <1>3 DEF Pull, ReadExclusions, Merge
<1>4. ASSUME NEW q \in Runs, OpenTemp(q) \/ Install(q) \/ Load(q) \/ SpawnZGrab(q)
      PROVE  OneMinute'
  BY <1>4 DEF OpenTemp, Install, Load, SpawnZGrab
<1>5. CASE JobStep
  BY <1>5 DEF JobStep, Fetch, WriteLocal, Upload, JobEnds
<1>6. CASE WorldStep
  BY <1>6 DEF WorldStep, OptOut, Allocate, InstanceReplaced
<1>7. CASE UNCHANGED vars
  BY <1>7 DEF vars
<1> QED
  BY <1>1, <1>2, <1>3, <1>4, <1>5, <1>6, <1>7 DEF Next, RunStep, Rebuild

(* The file changes under a refresh only by the hand of another refresh.   *)
LEMMA LeanStep ==
    ASSUME RInv, [Next]_vars, NEW r \in Runs
    PROVE  RefreshIsLean(r)'
<1> SUFFICES ASSUME Kind[r] = "refresh" PROVE RefreshIsLean(r)'
  BY DEF RefreshIsLean
<1>1. /\ TypeInv /\ ListsAllocated /\ RefreshIsLean(r)
      /\ Protected \subseteq Protected'
  BY AllocatedStep DEF RInv
<1> USE DEF RefreshIsLean, TypeInv, Goto, Rebuilding, fileVars, runVars, jobVars
<1>2. ASSUME NEW q \in Runs, Start(q) \/ Pull(q) PROVE RefreshIsLean(r)'
  BY <1>1, <1>2 DEF Start, Pull
<1>3. ASSUME NEW q \in Runs, Fails(q) \/ MergeRaises(q) \/ RunEnds(q) PROVE RefreshIsLean(r)'
  BY <1>1, <1>3 DEF Fails, MergeRaises, RunEnds, Ends
<1>4. ASSUME NEW q \in Runs, ReadExclusions(q) PROVE RefreshIsLean(r)'
  BY <1>1, <1>4 DEF ReadExclusions, Protected
<1>5. ASSUME NEW q \in Runs, Merge(q) PROVE RefreshIsLean(r)'
  <2>1. CASE q = r
    <3>1. Extra(r) = {} /\ Bogons \subseteq Protected /\ Entries(local) \subseteq Protected
      BY <1>1 DEF Extra, ListsAllocated, Protected
    <3> QED
      BY <1>1, <1>5, <2>1, <3>1 DEF Merge
  <2>2. CASE q # r
    BY <1>1, <1>5, <2>2 DEF Merge
  <2> QED
    BY <2>1, <2>2
<1>6. ASSUME NEW q \in Runs, OpenTemp(q) PROVE RefreshIsLean(r)'
  BY <1>1, <1>6 DEF OpenTemp
<1>7. ASSUME NEW q \in Runs, Install(q) PROVE RefreshIsLean(r)'
  <2>1. Entries(blocklist') = list[q]
    BY <1>1, <1>7, NoneAssumption DEF Install, Entries
  <2>2. ASSUME pc[r] \in Rebuilding PROVE list[q] \subseteq Protected
    <3>1. Kind[q] = Kind[r]
      BY <1>7, <2>2, MinuteAssumption DEF RInv, OneMinute, Install
    <3> QED
      BY <1>7, <3>1 DEF RInv, Install
  <2> QED
    BY <1>1, <1>7, <2>1, <2>2 DEF Install
<1>8. ASSUME NEW q \in Runs, Load(q) \/ SpawnZGrab(q) PROVE RefreshIsLean(r)'
  BY <1>1, <1>8 DEF Load, SpawnZGrab
<1>9. CASE JobStep
  BY <1>1, <1>9 DEF JobStep, Fetch, WriteLocal, Upload, JobEnds
<1>10. CASE WorldStep
  BY <1>1, <1>10 DEF WorldStep, OptOut, Allocate, InstanceReplaced
<1>11. CASE UNCHANGED vars
  BY <1>1, <1>11 DEF vars
<1> QED
  BY <1>2, <1>3, <1>4, <1>5, <1>6, <1>7, <1>8, <1>9, <1>10, <1>11 DEF Next, RunStep, Rebuild

(* A refresh is kept only from what is protected, never from its own hosts *)
(* by a scan's list, for any runs whose scans and refreshes start at       *)
(* different minutes.                                                      *)
THEOREM RefreshUnhindered == Spec => []RefreshSeesItsHosts
<1>1. RInv /\ [Next]_vars => RInv'
  BY TypeStep, AllocatedStep, MinuteStep, LeanStep DEF RInv
<1>2. RInv => RefreshSeesItsHosts
  BY DEF RInv, RefreshIsLean, RefreshSeesItsHosts, Protected
<1> QED
  BY LeanInit, <1>1, <1>2, PTL DEF Spec
=============================================================================
