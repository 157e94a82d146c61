--------------------------- MODULE TargetedProofs ---------------------------
(***************************************************************************)
(* What TLAPS proves of Targeted for any number of runs, any assignment of *)
(* services to addresses and any blocklist: the rows of a fingerprint and  *)
(* of a run's metadata, which addresses are probed, and which fingerprint  *)
(* a host is given.                                                        *)
(***************************************************************************)
EXTENDS Targeted, ServicesProofs, WellFoundedInduction

Labels == Ended \union {"rebuilding", "checking", "grabbing", "recording", "claiming",
                        "finishing", "staging"}
Names == {"observations", "versions", "scan_metadata"} \union Protocols
Observation(status, fp) == [status |-> status, fingerprint_id |-> fp]

TypeInv ==
    /\ world \in Worlds
    /\ pc \in [Runs -> Labels]
    /\ attempted \in [Runs -> Nat] /\ responsive \in [Runs -> Nat]
    /\ grabbed \in [Runs -> [outcome : Outcomes, grab : Grabs] \union {Unasked}]
    /\ row = [r \in Runs |-> row[r]] /\ version = [r \in Runs |-> version[r]]
    /\ todo \in [Runs -> Seq(Names)]

(* What a run has done by the time it is where it is. *)
Before == {"idle", "refused", "rebuilding", "checking"}
After == {"staging", "done", "died"}
Worked(r) == IF grabbed[r].outcome \in {"odd", "answered"} THEN 1 ELSE 0

PhaseInv == \A r \in Runs :
    /\ pc[r] \in Before \union {"grabbing"} => grabbed[r] = Unasked
    /\ pc[r] \in Before => attempted[r] = 0
    /\ pc[r] = "grabbing" \/ grabbed[r] # Unasked => attempted[r] = 1
    /\ pc[r] \in {"recording", "claiming", "finishing"} => grabbed[r] # Unasked
    /\ pc[r] \in Before \union {"grabbing", "recording"} => row[r] = <<>>
    /\ row[r] = <<>> => responsive[r] = 0 /\ version[r] = <<>>
    /\ pc[r] \in {"claiming", "finishing"} => row[r] # <<>>
    /\ pc[r] \in {"staging", "done"} /\ row[r] = <<>> => grabbed[r] = Unasked

(* The one observation row of a run says what became of its grab. *)
RowInv == \A r \in Runs : row[r] # <<>> =>
    \E status \in {"grab-failed", "normalize-failed", "success"}, fp \in {row[r][1].fingerprint_id} :
        /\ row[r] = <<Observation(status, fp)>>
        /\ grabbed[r] # Unasked
        /\ responsive[r] = Worked(r)
        /\ status = "grab-failed" <=> Worked(r) = 0
        /\ pc[r] = "claiming" => status = "success"

(* A run stages `observations` first, and only at the end of its work. *)
StageInv == \A r \in Runs :
    /\ pc[r] = "staging" => todo[r] # <<>>
    /\ pc[r] = "staging" /\ row[r] # <<>> =>
           <<"observations", r>> \in staged \/ Head(todo[r]) = "observations"
    /\ \A d \in Names : <<d, r>> \in staged => pc[r] \in After

(* The index and the version rows agree; a claim without its version row   *)
(* is that of a run that has died.                                         *)
IndexInv ==
    /\ \A r \in Runs : version[r] # <<>> =>
           \E fp \in DOMAIN index : version[r] = <<fp>> /\ index[fp] = r
    /\ \A fp \in DOMAIN index :
           /\ index[fp] \in Runs
           /\ pc[index[fp]] \in {"finishing"} \union After
           /\ version[index[fp]] = <<fp>> \/ pc[index[fp]] = "died"
    /\ \A r \in Runs :
           row[r] # <<>> /\ row[r][1].status = "success"
               /\ pc[r] \in {"finishing", "staging", "done"} => Fingerprint(r) \in DOMAIN index

(* What a run with a version row has still to stage. *)
OwedInv == \A r \in Runs : version[r] # <<>> /\ pc[r] \in {"staging", "done"} =>
    \A d \in {"versions", world.protocol} :
        <<d, r>> \in staged \/ (pc[r] = "staging" /\ \E i \in DOMAIN todo[r] : todo[r][i] = d)

IInv == TypeInv /\ PhaseInv /\ RowInv /\ StageInv /\ IndexInv /\ OwedInv /\ MetadataBacked

-----------------------------------------------------------------------------
(* A grab is recorded as failed exactly if no service answered it. *)
LEMMA GrabOneFact ==
    ASSUME NEW r \in Runs, grabbed[r].outcome \in Outcomes
    PROVE  GrabOne(r) = Absent <=> Worked(r) = 0
<1> DEFINE Reported == CASE grabbed[r].outcome \in {"silent", "garbage"} -> Absent
                     [] grabbed[r].outcome = "failed" -> Failure
                     [] OTHER -> Success(world.protocol, world.variant[target[r]], grabbed[r].grab)
<1>1. GrabOne(r) = IF SuccessfulModuleResult(Reported) THEN Reported ELSE Absent
    BY DEF GrabOne
<1>2. ~SuccessfulModuleResult(Absent)
    BY DEF SuccessfulModuleResult, Absent
<1>3. ~SuccessfulModuleResult(Failure)
    BY DEF SuccessfulModuleResult, Failure, Obj, Text, Field
<1>4. ASSUME NEW p, NEW v, NEW n
      PROVE  SuccessfulModuleResult(Success(p, v, n)) /\ Success(p, v, n) # Absent
    <2>1. PICK x : Success(p, v, n) = Obj([status |-> Text("success"), result |-> x])
        BY DEF Success
    <2>2. Field([status |-> Text("success"), result |-> x], "status") = Text("success")
        BY DEF Field
    <2> QED
        BY <2>1, <2>2 DEF SuccessfulModuleResult, Obj, Absent
<1>5. CASE grabbed[r].outcome \in {"silent", "garbage"}
    BY <1>1, <1>2, <1>5 DEF Worked
<1>6. CASE grabbed[r].outcome = "failed"
    BY <1>1, <1>3, <1>6 DEF Worked
<1>7. CASE grabbed[r].outcome \in {"odd", "answered"}
    BY <1>1, <1>4, <1>7 DEF Worked
<1> QED
    BY <1>5, <1>6, <1>7 DEF Outcomes

LEMMA ProtocolFact == ASSUME world \in Worlds PROVE world.protocol \in Protocols
BY TargetedAssumption DEF WorldOK

(* What a finished run has to stage, and in which order. *)
LEMMA DatasetsFact ==
    ASSUME TypeInv, NEW r \in Runs
    PROVE  /\ Datasets(r) \in Seq(Names) /\ Datasets(r) # <<>>
           /\ Head(Datasets(r)) = "observations"
           /\ version[r] # <<>> =>
                  \A d \in {"versions", world.protocol} :
                      \E i \in DOMAIN Datasets(r) : Datasets(r)[i] = d
<1>1. world.protocol \in Names
    BY ProtocolFact DEF TypeInv, Names
<1>2. {"observations", "versions", "scan_metadata"} \subseteq Names
    BY DEF Names
<1>3. CASE version[r] = <<>>
    BY <1>2, <1>3 DEF Datasets
<1>4. CASE version[r] # <<>>
    <2> DEFINE s == <<"observations", "versions", "scan_metadata", world.protocol>>
    <2>1. Datasets(r) = s
        BY <1>4 DEF Datasets
    <2>2. s \in Seq(Names) /\ s # <<>> /\ Head(s) = "observations"
        BY <1>1, <1>2
    <2>3. 2 \in DOMAIN s /\ s[2] = "versions" /\ 4 \in DOMAIN s /\ s[4] = world.protocol
        OBVIOUS
    <2> QED
        BY <1>4, <2>1, <2>2, <2>3
<1> QED
    BY <1>3, <1>4

-----------------------------------------------------------------------------
LEMMA TypeInit == Init => TypeInv
BY DEF Init, TypeInv, Labels, Ended, Unasked

(* What is left to stage after the first of it is staged. *)
LEMMA Rest ==
    ASSUME TypeInv, StageInv, NEW r \in Runs, pc[r] = "staging"
    PROVE  /\ todo[r] # <<>> /\ Head(todo[r]) \in Names /\ Tail(todo[r]) \in Seq(Names)
           /\ Len(todo[r]) \in Nat \ {0} /\ Len(todo[r]) # 1 => Tail(todo[r]) # <<>>
           /\ \A i \in DOMAIN todo[r] :
                  \/ todo[r][i] = Head(todo[r])
                  \/ /\ Len(todo[r]) # 1
                     /\ i - 1 \in DOMAIN Tail(todo[r]) /\ Tail(todo[r])[i - 1] = todo[r][i]
<1> DEFINE s == todo[r]
<1>1. s \in Seq(Names) /\ s # <<>>
    BY DEF TypeInv, StageInv
<1>2. Len(s) \in Nat \ {0} /\ DOMAIN s = 1 .. Len(s) /\ Head(s) = s[1]
    BY <1>1
<1>3. /\ Head(s) \in Names /\ Tail(s) \in Seq(Names) /\ Len(Tail(s)) = Len(s) - 1
      /\ \A i \in 1 .. Len(Tail(s)) : Tail(s)[i] = s[i + 1]
    BY <1>1, HeadTailProperties
<1>4. DOMAIN Tail(s) = 1 .. Len(s) - 1
    BY <1>3
<1>5. Len(s) # 1 => Tail(s) # <<>>
    <2>1. Len(<<>>) = 0
        OBVIOUS
    <2>2. Len(s) # 1 => Len(s) - 1 # 0
        BY <1>2
    <2> QED
        BY <1>3, <2>1, <2>2
<1> HIDE DEF s
<1>6. ASSUME NEW i \in 1 .. Len(s), i # 1
      PROVE  Len(s) # 1 /\ i - 1 \in 1 .. Len(s) - 1 /\ (i - 1) + 1 = i
    BY <1>2, <1>6
<1>7. ASSUME NEW i \in 1 .. Len(s), i # 1 PROVE Tail(s)[i - 1] = s[i]
    BY <1>3, <1>6, <1>7
<1> QED
    BY <1>1, <1>2, <1>3, <1>4, <1>5, <1>6, <1>7 DEF s

(* What the record of a grab comes to, whichever of the three it is. *)
Records(r) == RecordFailed(r) \/ NormalizeRaises(r) \/ RecordSuccess(r)

LEMMA RecordsFact ==
    ASSUME IInv, NEW r \in Runs, Records(r)
    PROVE  /\ pc[r] = "recording" /\ grabbed[r] # Unasked
           /\ UNCHANGED <<world, index, staged, attempted, grabbed, version, todo>>
           /\ responsive' \in [Runs -> Nat]
           /\ \A s \in Runs : responsive'[s] = IF s = r THEN responsive[r] + Worked(r) ELSE responsive[s]
           /\ row' = [s \in Runs |-> row'[s]]
           /\ \A s \in Runs : s # r => row'[s] = row[s]
           /\ \E status \in {"grab-failed", "normalize-failed", "success"}, fp \in {row'[r][1].fingerprint_id} :
                  /\ row'[r] = <<Observation(status, fp)>>
                  /\ pc' = [pc EXCEPT ![r] = IF status = "success" THEN "claiming" ELSE "finishing"]
                  /\ status = "grab-failed" <=> Worked(r) = 0
<1>0. TypeInv /\ PhaseInv
    BY DEF IInv
<1>1. pc[r] = "recording" /\ UNCHANGED <<world, index, staged, attempted, grabbed, version, todo>>
    <2>1. CASE RecordFailed(r)
        BY <2>1 DEF RecordFailed, shared
    <2>2. CASE NormalizeRaises(r)
        BY <2>2 DEF NormalizeRaises, shared
    <2>3. CASE RecordSuccess(r)
        BY <2>3 DEF RecordSuccess, shared
    <2> QED
        BY <2>1, <2>2, <2>3 DEF Records
<1>2. grabbed[r] # Unasked /\ grabbed[r].outcome \in Outcomes /\ row[r] = <<>>
    BY <1>0, <1>1 DEF TypeInv, PhaseInv, Before
<1>3. GrabOne(r) = Absent <=> Worked(r) = 0
    BY <1>2, GrabOneFact
<1>4. Worked(r) \in {0, 1} /\ responsive \in [Runs -> Nat] /\ row = [s \in Runs |-> row[s]]
    BY <1>0 DEF Worked, TypeInv
<1>5. ASSUME NEW status \in {"grab-failed", "normalize-failed", "success"}, NEW fp, Observe(r, status, fp)
      PROVE  /\ row' = [s \in Runs |-> row'[s]]
             /\ \A s \in Runs : s # r => row'[s] = row[s]
             /\ row'[r] = <<Observation(status, fp)>> /\ fp = row'[r][1].fingerprint_id
    <2>1. Append(<<>>, Observation(status, fp)) = <<Observation(status, fp)>>
        OBVIOUS
    <2>2. row' = [row EXCEPT ![r] = Append(<<>>, Observation(status, fp))]
        BY <1>2, <1>4, <1>5 DEF Observe, Observation
    <2>3. row'[r] = <<Observation(status, fp)>>
        BY <1>4, <2>1, <2>2
    <2>4. <<Observation(status, fp)>>[1].fingerprint_id = fp
        BY DEF Observation
    <2> QED
        BY <1>4, <2>2, <2>3, <2>4
<1>6. CASE RecordFailed(r)
    <2>1. Observe(r, "grab-failed", Absent) /\ responsive' = responsive /\ Worked(r) = 0
              /\ pc' = [pc EXCEPT ![r] = "finishing"]
        BY <1>3, <1>6 DEF RecordFailed, Goto
    <2> QED
        BY <1>1, <1>2, <1>4, <1>5, <2>1
<1>7. CASE NormalizeRaises(r)
    <2>1. Observe(r, "normalize-failed", Absent) /\ responsive' = [responsive EXCEPT ![r] = @ + 1]
              /\ Worked(r) = 1 /\ pc' = [pc EXCEPT ![r] = "finishing"]
        BY <1>3, <1>4, <1>7 DEF NormalizeRaises, Goto
    <2> QED
        BY <1>1, <1>2, <1>4, <1>5, <2>1
<1>8. CASE RecordSuccess(r)
    <2>1. Observe(r, "success", FingerprintId(Payload(r)))
              /\ responsive' = [responsive EXCEPT ![r] = @ + 1]
              /\ Worked(r) = 1 /\ pc' = [pc EXCEPT ![r] = "claiming"]
        BY <1>3, <1>4, <1>8 DEF RecordSuccess, Goto
    <2> QED
        BY <1>1, <1>2, <1>4, <1>5, <2>1
<1> QED
    BY <1>6, <1>7, <1>8 DEF Records

LEMMA TypeStep == ASSUME IInv, [Next]_vars PROVE TypeInv'
<1>0. TypeInv /\ StageInv
    BY DEF IInv
<1> USE <1>0 DEF TypeInv, Labels, Ended, Goto, shared, runVars
<1>1. ASSUME NEW r \in Runs, Begin(r) \/ Rebuild(r) \/ Crash(r) PROVE TypeInv'
    BY <1>1 DEF Begin, Rebuild, Crash
<1>2. ASSUME NEW r \in Runs, Check(r) PROVE TypeInv'
    <2>1. <<"scan_metadata">> \in Seq(Names)
        BY DEF Names
    <2>2. attempted' \in [Runs -> Nat]
        BY <1>2 DEF Check
    <2>3. pc' \in [Runs -> Labels] /\ todo' \in [Runs -> Seq(Names)]
        BY <1>2, <2>1 DEF Check
    <2> QED
        BY <1>2, <2>2, <2>3 DEF Check
<1>3. ASSUME NEW r \in Runs, Grab(r) PROVE TypeInv'
    BY <1>3 DEF Grab
<1>4. ASSUME NEW r \in Runs, Records(r) PROVE TypeInv'
    <2>1. /\ UNCHANGED <<world, attempted, grabbed, version, todo>>
          /\ responsive' \in [Runs -> Nat] /\ row' = [s \in Runs |-> row'[s]]
        BY <1>4, RecordsFact
    <2>2. PICK l \in {"claiming", "finishing"} : pc' = [pc EXCEPT ![r] = l]
        BY <1>4, RecordsFact
    <2>3. pc' \in [Runs -> Labels]
        BY <2>2
    <2> QED
        BY <2>1, <2>3
<1>5. ASSUME NEW r \in Runs, ClaimWon(r) \/ ClaimLost(r) \/ ClaimRaises(r) PROVE TypeInv'
    BY <1>5 DEF ClaimWon, ClaimLost, ClaimRaises
<1>6. ASSUME NEW r \in Runs, Finish(r) PROVE TypeInv'
    BY <1>6, DatasetsFact DEF Finish
<1>7. ASSUME NEW r \in Runs, Stage(r) PROVE TypeInv'
    <2>1. Tail(todo[r]) \in Seq(Names)
        BY <1>7, Rest DEF Stage
    <2> QED
        BY <1>7, <2>1 DEF Stage
<1>8. CASE OptOutSubmit \/ UNCHANGED vars
    BY <1>8 DEF OptOutSubmit, vars
<1> QED
    BY <1>1, <1>2, <1>3, <1>4, <1>5, <1>6, <1>7, <1>8 DEF Next, Records, Terminated

LEMMA PhaseInit == Init => PhaseInv /\ RowInv /\ StageInv /\ IndexInv /\ OwedInv /\ MetadataBacked
BY DEF Init, PhaseInv, RowInv, StageInv, IndexInv, OwedInv, MetadataBacked, Before

LEMMA PhaseStep == ASSUME IInv, [Next]_vars PROVE PhaseInv'
<1>0. TypeInv /\ PhaseInv
    BY DEF IInv
<1> USE <1>0 DEF TypeInv, PhaseInv, Before, Goto, shared, runVars
<1>1. ASSUME NEW r \in Runs, Begin(r) \/ Rebuild(r) \/ Crash(r) PROVE PhaseInv'
    BY <1>1 DEF Begin, Rebuild, Crash
<1>2. ASSUME NEW r \in Runs, Check(r) PROVE PhaseInv'
    BY <1>2 DEF Check
<1>3. ASSUME NEW r \in Runs, Grab(r) PROVE PhaseInv'
    BY <1>3 DEF Grab, Unasked, Outcomes
<1>4. ASSUME NEW r \in Runs, Records(r) PROVE PhaseInv'
    <2>1. PICK status \in {"grab-failed", "normalize-failed", "success"} :
              /\ row'[r] # <<>>
              /\ pc' = [pc EXCEPT ![r] = IF status = "success" THEN "claiming" ELSE "finishing"]
        BY <1>4, RecordsFact
    <2>2. /\ pc[r] = "recording" /\ grabbed[r] # Unasked
          /\ UNCHANGED <<attempted, grabbed, version>>
          /\ \A s \in Runs : s # r => row'[s] = row[s] /\ responsive'[s] = responsive[s]
        BY <1>4, RecordsFact
    <2> QED
        BY <2>1, <2>2
<1>5. ASSUME NEW r \in Runs, ClaimWon(r) \/ ClaimLost(r) \/ ClaimRaises(r) PROVE PhaseInv'
    BY <1>5 DEF ClaimWon, ClaimLost, ClaimRaises
<1>6. ASSUME NEW r \in Runs, Finish(r) PROVE PhaseInv'
    BY <1>6 DEF Finish
<1>7. ASSUME NEW r \in Runs, Stage(r) PROVE PhaseInv'
    BY <1>7 DEF Stage
<1>8. CASE OptOutSubmit \/ UNCHANGED vars
    BY <1>8 DEF OptOutSubmit, vars
<1> QED
    BY <1>1, <1>2, <1>3, <1>4, <1>5, <1>6, <1>7, <1>8 DEF Next, Records, Terminated

LEMMA RowStep == ASSUME IInv, [Next]_vars PROVE RowInv'
<1>0. TypeInv /\ PhaseInv /\ RowInv
    BY DEF IInv
<1> USE <1>0 DEF TypeInv, PhaseInv, RowInv, Before, Goto, shared, runVars, Worked
<1>1. ASSUME NEW r \in Runs,
             Begin(r) \/ Rebuild(r) \/ Crash(r) \/ Check(r) \/ ClaimWon(r) \/ ClaimLost(r)
             \/ ClaimRaises(r) \/ Finish(r) \/ Stage(r)
      PROVE  RowInv'
    <2>1. UNCHANGED <<row, grabbed, responsive>>
              /\ \A s \in Runs : pc'[s] = "claiming" => pc[s] = "claiming"
        BY <1>1 DEF Begin, Rebuild, Crash, Check, ClaimWon, ClaimLost, ClaimRaises, Finish, Stage
    <2> QED
        BY <2>1
<1>2. ASSUME NEW r \in Runs, Grab(r) PROVE RowInv'
    BY <1>2 DEF Grab
<1>3. ASSUME NEW r \in Runs, Records(r) PROVE RowInv'
    <2>1. PICK status \in {"grab-failed", "normalize-failed", "success"},
               fp \in {row'[r][1].fingerprint_id} :
              /\ row'[r] = <<Observation(status, fp)>>
              /\ pc' = [pc EXCEPT ![r] = IF status = "success" THEN "claiming" ELSE "finishing"]
              /\ status = "grab-failed" <=> Worked(r) = 0
        BY <1>3, RecordsFact
    <2>2. /\ pc[r] = "recording" /\ grabbed[r] # Unasked
          /\ UNCHANGED grabbed
          /\ \A s \in Runs : s # r => row'[s] = row[s] /\ responsive'[s] = responsive[s]
          /\ responsive'[r] = responsive[r] + Worked(r)
        BY <1>3, RecordsFact
    <2>3. responsive[r] = 0 /\ responsive'[r] = Worked(r) /\ Worked(r)' = Worked(r)
        BY <2>2
    <2>4. pc'[r] = "claiming" => status = "success"
        BY <2>1
    <2>5. \A s \in Runs : s # r => pc'[s] = pc[s]
        BY <2>1
    <2> QED
        BY <2>1, <2>2, <2>3, <2>4, <2>5
<1>4. CASE OptOutSubmit \/ UNCHANGED vars
    BY <1>4 DEF OptOutSubmit, vars
<1> QED
    BY <1>1, <1>2, <1>3, <1>4 DEF Next, Records, Terminated

LEMMA StageStep == ASSUME IInv, [Next]_vars PROVE StageInv'
<1>0. TypeInv /\ PhaseInv /\ StageInv
    BY DEF IInv
<1>r. ASSUME NEW r \in Runs, pc[r] = "staging"
      PROVE  todo[r] # <<>> /\ (Len(todo[r]) # 1 => Tail(todo[r]) # <<>>)
    BY <1>0, <1>r, Rest
<1> USE <1>0 DEF TypeInv, PhaseInv, StageInv, Before, After, Goto, shared, runVars
<1>1. ASSUME NEW r \in Runs,
             Begin(r) \/ Rebuild(r) \/ Crash(r) \/ Grab(r) \/ ClaimWon(r) \/ ClaimLost(r)
             \/ ClaimRaises(r)
      PROVE  StageInv'
    <2>1. /\ UNCHANGED <<row, staged, todo>>
          /\ \A s \in Runs : pc'[s] = "staging" => pc[s] = "staging"
          /\ \A s \in Runs : pc[s] \in After => pc'[s] \in After
        BY <1>1 DEF Begin, Rebuild, Crash, Grab, ClaimWon, ClaimLost, ClaimRaises, Ended
    <2> QED
        BY <2>1
<1>2. ASSUME NEW r \in Runs, Check(r) PROVE StageInv'
    <2>1. <<"scan_metadata">> # <<>>
        OBVIOUS
    <2> QED
        BY <1>2, <2>1 DEF Check
<1>3. ASSUME NEW r \in Runs, Records(r) PROVE StageInv'
    <2>1. PICK status :
              pc' = [pc EXCEPT ![r] = IF status = "success" THEN "claiming" ELSE "finishing"]
        BY <1>3, RecordsFact
    <2>2. /\ pc[r] = "recording" /\ UNCHANGED <<staged, todo>>
          /\ \A s \in Runs : s # r => row'[s] = row[s]
        BY <1>3, RecordsFact
    <2> QED
        BY <2>1, <2>2
<1>4. ASSUME NEW r \in Runs, Finish(r) PROVE StageInv'
    <2>1. Datasets(r) # <<>> /\ Head(Datasets(r)) = "observations"
        BY DatasetsFact
    <2> QED
        BY <1>4, <2>1 DEF Finish
<1>5. ASSUME NEW r \in Runs, Stage(r) PROVE StageInv'
    <2>1. todo[r] # <<>> /\ (Len(todo[r]) # 1 => Tail(todo[r]) # <<>>)
        BY <1>5, <1>r DEF Stage
    <2>2. /\ staged' = staged \cup {<<Head(todo[r]), r>>} /\ UNCHANGED row
          /\ todo' = [todo EXCEPT ![r] = Tail(@)] /\ pc[r] = "staging"
          /\ pc' = IF Len(todo[r]) = 1 THEN [pc EXCEPT ![r] = "done"] ELSE pc
        BY <1>5 DEF Stage
    <2> HIDE <1>5
    <2>3. ASSUME NEW s \in Runs, s # r
          PROVE  /\ pc'[s] = pc[s] /\ todo'[s] = todo[s]
                 /\ \A d : <<d, s>> \in staged' <=> <<d, s>> \in staged
        BY <2>2, <2>3
    <2>4. pc'[r] \in After /\ (pc'[r] = "staging" => todo'[r] # <<>>)
        BY <2>1, <2>2
    <2>5. <<"observations", r>> \in staged \/ Head(todo[r]) = "observations" \/ row[r] = <<>>
        BY <2>2
    <2>6. row'[r] # <<>> => <<"observations", r>> \in staged'
        BY <2>2, <2>5
    <2> QED
        BY <2>2, <2>3, <2>4, <2>6
<1>6. CASE OptOutSubmit \/ UNCHANGED vars
    BY <1>6 DEF OptOutSubmit, vars
<1> QED
    BY <1>1, <1>2, <1>3, <1>4, <1>5, <1>6 DEF Next, Records, Terminated

LEMMA IndexStep == ASSUME IInv, [Next]_vars PROVE IndexInv'
<1>0. TypeInv /\ PhaseInv /\ RowInv /\ IndexInv
    BY DEF IInv
<1> USE <1>0 DEF TypeInv, IndexInv, After, Goto, shared, runVars, Fingerprint
<1>1. ASSUME NEW r \in Runs,
             Begin(r) \/ Rebuild(r) \/ Crash(r) \/ Check(r) \/ Grab(r) \/ Finish(r) \/ Stage(r)
      PROVE  IndexInv'
    <2>1. /\ UNCHANGED <<row, index, version>>
          /\ \A s \in Runs : pc'[s] = "staging" =>
                 pc[s] \in {"staging", "finishing"} \/ row[s] = <<>>
          /\ \A s \in Runs : pc'[s] \in {"finishing", "done"} => pc[s] \in {"finishing", "staging", "done"}
          /\ \A s \in Runs : pc[s] \in {"finishing"} \union After => pc'[s] \in {"finishing"} \union After
          /\ \A s \in Runs : pc[s] = "died" => pc'[s] = "died"
        BY <1>1 DEF Begin, Rebuild, Crash, Check, Grab, Finish, Stage, Ended, PhaseInv, Before
    <2> QED
        BY <2>1
<1>2. ASSUME NEW r \in Runs, Records(r) PROVE IndexInv'
    <2>1. PICK status \in {"grab-failed", "normalize-failed", "success"},
               fp \in {row'[r][1].fingerprint_id} :
              /\ row'[r] = <<Observation(status, fp)>>
              /\ pc' = [pc EXCEPT ![r] = IF status = "success" THEN "claiming" ELSE "finishing"]
        BY <1>2, RecordsFact
    <2>2. /\ pc[r] = "recording" /\ UNCHANGED <<index, version>>
          /\ \A s \in Runs : s # r => row'[s] = row[s]
        BY <1>2, RecordsFact
    <2>3. row'[r][1].status = status
        BY <2>1 DEF Observation
    <2>4. /\ pc'[r] = (IF status = "success" THEN "claiming" ELSE "finishing")
          /\ \A s \in Runs : s # r => pc'[s] = pc[s]
        BY <2>1
    <2>5. \A f \in DOMAIN index : index[f] # r
        BY <2>2
    <2>6. \A s \in Runs :
              row'[s] # <<>> /\ row'[s][1].status = "success"
                  /\ pc'[s] \in {"finishing", "staging", "done"} => Fingerprint(s)' \in DOMAIN index'
        BY <2>2, <2>3, <2>4
    <2>7. \A s \in Runs : version'[s] # <<>> =>
              \E f \in DOMAIN index' : version'[s] = <<f>> /\ index'[f] = s
        BY <2>2
    <2>8. \A f \in DOMAIN index' :
              /\ index'[f] \in Runs
              /\ pc'[index'[f]] \in {"finishing"} \union After
              /\ version'[index'[f]] = <<f>> \/ pc'[index'[f]] = "died"
        BY <2>2, <2>4, <2>5
    <2> QED
        BY <2>6, <2>7, <2>8
<1>3. ASSUME NEW r \in Runs, ClaimWon(r) PROVE IndexInv'
    <2> DEFINE fp == Fingerprint(r)
    <2>1. /\ pc[r] = "claiming" /\ fp \notin DOMAIN index /\ UNCHANGED row
          /\ pc' = [pc EXCEPT ![r] = "finishing"]
          /\ version' = [version EXCEPT ![r] = <<fp>>]
          /\ DOMAIN index' = DOMAIN index \cup {fp} /\ index'[fp] = r
          /\ \A f \in DOMAIN index : index'[f] = index[f]
        BY <1>3 DEF ClaimWon, Claimed
    <2>2. \A f \in DOMAIN index : index[f] # r
        BY <2>1
    <2> HIDE DEF fp
    <2>3. fp = row[r][1].fingerprint_id
        BY DEF fp
    <2>4. version'[r] = <<fp>> /\ \A s \in Runs : s # r => version'[s] = version[s] /\ pc'[s] = pc[s]
        BY <2>1
    <2>5. pc'[r] = "finishing"
        BY <2>1
    <2>6. \A s \in Runs : version'[s] # <<>> =>
              \E f \in DOMAIN index' : version'[s] = <<f>> /\ index'[f] = s
        <3>1. ASSUME NEW s \in Runs, s # r, version'[s] # <<>>
              PROVE  \E f \in DOMAIN index' : version'[s] = <<f>> /\ index'[f] = s
            <4>1. version'[s] = version[s]
                BY <3>1, <2>4
            <4>2. PICK f \in DOMAIN index : version[s] = <<f>> /\ index[f] = s
                BY <3>1, <4>1
            <4> QED
                BY <4>1, <4>2, <2>1
        <3>2. \E f \in DOMAIN index' : version'[r] = <<f>> /\ index'[f] = r
            BY <2>1, <2>4
        <3> QED
            BY ONLY <3>1, <3>2
    <2>7. \A f \in DOMAIN index' :
              /\ index'[f] \in Runs
              /\ pc'[index'[f]] \in {"finishing"} \union After
              /\ version'[index'[f]] = <<f>> \/ pc'[index'[f]] = "died"
        <3>1. ASSUME NEW f \in DOMAIN index
              PROVE  /\ index'[f] \in Runs
                     /\ pc'[index'[f]] \in {"finishing"} \union After
                     /\ version'[index'[f]] = <<f>> \/ pc'[index'[f]] = "died"
            <4>1. index'[f] = index[f] /\ index[f] \in Runs /\ index[f] # r
                BY <2>1, <2>2
            <4>2. version'[index[f]] = version[index[f]] /\ pc'[index[f]] = pc[index[f]]
                BY <4>1, <2>4
            <4>3. /\ pc[index[f]] \in {"finishing"} \union After
                  /\ version[index[f]] = <<f>> \/ pc[index[f]] = "died"
                OBVIOUS
            <4> QED
                BY <4>1, <4>2, <4>3
        <3> QED
            BY <3>1, <2>1, <2>4, <2>5
    <2>8. \A s \in Runs :
              row'[s] # <<>> /\ row'[s][1].status = "success"
                  /\ pc'[s] \in {"finishing", "staging", "done"} => Fingerprint(s)' \in DOMAIN index'
        BY <2>1, <2>3, <2>4
    <2> QED
        BY <2>6, <2>7, <2>8
<1>4. ASSUME NEW r \in Runs, ClaimLost(r) PROVE IndexInv'
    BY <1>4 DEF ClaimLost
<1>5. ASSUME NEW r \in Runs, ClaimRaises(r) PROVE IndexInv'
    <2> DEFINE fp == Fingerprint(r)
    <2>1. /\ pc[r] = "claiming" /\ UNCHANGED <<row, version>>
          /\ pc' = [pc EXCEPT ![r] = "died"]
          /\ \/ UNCHANGED index
             \/ /\ fp \notin DOMAIN index
                /\ DOMAIN index' = DOMAIN index \cup {fp} /\ index'[fp] = r
                /\ \A f \in DOMAIN index : index'[f] = index[f]
        BY <1>5 DEF ClaimRaises, Claimed
    <2>2. \A f \in DOMAIN index : index[f] # r
        BY <2>1
    <2> HIDE DEF fp
    <2>3. pc'[r] = "died" /\ \A s \in Runs : s # r => pc'[s] = pc[s]
        BY <2>1
    <2>4. \A s \in Runs : version'[s] # <<>> =>
              \E f \in DOMAIN index' : version'[s] = <<f>> /\ index'[f] = s
        BY <2>1
    <2>5. ASSUME NEW f \in DOMAIN index, index'[f] = index[f]
          PROVE  /\ index'[f] \in Runs
                 /\ pc'[index'[f]] \in {"finishing"} \union After
                 /\ version'[index'[f]] = <<f>> \/ pc'[index'[f]] = "died"
        <3>1. index'[f] \in Runs /\ index'[f] # r
            BY <2>2, <2>5
        <3>2. /\ pc[index[f]] \in {"finishing"} \union After
              /\ version[index[f]] = <<f>> \/ pc[index[f]] = "died"
            OBVIOUS
        <3>3. pc'[index'[f]] = pc[index[f]] /\ version'[index'[f]] = version[index[f]]
            BY <2>1, <2>3, <2>5, <3>1
        <3> QED
            BY ONLY <3>1, <3>2, <3>3
    <2>6. \A f \in DOMAIN index' :
              /\ index'[f] \in Runs
              /\ pc'[index'[f]] \in {"finishing"} \union After
              /\ version'[index'[f]] = <<f>> \/ pc'[index'[f]] = "died"
        <3>1. CASE UNCHANGED index
            BY <2>5, <3>1
        <3>2. CASE ~UNCHANGED index
            <4>1. DOMAIN index' = DOMAIN index \cup {fp} /\ index'[fp] = r
                  /\ \A f \in DOMAIN index : index'[f] = index[f]
                BY <2>1, <3>2
            <4> QED
                BY <4>1, <2>3, <2>5
        <3> QED
            BY <3>1, <3>2
    <2>7. \A s \in Runs :
              row'[s] # <<>> /\ row'[s][1].status = "success"
                  /\ pc'[s] \in {"finishing", "staging", "done"} => Fingerprint(s)' \in DOMAIN index'
        BY <2>1, <2>3
    <2> QED
        BY <2>4, <2>6, <2>7
<1>6. CASE OptOutSubmit \/ UNCHANGED vars
    BY <1>6 DEF OptOutSubmit, vars
<1> QED
    BY <1>1, <1>2, <1>3, <1>4, <1>5, <1>6 DEF Next, Records, Terminated

(* What one run still owes, in terms of what it has staged and has to. *)
Owes(r) == version[r] # <<>> /\ pc[r] \in {"staging", "done"} =>
    \A d \in {"versions", world.protocol} :
        <<d, r>> \in staged \/ (pc[r] = "staging" /\ \E i \in DOMAIN todo[r] : todo[r][i] = d)

LEMMA OwedStep == ASSUME IInv, [Next]_vars PROVE OwedInv'
<1>0. TypeInv /\ PhaseInv /\ StageInv /\ OwedInv
    BY DEF IInv
<1>e. OwedInv' <=> \A r \in Runs : Owes(r)'
    BY DEF OwedInv, Owes
<1>o. \A r \in Runs : Owes(r)
    BY <1>0 DEF OwedInv, Owes
<1>t. pc = [r \in Runs |-> pc[r]] /\ todo = [r \in Runs |-> todo[r]] /\ version = [r \in Runs |-> version[r]]
    BY <1>0 DEF TypeInv
<1> USE DEF Goto, shared, runVars
<1>1. ASSUME NEW r \in Runs,
             Begin(r) \/ Rebuild(r) \/ Crash(r) \/ Grab(r) \/ ClaimWon(r) \/ ClaimLost(r)
             \/ ClaimRaises(r)
      PROVE  OwedInv'
    <2>1. /\ UNCHANGED <<staged, todo, world>>
          /\ \A s \in Runs : pc'[s] \in {"staging", "done"} => pc[s] = pc'[s] /\ version'[s] = version[s]
        BY <1>1, <1>t DEF Begin, Rebuild, Crash, Grab, ClaimWon, ClaimLost, ClaimRaises, Ended
    <2> QED
        BY <1>e, <1>o, <2>1 DEF Owes
<1>2. ASSUME NEW r \in Runs, Check(r) PROVE OwedInv'
    <2>1. version[r] = <<>>
        BY <1>0, <1>2 DEF Check, PhaseInv, Before
    <2>2. /\ UNCHANGED <<staged, version, world>>
          /\ \A s \in Runs : s # r => pc'[s] = pc[s] /\ todo'[s] = todo[s]
        BY <1>2, <1>t DEF Check
    <2> QED
        BY <1>e, <1>o, <2>1, <2>2 DEF Owes
<1>3. ASSUME NEW r \in Runs, Records(r) PROVE OwedInv'
    <2>1. PICK status :
              pc' = [pc EXCEPT ![r] = IF status = "success" THEN "claiming" ELSE "finishing"]
        BY <1>3, RecordsFact
    <2>2. UNCHANGED <<staged, todo, version, world>>
        BY <1>3, RecordsFact
    <2> QED
        BY <1>e, <1>o, <1>t, <2>1, <2>2 DEF Owes
<1>4. ASSUME NEW r \in Runs, Finish(r) PROVE OwedInv'
    <2>1. version[r] # <<>> => \A d \in {"versions", world.protocol} :
              \E i \in DOMAIN Datasets(r) : Datasets(r)[i] = d
        BY <1>0, DatasetsFact
    <2>2. /\ UNCHANGED <<staged, version, world>>
          /\ pc'[r] = "staging" /\ todo'[r] = Datasets(r)
          /\ \A s \in Runs : s # r => pc'[s] = pc[s] /\ todo'[s] = todo[s]
        BY <1>4, <1>t DEF Finish
    <2>3. Owes(r)'
        BY <2>1, <2>2 DEF Owes
    <2>4. ASSUME NEW s \in Runs, s # r PROVE Owes(s)'
        <3>1. Owes(s) /\ pc'[s] = pc[s] /\ todo'[s] = todo[s]
            BY <1>o, <2>2, <2>4
        <3>2. UNCHANGED <<staged, version, world>>
            BY <2>2
        <3> QED
            BY <3>1, <3>2 DEF Owes
    <2> QED
        BY <1>e, <2>3, <2>4
<1>5. ASSUME NEW r \in Runs, Stage(r) PROVE OwedInv'
    <2>1. \A i \in DOMAIN todo[r] :
              \/ todo[r][i] = Head(todo[r])
              \/ /\ Len(todo[r]) # 1
                 /\ i - 1 \in DOMAIN Tail(todo[r]) /\ Tail(todo[r])[i - 1] = todo[r][i]
        BY <1>0, <1>5, Rest DEF Stage
    <2>2. /\ UNCHANGED <<version, world>> /\ pc[r] = "staging"
          /\ staged' = staged \cup {<<Head(todo[r]), r>>} /\ todo'[r] = Tail(todo[r])
          /\ Len(todo[r]) # 1 => pc'[r] = "staging"
          /\ \A s \in Runs : s # r => pc'[s] = pc[s] /\ todo'[s] = todo[s]
        BY <1>5, <1>t DEF Stage
    <2>3. ASSUME NEW d, NEW i \in DOMAIN todo[r], todo[r][i] = d
          PROVE  \/ <<d, r>> \in staged'
                 \/ pc'[r] = "staging" /\ \E j \in DOMAIN todo'[r] : todo'[r][j] = d
        BY <2>1, <2>2, <2>3
    <2>4. Owes(r)'
        <3> SUFFICES ASSUME version'[r] # <<>>, NEW d \in {"versions", world.protocol}
                     PROVE  \/ <<d, r>> \in staged'
                            \/ pc'[r] = "staging" /\ \E j \in DOMAIN todo'[r] : todo'[r][j] = d
            BY <2>2 DEF Owes
        <3>1. <<d, r>> \in staged \/ \E i \in DOMAIN todo[r] : todo[r][i] = d
            <4>1. Owes(r) /\ version[r] # <<>> /\ pc[r] = "staging"
                BY <1>o, <2>2
            <4>2. d \in {"versions", world.protocol}
                BY <2>2
            <4> QED
                BY <4>1, <4>2 DEF Owes
        <3> QED
            BY <2>2, <2>3, <3>1
    <2>5. ASSUME NEW s \in Runs, s # r PROVE Owes(s)'
        <3>1. Owes(s) /\ pc'[s] = pc[s] /\ todo'[s] = todo[s]
            BY <1>o, <2>2, <2>5
        <3>2. UNCHANGED <<version, world>> /\ \A d : <<d, s>> \in staged => <<d, s>> \in staged'
            BY <2>2
        <3> QED
            BY <3>1, <3>2 DEF Owes
    <2> QED
        BY <1>e, <2>4, <2>5
<1>6. CASE OptOutSubmit \/ UNCHANGED vars
    <2>1. UNCHANGED <<staged, todo, version, world, pc>>
        BY <1>6 DEF OptOutSubmit, vars
    <2> QED
        BY <1>e, <1>o, <2>1 DEF Owes
<1> QED
    BY <1>1, <1>2, <1>3, <1>4, <1>5, <1>6 DEF Next, Records, Terminated

(* What the metadata row of one run is backed by. *)
Backed(r) ==
    /\ responsive[r] = Worked(r)
    /\ responsive[r] = Cardinality({i \in DOMAIN row[r] : row[r][i].status # "grab-failed"})
    /\ IF grabbed[r] = Unasked THEN row[r] = <<>>
       ELSE <<"observations", r>> \in staged /\ Len(row[r]) = attempted[r]

(* A run that stages more than its observations has all that backs them. *)
LEMMA BackedAtStaging ==
    ASSUME TypeInv, PhaseInv, RowInv, NEW r \in Runs, pc[r] = "staging",
           row[r] # <<>> => <<"observations", r>> \in staged
    PROVE  Backed(r)
<1>1. CASE row[r] = <<>>
    <2>1. grabbed[r] = Unasked /\ responsive[r] = 0 /\ Worked(r) = 0
        BY <1>1 DEF PhaseInv, Unasked, Worked
    <2>2. {i \in DOMAIN row[r] : row[r][i].status # "grab-failed"} = {}
        BY <1>1
    <2> QED
        BY <1>1, <2>1, <2>2, FS_EmptySet DEF Backed
<1>2. CASE row[r] # <<>>
    <2>1. PICK status, fp : /\ row[r] = <<Observation(status, fp)>>
                            /\ grabbed[r] # Unasked
                            /\ responsive[r] = Worked(r)
                            /\ status = "grab-failed" <=> Worked(r) = 0
        BY <1>2 DEF RowInv
    <2>2. attempted[r] = 1 /\ Worked(r) \in {0, 1}
        BY <2>1 DEF PhaseInv, Worked
    <2>3. Len(row[r]) = 1 /\ DOMAIN row[r] = {1} /\ row[r][1].status = status
        <3>1. Len(<<Observation(status, fp)>>) = 1 /\ DOMAIN <<Observation(status, fp)>> = {1}
                  /\ <<Observation(status, fp)>>[1] = Observation(status, fp)
            OBVIOUS
        <3> QED
            BY <2>1, <3>1 DEF Observation
    <2>4. {i \in DOMAIN row[r] : row[r][i].status # "grab-failed"} =
              IF Worked(r) = 0 THEN {} ELSE {1}
        BY <2>1, <2>3
    <2>5. Cardinality({}) = 0 /\ Cardinality({1}) = 1
        BY FS_EmptySet, FS_Singleton
    <2> QED
        BY <1>2, <2>1, <2>2, <2>3, <2>4, <2>5 DEF Backed
<1> QED
    BY <1>1, <1>2

LEMMA MetadataStep == ASSUME IInv, [Next]_vars PROVE MetadataBacked'
<1>0. TypeInv /\ PhaseInv /\ RowInv /\ StageInv /\ MetadataBacked
    BY DEF IInv
<1>e. MetadataBacked' <=> \A r \in Runs : <<"scan_metadata", r>> \in staged' => Backed(r)'
    BY DEF MetadataBacked, Backed, Worked
<1>o. \A r \in Runs : <<"scan_metadata", r>> \in staged => Backed(r) /\ pc[r] \in After
    BY <1>0 DEF MetadataBacked, Backed, Worked, StageInv, Names
<1>t. pc = [r \in Runs |-> pc[r]] /\ attempted = [r \in Runs |-> attempted[r]]
          /\ grabbed = [r \in Runs |-> grabbed[r]]
    BY <1>0 DEF TypeInv
<1>1. ASSUME staged' = staged,
             \A s \in Runs : pc[s] \in After =>
                 /\ responsive'[s] = responsive[s] /\ row'[s] = row[s]
                 /\ grabbed'[s] = grabbed[s] /\ attempted'[s] = attempted[s]
      PROVE  MetadataBacked'
    <2>1. ASSUME NEW s \in Runs, Backed(s), pc[s] \in After PROVE Backed(s)'
        BY <1>1, <2>1 DEF Backed, Worked
    <2> QED
        BY <1>e, <1>o, <1>1, <2>1
<1> USE DEF Goto, shared, runVars
<1>2. ASSUME NEW r \in Runs,
             Begin(r) \/ Rebuild(r) \/ Crash(r) \/ ClaimWon(r) \/ ClaimLost(r) \/ ClaimRaises(r)
             \/ Finish(r)
      PROVE  MetadataBacked'
    BY <1>1, <1>2 DEF Begin, Rebuild, Crash, ClaimWon, ClaimLost, ClaimRaises, Finish
<1>3. ASSUME NEW r \in Runs, Check(r) \/ Grab(r) PROVE MetadataBacked'
    BY <1>1, <1>3, <1>t DEF Check, Grab, After
<1>4. ASSUME NEW r \in Runs, Records(r) PROVE MetadataBacked'
    <2>1. /\ pc[r] \notin After /\ UNCHANGED <<staged, grabbed, attempted>>
          /\ \A s \in Runs : s # r => row'[s] = row[s] /\ responsive'[s] = responsive[s]
        BY <1>4, RecordsFact DEF After
    <2> QED
        BY <1>1, <2>1
<1>5. ASSUME NEW r \in Runs, Stage(r) PROVE MetadataBacked'
    <2>1. /\ UNCHANGED <<row, grabbed, responsive, attempted>> /\ pc[r] = "staging"
          /\ staged' = staged \cup {<<Head(todo[r]), r>>}
        BY <1>5 DEF Stage
    <2>2. ASSUME NEW s \in Runs, Backed(s) PROVE Backed(s)'
        BY <2>1, <2>2 DEF Backed, Worked
    <2>3. ASSUME Head(todo[r]) = "scan_metadata" PROVE Backed(r)
        <3>1. row[r] # <<>> => <<"observations", r>> \in staged
            BY <1>0, <2>1, <2>3 DEF StageInv
        <3> QED
            BY <1>0, <2>1, <3>1, BackedAtStaging
    <2>4. ASSUME NEW s \in Runs, <<"scan_metadata", s>> \in staged' PROVE Backed(s)
        BY <1>o, <2>1, <2>3, <2>4
    <2> QED
        BY <1>e, <2>2, <2>4
<1>6. CASE OptOutSubmit \/ UNCHANGED vars
    BY <1>1, <1>6 DEF OptOutSubmit, vars
<1> QED
    BY <1>2, <1>3, <1>4, <1>5, <1>6 DEF Next, Records, Terminated

-----------------------------------------------------------------------------
(* Type correctness, and what a run has done by the time it is where it    *)
(* is: the invariant the theorems below rest on.                           *)
THEOREM Inductive == Spec => []IInv
<1>1. Init => IInv
    BY TypeInit, PhaseInit DEF IInv
<1>2. IInv /\ [Next]_vars => IInv'
    BY TypeStep, PhaseStep, RowStep, StageStep, IndexStep, OwedStep, MetadataStep DEF IInv
<1> QED
    BY <1>1, <1>2, PTL DEF Spec

(* However many runs meet a new fingerprint at once, one version row at    *)
(* most is staged for it in each dataset: the index names the one run that *)
(* may have it.                                                            *)
THEOREM OneRow == Spec => []VersionRowOnce
<1>1. IInv => VersionRowOnce
    <2> SUFFICES ASSUME IInv, NEW fp \in DOMAIN index, NEW dataset \in {"versions", world.protocol}
                 PROVE  Cardinality(VersionRows(fp, dataset)) <= 1
        BY DEF VersionRowOnce
    <2>1. VersionRows(fp, dataset) \subseteq {index[fp]}
        <3>1. ASSUME NEW r \in Runs, version[r] = <<fp>> PROVE r = index[fp]
            <4>1. PICK f \in DOMAIN index : version[r] = <<f>> /\ index[f] = r
                BY <3>1 DEF IInv, IndexInv
            <4>2. f = fp
                <5>1. <<f>>[1] = f /\ <<fp>>[1] = fp
                    OBVIOUS
                <5> QED
                    BY <3>1, <4>1, <5>1
            <4> QED
                BY <4>1, <4>2
        <3> QED
            BY <3>1 DEF VersionRows
    <2>2. IsFiniteSet({index[fp]}) /\ Cardinality({index[fp]}) = 1
        BY FS_Singleton
    <2> QED
        BY <2>1, <2>2, FS_Subset
<1> QED
    BY <1>1, Inductive, PTL

(* A fingerprint that a finished run observed is in the index, and the run *)
(* that claimed it has staged its version row in both datasets, if it      *)
(* finished: a crash is the one way to lose the row.                       *)
THEOREM Owed == Spec => []VersionOwed
<1>1. IInv => VersionOwed
    <2> SUFFICES ASSUME IInv, NEW r \in Recorded, pc[r] = "done"
                 PROVE  /\ Fingerprint(r) \in DOMAIN index
                        /\ pc[index[Fingerprint(r)]] = "done" =>
                               {<<"versions", index[Fingerprint(r)]>>,
                                <<world.protocol, index[Fingerprint(r)]>>} \subseteq staged
        BY DEF VersionOwed
    <2> DEFINE owner == index[Fingerprint(r)]
    <2>1. r \in Runs /\ Fingerprint(r) \in DOMAIN index
        BY DEF Recorded, IInv, IndexInv
    <2>2. owner \in Runs /\ (pc[owner] = "done" => version[owner] # <<>>)
        BY <2>1 DEF IInv, IndexInv
    <2>3. pc[owner] = "done" =>
              \A d \in {"versions", world.protocol} : <<d, owner>> \in staged
        BY <2>2 DEF IInv, OwedInv
    <2> QED
        BY <2>1, <2>3
<1> QED
    BY <1>1, Inductive, PTL

(* A staged metadata row counts a responsive host exactly if a service     *)
(* answered and a staged observation says so.                              *)
THEOREM Backing == Spec => []MetadataBacked
<1>1. IInv => MetadataBacked
    BY DEF IInv
<1> QED
    BY <1>1, Inductive, PTL

-----------------------------------------------------------------------------
(* Networks: what the list of CIDRs covers. *)

LEMMA PowerOfTwo == ASSUME NEW k \in Nat PROVE 2 ^ k \in Nat \ {0}
<1>1. IsFiniteSet(1 .. k) /\ Cardinality(1 .. k) = k
    BY FS_Interval
<1>2. IsFiniteSet(SUBSET (1 .. k)) /\ Cardinality(SUBSET (1 .. k)) = 2 ^ k
    BY <1>1, FS_SUBSET
<1>3. SUBSET (1 .. k) # {}
    OBVIOUS
<1> QED
    BY <1>2, <1>3, FS_CardinalityType, FS_EmptySet

LEMMA Least == ASSUME NEW T \in SUBSET Nat, T # {} PROVE \E x \in T : \A y \in T : x <= y
<1> DEFINE Less == {p \in Nat \X Nat : p[1] < p[2]}
<1>1. IsWellFoundedOn(Less, Nat)
    BY NatLessThanWellFounded DEF OpToRel
<1>2. PICK x \in T : \A y \in T : <<y, x>> \notin Less
    BY <1>1, WFMin
<1>3. ASSUME NEW y \in T PROVE x <= y
    <2>1. x \in Nat /\ y \in Nat /\ ~(y < x)
        BY <1>2
    <2> QED
        BY <2>1
<1> QED
    BY <1>3

LEMMA SizeFact == ASSUME NEW len \in 0 .. Width PROVE Size(len) \in Nat \ {0}
<1>1. Width - len \in Nat
    BY TargetedAssumption
<1> QED
    BY <1>1, PowerOfTwo DEF Size

(* An address is a network of its own. *)
LEMMA Single ==
    ASSUME NEW a \in Addresses
    PROVE  /\ [base |-> a, len |-> Width] \in Networks
           /\ Members([base |-> a, len |-> Width]) = {a}
<1>1. Width \in 0 .. Width /\ Width - Width = 0 /\ Size(Width) = 1 /\ a \in Nat
    BY TargetedAssumption DEF Size, Addresses
<1>2. a % 1 = 0 /\ a .. a + 1 - 1 = {a}
    BY <1>1
<1> QED
    BY <1>1, <1>2 DEF Networks, Members

(* The summary of a set covers the set and nothing else. *)
LEMMA SummarizeFact ==
    ASSUME NEW S, NEW a \in Addresses
    PROVE  (\E n \in Summarize(S) : a \in Members(n)) <=> a \in S
<1> DEFINE inside == {n \in Networks : Members(n) \subseteq S}
<1>1. ASSUME NEW n \in Summarize(S), a \in Members(n) PROVE a \in S
    BY <1>1 DEF Summarize
<1>2. ASSUME a \in S PROVE \E n \in Summarize(S) : a \in Members(n)
    <2> DEFINE Lens == {n.len : n \in {m \in inside : a \in Members(m)}}
    <2>1. [base |-> a, len |-> Width] \in {m \in inside : a \in Members(m)}
        BY <1>2, Single
    <2>2. Lens # {} /\ Lens \subseteq Nat
        BY <2>1, TargetedAssumption DEF Networks
    <2>3. PICK least \in Lens : \A len \in Lens : least <= len
        BY <2>2, Least
    <2>4. PICK n \in inside : a \in Members(n) /\ n.len = least
        OBVIOUS
    <2>5. ASSUME NEW m \in inside, m.len < n.len, Members(n) \subseteq Members(m) PROVE FALSE
        <3>1. m.len \in Lens
            BY <2>4, <2>5
        <3>2. least <= m.len /\ m.len \in Nat /\ least \in Nat
            BY <2>2, <2>3, <3>1
        <3> QED
            BY <2>4, <2>5, <3>2
    <2> QED
        BY <2>4, <2>5 DEF Summarize
<1> QED
    BY <1>1, <1>2

(* A parsed entry covers the addresses that share its prefix. *)
LEMMA ParseFact ==
    ASSUME NEW entries, NEW a \in Addresses
    PROVE  (\E n \in Parse(entries) : a \in Members(n)) <=>
               \E e \in entries : /\ e[1] \in Addresses /\ e[2] \in 0 .. Width
                                  /\ a \div Size(e[2]) = e[1] \div Size(e[2])
<1>1. ASSUME NEW b \in Addresses, NEW len \in 0 .. Width
      PROVE  a \in Members([base |-> b - (b % Size(len)), len |-> len]) <=>
                 a \div Size(len) = b \div Size(len)
    <2>1. a \in Int /\ b \in Int /\ Size(len) \in Nat /\ Size(len) > 0
        BY SizeFact DEF Addresses
    <2>2. ASSUME NEW x \in Int, NEW y \in Int, NEW n \in Nat, n > 0
          PROVE  (x \div n = y \div n) <=> (y - (y % n) <= x /\ x <= y - (y % n) + n - 1)
        BY <2>2
    <2>3. Members([base |-> b - (b % Size(len)), len |-> len]) =
              b - (b % Size(len)) .. b - (b % Size(len)) + Size(len) - 1
        BY DEF Members
    <2>4. b - (b % Size(len)) \in Int
        BY <2>1
    <2> QED
        BY <2>1, <2>2, <2>3, <2>4
<1>2. Parse(entries) = {[base |-> e[1] - (e[1] % Size(e[2])), len |-> e[2]] :
                            e \in {x \in entries : x[1] \in Addresses /\ x[2] \in 0 .. Width}}
    BY DEF Parse
<1> QED
    BY <1>1, <1>2

(* The list that a run rebuilds from the layers as they are. *)
Exclusions == BuildBlocklist(register \cup (world.known \X {Width}),
                             ParseDelegatedStats(world.delegated))

Delegated(a) == \E d \in world.delegated :
    /\ d.wanted /\ d.type = "ipv4" /\ d.start + d.value <= 2 ^ Width
    /\ d.start <= a /\ a < d.start + d.value

LEMMA DelegatedFact ==
    ASSUME world \in Worlds, NEW a \in Addresses
    PROVE  (\E n \in ParseDelegatedStats(world.delegated) : a \in Members(n)) <=> Delegated(a)
<1> DEFINE wanted == {d \in world.delegated : d.wanted /\ d.type = "ipv4"}
<1>1. ASSUME NEW d \in wanted
      PROVE  (\E n \in RangeToCidrs(d.start, d.value) : a \in Members(n)) <=>
                 /\ d.start + d.value <= 2 ^ Width
                 /\ d.start <= a /\ a < d.start + d.value
    <2>1. d.start \in Int /\ d.value \in Nat /\ a \in Int
        BY TargetedAssumption DEF WorldOK, Addresses
    <2>2. CASE d.value > 0 /\ d.start + d.value <= 2 ^ Width
        <3>1. RangeToCidrs(d.start, d.value) = Summarize(d.start .. d.start + d.value - 1)
            BY <2>2 DEF RangeToCidrs
        <3>2. a \in d.start .. d.start + d.value - 1 <=> d.start <= a /\ a < d.start + d.value
            BY <2>1
        <3>3. (\E n \in Summarize(d.start .. d.start + d.value - 1) : a \in Members(n)) <=>
                  a \in d.start .. d.start + d.value - 1
            BY SummarizeFact
        <3> QED
            BY <2>2, <3>1, <3>2, <3>3
    <2>3. CASE ~(d.value > 0 /\ d.start + d.value <= 2 ^ Width)
        <3>1. RangeToCidrs(d.start, d.value) = {}
            BY <2>3 DEF RangeToCidrs
        <3> QED
            BY <2>1, <2>3, <3>1
    <2> QED
        BY <2>2, <2>3
<1>2. ParseDelegatedStats(world.delegated) = UNION {RangeToCidrs(d.start, d.value) : d \in wanted}
    BY DEF ParseDelegatedStats
<1> QED
    BY <1>1, <1>2 DEF Delegated

OptedOut(a) == \E e \in register : a \div Size(e[2]) = e[1] \div Size(e[2])

LEMMA ExclusionsFact ==
    ASSUME world \in Worlds, register \subseteq Addresses \X (0 .. Width), NEW ip
    PROVE  IsBlocked(ip, Exclusions) <=> ip \notin Addresses \ Protected
<1> SUFFICES ASSUME ip \in Addresses
             PROVE  (\E n \in Exclusions : ip \in Members(n)) <=> ip \in Protected
    BY DEF IsBlocked
<1> DEFINE entries == register \cup (world.known \X {Width})
           ranges == ParseDelegatedStats(world.delegated)
<1>1. (\E n \in Exclusions : ip \in Members(n)) <=>
          \E n \in Bogons \cup Parse(entries) \cup ranges : ip \in Members(n)
    <2> DEFINE all == UNION {Members(n) : n \in Bogons \cup Parse(entries) \cup ranges}
    <2>1. Exclusions = Summarize(all)
        BY DEF Exclusions, BuildBlocklist
    <2>2. (\E n \in Summarize(all) : ip \in Members(n)) <=> ip \in all
        BY SummarizeFact
    <2>3. ip \in all <=> \E n \in Bogons \cup Parse(entries) \cup ranges : ip \in Members(n)
        OBVIOUS
    <2> QED
        BY <2>1, <2>2, <2>3
<1>2. world.known \subseteq Addresses
    BY TargetedAssumption DEF WorldOK
<1>3. ip \div Size(Width) = ip /\ \A a \in world.known : a \div Size(Width) = a
    <2>1. Size(Width) = 1
        BY TargetedAssumption DEF Size
    <2>2. \A a \in Addresses : a \div 1 = a
        BY DEF Addresses
    <2> QED
        BY <1>2, <2>1, <2>2
<1>4. (\E n \in Parse(entries) : ip \in Members(n)) <=> OptedOut(ip) \/ ip \in world.known
    <2>1. Width \in 0 .. Width
        BY TargetedAssumption
    <2>2. (\E e \in entries : /\ e[1] \in Addresses /\ e[2] \in 0 .. Width
                              /\ ip \div Size(e[2]) = e[1] \div Size(e[2]))
              <=> OptedOut(ip) \/ ip \in world.known
        <3>1. ASSUME NEW e \in world.known \X {Width}
              PROVE  /\ e[1] \in world.known /\ e[1] \in Addresses /\ e[2] = Width
                     /\ e[1] \div Size(Width) = e[1]
            BY <1>2, <1>3
        <3>2. ASSUME NEW e \in register PROVE e[1] \in Addresses /\ e[2] \in 0 .. Width
            OBVIOUS
        <3>3. ASSUME ip \in world.known
              PROVE  <<ip, Width>> \in entries /\ <<ip, Width>>[1] = ip /\ <<ip, Width>>[2] = Width
            BY <3>3
        <3> HIDE DEF entries
        <3>4. \A e : e \in entries <=> e \in register \/ e \in world.known \X {Width}
            BY DEF entries
        <3>5. ASSUME NEW e \in entries, ip \div Size(e[2]) = e[1] \div Size(e[2])
              PROVE  OptedOut(ip) \/ ip \in world.known
            BY <1>3, <3>1, <3>4, <3>5 DEF OptedOut
        <3>6. ASSUME OptedOut(ip)
              PROVE  \E e \in entries : /\ e[1] \in Addresses /\ e[2] \in 0 .. Width
                                        /\ ip \div Size(e[2]) = e[1] \div Size(e[2])
            BY <3>2, <3>4, <3>6 DEF OptedOut
        <3> QED
            BY <2>1, <3>3, <3>5, <3>6
    <2> QED
        BY <2>2, ParseFact
<1>5. ip \in Protected <=>
          Delegated(ip) \/ OptedOut(ip) \/ ip \in world.known \/ \E n \in Bogons : ip \in Members(n)
    BY DEF Protected, Delegated, OptedOut
<1>6. (\E n \in ranges : ip \in Members(n)) <=> Delegated(ip)
    BY DelegatedFact
<1> QED
    BY <1>1, <1>4, <1>5, <1>6

-----------------------------------------------------------------------------
(* Every run looks its target up in the list that the layers call for, and *)
(* what it has decided stays right: nobody opts out while a run goes on.   *)
BlockInv ==
    /\ register \subseteq Addresses \X (0 .. Width)
    /\ target = [r \in Runs |-> target[r]]
    /\ \A r \in Runs :
           /\ pc[r] = "checking" => file = Exclusions
           /\ pc[r] = "grabbing" \/ grabbed[r] # Unasked => target[r] \in Addresses \ Protected
           /\ pc[r] \in {"staging", "done"} /\ grabbed[r] = Unasked =>
                  target[r] \notin Addresses \ Protected

LEMMA BlockStep == ASSUME IInv, BlockInv, [Next]_vars PROVE BlockInv'
<1>0. TypeInv /\ PhaseInv
    BY DEF IInv
<1>t. /\ pc = [r \in Runs |-> pc[r]] /\ target = [r \in Runs |-> target[r]]
      /\ grabbed = [r \in Runs |-> grabbed[r]] /\ world \in Worlds
    BY <1>0 DEF TypeInv, BlockInv
<1>p. ASSUME UNCHANGED <<world, register>> PROVE UNCHANGED <<Protected, Exclusions>>
    BY <1>p DEF Protected, Exclusions
<1> USE DEF Goto, shared, runVars
<1>1. ASSUME NEW r \in Runs, Begin(r) PROVE BlockInv'
    <2>1. UNCHANGED <<world, register, file, grabbed>> /\ pc[r] = "idle" /\ grabbed[r] = Unasked
        BY <1>0, <1>1 DEF Begin, PhaseInv, Before
    <2>2. pc'[r] \in {"rebuilding", "refused"} /\ \A s \in Runs : s # r => pc'[s] = pc[s] /\ target'[s] = target[s]
        BY <1>1, <1>t DEF Begin
    <2>3. target' = [s \in Runs |-> target'[s]]
        BY <1>1, <1>t DEF Begin
    <2> QED
        BY <1>p, <2>1, <2>2, <2>3 DEF BlockInv
<1>2. ASSUME NEW r \in Runs, Rebuild(r) PROVE BlockInv'
    <2>1. /\ UNCHANGED <<world, register, grabbed, target>> /\ file' = Exclusions
          /\ pc'[r] = "checking" /\ \A s \in Runs : s # r => pc'[s] = pc[s]
        BY <1>2, <1>t DEF Rebuild, Exclusions
    <2>2. pc[r] = "rebuilding"
        BY <1>2 DEF Rebuild
    <2> QED
        BY <1>p, <2>1, <2>2 DEF BlockInv
<1>3. ASSUME NEW r \in Runs, Check(r) PROVE BlockInv'
    <2>1. /\ UNCHANGED <<world, register, file, grabbed, target>> /\ pc[r] = "checking"
          /\ pc'[r] = IF IsBlocked(target[r], file) THEN "staging" ELSE "grabbing"
          /\ \A s \in Runs : s # r => pc'[s] = pc[s]
        BY <1>3, <1>t DEF Check
    <2>2. file = Exclusions /\ grabbed[r] = Unasked
        BY <1>0, <2>1 DEF BlockInv, PhaseInv, Before
    <2>3. IsBlocked(target[r], file) <=> target[r] \notin Addresses \ Protected
        BY <1>t, <2>2, ExclusionsFact DEF BlockInv
    <2> QED
        BY <1>p, <2>1, <2>2, <2>3 DEF BlockInv
<1>4. ASSUME NEW r \in Runs, Grab(r) PROVE BlockInv'
    <2>1. /\ UNCHANGED <<world, register, file, target>> /\ pc[r] = "grabbing" /\ pc'[r] = "recording"
          /\ \A s \in Runs : s # r => pc'[s] = pc[s] /\ grabbed'[s] = grabbed[s]
        BY <1>4, <1>t DEF Grab
    <2> QED
        BY <1>p, <2>1 DEF BlockInv
<1>5. ASSUME NEW r \in Runs, UNCHANGED <<world, register, file, target, grabbed>>,
             pc[r] \in {"recording", "claiming", "finishing", "staging"} \/ pc'[r] = "died",
             pc'[r] \in {"claiming", "finishing", "staging", "done", "died"},
             \A s \in Runs : s # r => pc'[s] = pc[s]
      PROVE  BlockInv'
    <2>1. pc'[r] \in {"staging", "done"} /\ grabbed[r] = Unasked => pc[r] = "staging"
        BY <1>0, <1>5 DEF PhaseInv
    <2> QED
        BY <1>p, <1>5, <2>1 DEF BlockInv
<1>6. ASSUME NEW r \in Runs, Records(r) PROVE BlockInv'
    <2>1. CASE RecordFailed(r)
        BY <1>5, <1>t, <2>1 DEF RecordFailed
    <2>2. CASE NormalizeRaises(r)
        BY <1>5, <1>t, <2>2 DEF NormalizeRaises
    <2>3. CASE RecordSuccess(r)
        BY <1>5, <1>t, <2>3 DEF RecordSuccess
    <2> QED
        BY <1>6, <2>1, <2>2, <2>3 DEF Records
<1>7. ASSUME NEW r \in Runs, ClaimWon(r) \/ ClaimLost(r) \/ ClaimRaises(r) PROVE BlockInv'
    BY <1>5, <1>7, <1>t DEF ClaimWon, ClaimLost, ClaimRaises
<1>8. ASSUME NEW r \in Runs, Finish(r) \/ Stage(r) \/ Crash(r) PROVE BlockInv'
    BY <1>5, <1>8, <1>t DEF Finish, Stage, Crash
<1>9. CASE OptOutSubmit
    <2>1. register' \subseteq Addresses \X (0 .. Width)
        BY <1>t, <1>9, TargetedAssumption DEF OptOutSubmit, ValidIpOrCidr, WorldOK, BlockInv
    <2>2. UNCHANGED <<pc, target, grabbed>> /\ \A r \in Runs : pc[r] = "idle" /\ grabbed[r] = Unasked
        BY <1>0, <1>9 DEF OptOutSubmit, PhaseInv, Before
    <2> QED
        BY <2>1, <2>2 DEF BlockInv
<1>10. CASE UNCHANGED vars
    BY <1>p, <1>10 DEF BlockInv, vars
<1> QED
    BY <1>1, <1>2, <1>3, <1>4, <1>6, <1>7, <1>8, <1>9, <1>10 DEF Next, Records, Terminated

(* An address is probed exactly if it is one and no layer covers it, for   *)
(* every width of addresses, every range and every prefix: the summary of  *)
(* the layers into CIDRs, and the look-up in it, lose and add nothing.     *)
THEOREM Blocking == Spec => []BlockedExactly
<1>1. Init => BlockInv
    BY DEF Init, BlockInv
<1>2. IInv /\ BlockInv /\ [Next]_vars => BlockInv'
    BY BlockStep
<1>3. BlockInv => BlockedExactly
    BY DEF BlockInv, BlockedExactly
<1> QED
    BY <1>1, <1>2, <1>3, Inductive, PTL DEF Spec

-----------------------------------------------------------------------------
(* The fingerprints. *)

(* Each column of a version is of the type its schema gives it. *)
LEMMA Fitting ==
    ASSUME NEW p \in Protocols, NEW s
    PROVE  /\ DOMAIN Described(p, s) = DOMAIN Schemas[p]
           /\ \A column \in DOMAIN Schemas[p] : Described(p, s)[column].kind \in Fits(Schemas[p][column])
<1>1. /\ Fits("string") = {"none", "text", "json"} /\ Fits("int64") = {"none", "number"}
      /\ Fits("boolean") = {"none", "boolean"}
    BY DEF Fits
<1>2. /\ \A x : Text(x).kind \in Fits("string") /\ Json(x).kind \in Fits("string")
      /\ \A x : Num(x).kind \in Fits("int64") /\ Bool(x).kind \in Fits("boolean")
    BY <1>1 DEF Text, Json, Num, Bool
<1>3. Titled(s).kind \in Fits("string") /\ Leads(s).kind \in Fits("string")
    BY <1>1, <1>2 DEF Titled, Leads, Absent
<1>4. CASE p = "http"
    BY <1>2, <1>3, <1>4 DEF Described, Schemas, HttpVersion
<1>5. CASE p = "https"
    BY <1>2, <1>5 DEF Described, Schemas, TlsVersion
<1>6. CASE p = "ssh"
    BY <1>2, <1>6 DEF Described, Schemas, SshVersion
<1>7. CASE p = "ftp"
    BY <1>2, <1>7 DEF Described, Schemas, FtpVersion
<1>8. CASE p = "telnet"
    BY <1>2, <1>8 DEF Described, Schemas, TelnetVersion
<1>9. CASE p = "smtp"
    BY <1>2, <1>9 DEF Described, Schemas, SmtpVersion
<1> QED
    BY <1>4, <1>5, <1>6, <1>7, <1>8, <1>9 DEF Protocols

(* the version of the service behind the target of a run *)
VersionOf(r) == Described(world.protocol, ServicesOf(world.protocol)[world.variant[target[r]]])

(* A fingerprint is that of the version of the service behind the target. *)
FingerprintInv == \A r \in Recorded :
    target[r] \in Addresses /\ Fingerprint(r) = VersionOf(r)

(* What the fingerprint of an answer says. *)
LEMMA PayloadFact ==
    ASSUME IInv, NEW r \in Runs, grabbed[r] # Unasked, target[r] \in Addresses,
           GrabOne(r) # Absent, grabbed[r].outcome # "odd"
    PROVE  Payload(r) = VersionOf(r)
<1> DEFINE p == world.protocol
           v == world.variant[target[r]]
           n == grabbed[r].grab
<1>1. grabbed[r] \in [outcome : Outcomes, grab : Grabs]
    BY DEF IInv, TypeInv
<1>2. grabbed[r].outcome = "answered" /\ n \in Grabs
    BY <1>1, GrabOneFact DEF Worked
<1>3. GrabOne(r) = Success(p, v, n)
    BY <1>2 DEF GrabOne
<1>4. p \in Protocols /\ v \in Variants(p)
    BY TargetedAssumption DEF IInv, TypeInv, WorldOK
<1>5. NormalizeResult(ModuleOf(p), Success(p, v, n)) = Described(p, ServicesOf(p)[v])
    <2> HIDE DEF p, v, n
    <2> QED
        BY <1>2, <1>4, VersionForm
<1> QED
    BY <1>3, <1>5 DEF Payload, VersionOf

(* No step takes a fingerprint away from the service it describes. *)
LEMMA FingerprintStep == ASSUME IInv, BlockInv, FingerprintInv, [Next]_vars PROVE FingerprintInv'
<1>0. TypeInv /\ PhaseInv /\ row = [r \in Runs |-> row[r]] /\ target = [r \in Runs |-> target[r]]
    BY DEF IInv, TypeInv, BlockInv
<1>s. ASSUME UNCHANGED world, NEW r \in Runs, row'[r] = row[r], target'[r] = target[r] \/ row[r] = <<>>
      PROVE  r \in Recorded' => r \in Recorded /\ target'[r] = target[r]
                                    /\ Fingerprint(r)' = Fingerprint(r) /\ VersionOf(r)' = VersionOf(r)
    BY <1>s DEF Recorded, Fingerprint, VersionOf
<1>k. ASSUME UNCHANGED world, \A r \in Runs : row'[r] = row[r] /\ (target'[r] = target[r] \/ row[r] = <<>>)
      PROVE  FingerprintInv'
    <2> SUFFICES ASSUME NEW r \in Recorded'
                 PROVE  target'[r] \in Addresses /\ Fingerprint(r)' = VersionOf(r)'
        BY DEF FingerprintInv
    <2>1. r \in Runs
        BY DEF Recorded
    <2> QED
        BY <1>k, <1>s, <2>1 DEF FingerprintInv
<1> USE DEF Goto, shared, runVars
<1>1. ASSUME NEW r \in Runs, Begin(r) PROVE FingerprintInv'
    <2>1. UNCHANGED <<world, row>> /\ row[r] = <<>>
        BY <1>0, <1>1 DEF Begin, PhaseInv, Before
    <2>2. \A s \in Runs : s # r => target'[s] = target[s]
        BY <1>0, <1>1 DEF Begin
    <2> QED
        BY <1>k, <2>1, <2>2
<1>2. ASSUME NEW r \in Runs,
             Rebuild(r) \/ Crash(r) \/ Check(r) \/ Grab(r) \/ ClaimWon(r) \/ ClaimLost(r)
             \/ ClaimRaises(r) \/ Finish(r) \/ Stage(r)
      PROVE  FingerprintInv'
    <2>1. UNCHANGED <<world, row, target>>
        BY <1>2 DEF Rebuild, Crash, Check, Grab, ClaimWon, ClaimLost, ClaimRaises, Finish, Stage
    <2> QED
        BY <1>k, <2>1
<1>3. ASSUME NEW r \in Runs, Records(r) PROVE FingerprintInv'
    <2>1. /\ pc[r] = "recording" /\ row[r] = <<>> /\ grabbed[r] # Unasked /\ target[r] \in Addresses
          /\ UNCHANGED <<world, target>>
        <3>1. pc[r] = "recording" /\ UNCHANGED <<world, target>>
            BY <1>3 DEF Records, RecordFailed, NormalizeRaises, RecordSuccess
        <3> QED
            BY <1>0, <3>1 DEF PhaseInv, Before, BlockInv
    <2>2. ASSUME NEW status, NEW fp, Observe(r, status, fp)
          PROVE  /\ \A s \in Runs : s # r => row'[s] = row[s]
                 /\ row'[r][1].status = status /\ Fingerprint(r)' = fp
        <3>1. Append(<<>>, Observation(status, fp)) = <<Observation(status, fp)>>
            OBVIOUS
        <3>2. row' = [row EXCEPT ![r] = <<Observation(status, fp)>>]
            BY <1>0, <2>1, <2>2, <3>1 DEF Observe, Observation
        <3>3. row'[r] = <<Observation(status, fp)>> /\ \A s \in Runs : s # r => row'[s] = row[s]
            BY <1>0, <3>2
        <3> QED
            BY <3>3 DEF Observation, Fingerprint
    <2>3. ASSUME NEW status, NEW fp, Observe(r, status, fp), status = "success" => fp = VersionOf(r)
          PROVE  FingerprintInv'
        <3> SUFFICES ASSUME NEW s \in Recorded'
                     PROVE  target'[s] \in Addresses /\ Fingerprint(s)' = VersionOf(s)'
            BY DEF FingerprintInv
        <3>1. s \in Runs
            BY DEF Recorded
        <3>2. CASE s # r
            <4>1. row'[s] = row[s] /\ target'[s] = target[s] /\ UNCHANGED world
                BY <2>1, <2>2, <2>3, <3>1, <3>2
            <4> QED
                BY <1>s, <3>1, <4>1 DEF FingerprintInv
        <3>3. CASE s = r
            <4>1. row'[r][1].status = status /\ Fingerprint(r)' = fp
                BY <2>2, <2>3
            <4>2. status = "success"
                BY <3>3, <4>1 DEF Recorded
            <4>3. VersionOf(r)' = VersionOf(r)
                BY <2>1 DEF VersionOf
            <4> QED
                BY <2>1, <2>3, <3>3, <4>1, <4>2, <4>3
        <3> QED
            BY <3>2, <3>3
    <2>4. CASE RecordFailed(r)
        <3>1. Observe(r, "grab-failed", Absent)
            BY <2>4 DEF RecordFailed
        <3> QED
            BY <2>3, <3>1
    <2>5. CASE NormalizeRaises(r)
        <3>1. Observe(r, "normalize-failed", Absent)
            BY <2>5 DEF NormalizeRaises
        <3> QED
            BY <2>3, <3>1
    <2>6. CASE RecordSuccess(r)
        <3>1. /\ Observe(r, "success", FingerprintId(Payload(r)))
              /\ GrabOne(r) # Absent /\ grabbed[r].outcome # "odd"
            BY <2>6 DEF RecordSuccess
        <3>2. FingerprintId(Payload(r)) = VersionOf(r)
            BY <2>1, <3>1, PayloadFact DEF FingerprintId
        <3> QED
            BY <2>3, <3>1, <3>2
    <2> QED
        BY <1>3, <2>4, <2>5, <2>6 DEF Records
<1>4. CASE OptOutSubmit \/ UNCHANGED vars
    <2>1. UNCHANGED <<world, row, target>>
        BY <1>4 DEF OptOutSubmit, vars
    <2> QED
        BY <1>k, <2>1
<1> QED
    BY <1>1, <1>2, <1>3, <1>4 DEF Next, Records, Terminated

(* A host has the fingerprint of the service behind its address, from      *)
(* which the three properties of the versions follow.                      *)
THEOREM Fingerprinted == Spec => []FingerprintInv
<1>1. Init => BlockInv /\ FingerprintInv
    BY DEF Init, BlockInv, FingerprintInv, Recorded
<1>2. IInv /\ BlockInv /\ [Next]_vars => BlockInv'
    BY BlockStep
<1>3. IInv /\ BlockInv /\ FingerprintInv /\ [Next]_vars => FingerprintInv'
    BY FingerprintStep
<1> QED
    BY <1>1, <1>2, <1>3, Inductive, PTL DEF Spec

(* A service keeps its fingerprint from grab to grab and from run to run,  *)
(* and no fingerprint is recorded of a host that did not answer: an        *)
(* unchanged host never makes a second version.                            *)
THEOREM Stable == Spec => []OneVersionPerService
<1>1. FingerprintInv => OneVersionPerService
    BY DEF FingerprintInv, OneVersionPerService, SameService, VersionOf
<1> QED
    BY <1>1, Fingerprinted, PTL

(* Two hosts with services that differ never share a fingerprint: a change *)
(* is never taken for a version that is known.                             *)
THEOREM Drift == Spec => []DriftSeen
<1>1. IInv /\ FingerprintInv => DriftSeen
    <2> SUFFICES ASSUME IInv, FingerprintInv, NEW r \in Recorded, NEW s \in Recorded, ~SameService(r, s)
                 PROVE  Fingerprint(r) # Fingerprint(s)
        BY DEF DriftSeen
    <2> DEFINE p == world.protocol
               v == world.variant[target[r]]
               w == world.variant[target[s]]
    <2>1. p \in Protocols /\ v \in Variants(p) /\ w \in Variants(p) /\ v # w
        BY TargetedAssumption DEF IInv, TypeInv, WorldOK, FingerprintInv, SameService
    <2>2. Described(p, ServicesOf(p)[v]) # Described(p, ServicesOf(p)[w])
        <3> HIDE DEF p, v, w
        <3> QED
            BY <2>1, VersionsApart
    <2> QED
        BY <2>2 DEF FingerprintInv, VersionOf
<1> QED
    BY <1>1, Inductive, Fingerprinted, PTL

(* Every version row has the columns of its schema, each of its type.      *)
THEOREM Columns == Spec => []SchemaFits
<1>1. IInv /\ FingerprintInv => SchemaFits
    <2> SUFFICES ASSUME IInv, FingerprintInv, NEW r \in Recorded
                 PROVE  /\ DOMAIN Fingerprint(r) = DOMAIN Schemas[world.protocol]
                        /\ \A column \in DOMAIN Schemas[world.protocol] :
                               Fingerprint(r)[column].kind \in Fits(Schemas[world.protocol][column])
        BY DEF SchemaFits
    <2>1. world.protocol \in Protocols
        BY ProtocolFact DEF IInv, TypeInv
    <2> QED
        BY <2>1, Fitting DEF FingerprintInv, VersionOf
<1> QED
    BY <1>1, Inductive, Fingerprinted, PTL
=============================================================================
