-------------------------- MODULE DiscoveryProofs --------------------------
(***************************************************************************)
(* What TLAPS proves of Discovery for any set of hosts and fingerprints,   *)
(* any pipe capacities and any number of senders.  The grabber's part is   *)
(* taken from its own proofs, step by step: P is Grabber with the lemmas   *)
(* of GrabberProofs, and every step of the run is one of P or none of P's. *)
(***************************************************************************)
EXTENDS Discovery, SequenceTheorems, TLAPS

P == INSTANCE GrabberProofs

LEMMA GrabberAssumes == P!CapAssumption /\ P!ToggleAssumption /\ P!DataAssumption
BY GrabberAssumption
DEF P!CapAssumption, P!ToggleAssumption, P!DataAssumption, P!Lines, G!Lines, P!Results, G!Results

-----------------------------------------------------------------------------
(* The grabber's steps are those its lemmas are about. *)
LEMMA SameCardinality == \A S : G!Cardinality(S) = P!Cardinality(S)
BY DEF G!Cardinality, P!Cardinality

LEMMA SameMainStep == G!MainStep <=> P!MainStep
<1>1. G!WriteStdin <=> P!WriteStdin
    BY SameCardinality DEF G!WriteStdin, P!WriteStdin, G!mainVars, P!mainVars, G!pipeVars, P!pipeVars,
       G!readerVars, P!readerVars, G!outcomeVars, P!outcomeVars
<1>2. G!BrokenPipe <=> P!BrokenPipe
    BY DEF G!BrokenPipe, P!BrokenPipe, G!mainVars, P!mainVars, G!pipeVars, P!pipeVars,
       G!readerVars, P!readerVars, G!outcomeVars, P!outcomeVars
<1>3. G!ReaderJoined <=> P!ReaderJoined
    BY DEF G!ReaderJoined, P!ReaderJoined, G!mainVars, P!mainVars, G!pipeVars, P!pipeVars,
       G!readerVars, P!readerVars, G!outcomeVars, P!outcomeVars
<1>4. G!DrainGraceExpires <=> P!DrainGraceExpires
    BY DEF G!DrainGraceExpires, P!DrainGraceExpires, G!Death, P!Death, G!mainVars, P!mainVars,
       G!pipeVars, P!pipeVars, G!readerVars, P!readerVars, G!outcomeVars, P!outcomeVars
<1>5. G!RejoinExpires <=> P!RejoinExpires
    BY DEF G!RejoinExpires, P!RejoinExpires, G!mainVars, P!mainVars, G!pipeVars, P!pipeVars,
       G!readerVars, P!readerVars, G!outcomeVars, P!outcomeVars
<1>6. G!WaitOrKill <=> P!WaitOrKill
    BY DEF G!WaitOrKill, P!WaitOrKill, G!mainVars, P!mainVars, G!pipeVars, P!pipeVars,
       G!readerVars, P!readerVars, G!outcomeVars, P!outcomeVars
<1>7. G!Reconcile <=> P!Reconcile
    BY DEF G!Reconcile, P!Reconcile, G!mainVars, P!mainVars, G!pipeVars, P!pipeVars,
       G!readerVars, P!readerVars, G!outcomeVars, P!outcomeVars
<1>8. \A h : G!ReportUnanswered(h) <=> P!ReportUnanswered(h)
    BY DEF G!ReportUnanswered, P!ReportUnanswered, G!LockFree, P!LockFree,
       G!AppendRow, P!AppendRow, G!mainVars, P!mainVars, G!pipeVars, P!pipeVars,
       G!readerVars, P!readerVars, G!outcomeVars, P!outcomeVars
<1>9. G!Closed <=> P!Closed
    BY DEF G!Closed, P!Closed, G!mainVars, P!mainVars, G!pipeVars, P!pipeVars,
       G!readerVars, P!readerVars, G!outcomeVars, P!outcomeVars
<1> QED
    BY <1>1, <1>2, <1>3, <1>4, <1>5, <1>6, <1>7, <1>8, <1>9 DEF G!MainStep, P!MainStep

LEMMA SameReaderStep == G!ReaderStep <=> P!ReaderStep
BY DEF G!ReaderStep, P!ReaderStep, G!ReadLine, P!ReadLine, G!SkipTorn, P!SkipTorn,
       G!RecordFailed, P!RecordFailed, G!CountResponsive, P!CountResponsive,
       G!NormalizeRaises, P!NormalizeRaises, G!RecordSuccess, P!RecordSuccess,
       G!ClaimWon, P!ClaimWon, G!ClaimLost, P!ClaimLost, G!ClaimRaises, P!ClaimRaises,
       G!ReaderEof, P!ReaderEof, G!AppendRow, P!AppendRow, G!mainVars, P!mainVars,
       G!pipeVars, P!pipeVars, G!readerVars, P!readerVars, G!outcomeVars, P!outcomeVars

LEMMA SameZGrabWork == G!ZGrabWork <=> P!ZGrabWork
<1>1. \A h : G!Take(h) <=> P!Take(h)
    BY SameCardinality DEF G!Take, P!Take, G!mainVars, P!mainVars, G!pipeVars, P!pipeVars,
       G!readerVars, P!readerVars, G!outcomeVars, P!outcomeVars
<1>2. \A h, r : G!Emit(h, r) <=> P!Emit(h, r)
    BY SameCardinality DEF G!Emit, P!Emit, G!mainVars, P!mainVars, G!pipeVars, P!pipeVars,
       G!readerVars, P!readerVars, G!outcomeVars, P!outcomeVars
<1>3. G!Finish <=> P!Finish
    BY DEF G!Finish, P!Finish, G!StdinClosed, P!StdinClosed, G!mainVars, P!mainVars,
       G!pipeVars, P!pipeVars, G!readerVars, P!readerVars, G!outcomeVars, P!outcomeVars
<1>4. G!Exit <=> P!Exit
    BY DEF G!Exit, P!Exit, G!mainVars, P!mainVars, G!pipeVars, P!pipeVars,
       G!readerVars, P!readerVars, G!outcomeVars, P!outcomeVars
<1> QED
    BY <1>1, <1>2, <1>3, <1>4 DEF G!ZGrabWork, P!ZGrabWork, G!Results, P!Results

LEMMA SameEnvironment == G!Environment <=> P!Environment
<1>1. G!Die <=> P!Die
    BY DEF G!Die, P!Die, G!Death, P!Death, G!mainVars, P!mainVars, G!pipeVars, P!pipeVars,
       G!readerVars, P!readerVars, G!outcomeVars, P!outcomeVars
<1>2. G!Wedge <=> P!Wedge
    BY DEF G!Wedge, P!Wedge, G!mainVars, P!mainVars, G!pipeVars, P!pipeVars,
       G!readerVars, P!readerVars, G!outcomeVars, P!outcomeVars
<1>3. \A f : G!OtherRunClaims(f) <=> P!OtherRunClaims(f)
    BY DEF G!OtherRunClaims, P!OtherRunClaims, G!mainVars, P!mainVars, G!pipeVars, P!pipeVars,
       G!readerVars, P!readerVars, G!outcomeVars, P!outcomeVars
<1> QED
    BY <1>1, <1>2, <1>3 DEF G!Environment, P!Environment

LEMMA SameCalls ==
    /\ \A h : (G!Submit(h) <=> P!Submit(h)) /\ (G!RecordClosed(h) <=> P!RecordClosed(h))
    /\ G!CloseStdin <=> P!CloseStdin
BY DEF G!Submit, P!Submit, G!Fresh, P!Fresh, G!RecordClosed, P!RecordClosed,
       G!AppendRow, P!AppendRow, G!LockFree, P!LockFree, G!CloseStdin, P!CloseStdin,
       G!mainVars, P!mainVars, G!pipeVars, P!pipeVars, G!readerVars, P!readerVars,
       G!outcomeVars, P!outcomeVars

LEMMA SameInit == G!Init => P!Init
BY DEF G!Init, P!Init

LEMMA SameVars == UNCHANGED grabberVars => UNCHANGED P!vars
BY DEF grabberVars, P!vars, P!mainVars, P!pipeVars, P!readerVars, P!outcomeVars

(* What a step of the run is to the grabber. *)
Calls ==
    \/ \E h \in Hosts : G!Submit(h) \/ G!RecordClosed(h)
    \/ G!CloseStdin
    \/ G!MainStep \/ G!ReaderStep \/ G!ZGrabWork \/ G!Environment

LEMMA StepCalls == ASSUME TypeOK, [Next]_vars PROVE Calls \/ UNCHANGED grabberVars
<1>1. ASSUME NEW r \in zmapOut, ReadRow(r) PROVE Calls \/ UNCHANGED grabberVars
    <2>1. r.ip \in Hosts
        BY DEF TypeOK, ZMapRows
    <2> QED
        BY <1>1, <2>1 DEF ReadRow, Calls
<1>2. EndOfOutput \/ GrabberStep \/ ReaderStep \/ ZGrabWork \/ GrabberEnvironment => Calls
    BY DEF EndOfOutput, GrabberStep, ReaderStep, ZGrabWork, GrabberEnvironment, Calls
<1>3. SpawnZGrab \/ SpawnRaises \/ GrabberClosed \/ ZMapWaited \/ ZMapGraceExpires \/ Judge
      \/ WatchdogFires \/ ZMapStep \/ Terminated \/ UNCHANGED vars
      => UNCHANGED grabberVars
    BY DEF SpawnZGrab, SpawnRaises, GrabberClosed, ZMapWaited, ZMapGraceExpires, Judge,
       WatchdogFires, ZMapStep, Classify, ZMapCompletes, ZMapExits, ZMapDies, Terminated, vars
<1> QED
    BY <1>1, <1>2, <1>3 DEF Next, MainStep

LEMMA CallsAreSteps ==
    /\ Calls => G!Next
    /\ Calls => P!Next
<1>1. Calls => G!Next
    BY DEF Calls, G!Next, G!Feed
<1>2. Calls => P!Next
    BY SameMainStep, SameReaderStep, SameZGrabWork, SameEnvironment, SameCalls
    DEF Calls, P!Next, P!Feed
<1> QED
    BY <1>1, <1>2

LEMMA TypeInit == Init => TypeOK
BY DEF Init, TypeOK, Phases

LEMMA TypeStep == TypeOK /\ [Next]_vars => TypeOK'
<1> SUFFICES ASSUME TypeOK, [Next]_vars PROVE TypeOK'
    OBVIOUS
<1> USE DEF TypeOK, Phases
<1>1. ASSUME NEW r \in zmapOut, ReadRow(r) PROVE TypeOK'
    BY <1>1 DEF ReadRow
<1>2. ASSUME NEW h \in Hosts, NEW c \in Classes, Classify(h, c) PROVE TypeOK'
    BY <1>2 DEF Classify, ZMapRows
<1>3. CASE SpawnZGrab \/ SpawnRaises \/ EndOfOutput \/ GrabberStep \/ ReaderStep \/ ZGrabWork
           \/ GrabberEnvironment
    BY <1>3 DEF SpawnZGrab, SpawnRaises, EndOfOutput, GrabberStep, ReaderStep, ZGrabWork,
       GrabberEnvironment, runVars
<1>4. CASE GrabberClosed \/ ZMapWaited \/ ZMapGraceExpires \/ Judge
    BY <1>4 DEF GrabberClosed, ZMapWaited, ZMapGraceExpires, Judge, Killed
<1>5. CASE WatchdogFires \/ ZMapCompletes \/ ZMapExits \/ ZMapDies
    BY <1>5 DEF WatchdogFires, Killed, ZMapCompletes, ZMapExits, ZMapDies
<1>6. CASE Terminated \/ UNCHANGED vars
    BY <1>6 DEF Terminated, vars, runVars
<1> QED
    BY <1>1, <1>2, <1>3, <1>4, <1>5, <1>6 DEF Next, MainStep, ZMapStep

(* Every variable of a run keeps its type, and what is in ZMap's pipe is   *)
(* what ZMap has written.                                                  *)
THEOREM TypeCorrect == Spec => []TypeOK
BY TypeInit, TypeStep, PTL DEF Spec

(* The run uses the grabber as Grabber allows: what holds of every         *)
(* behaviour of the grabber, whoever calls it, holds of its behaviour in   *)
(* the run.                                                                *)
THEOREM Uses == Spec => UsesGrabber
<1>1. TypeOK /\ [Next]_vars => [G!Next]_grabberVars
    BY StepCalls, CallsAreSteps
<1>2. Init => G!Init
    BY DEF Init
<1> QED
    BY <1>1, <1>2, TypeInit, TypeStep, PTL DEF Spec, UsesGrabber

LEMMA GrabberKept ==
    /\ Init => P!IInv
    /\ TypeOK /\ P!IInv /\ [Next]_vars => P!IInv'
<1>1. Init => P!IInv
    BY SameInit, GrabberAssumes, P!CustodyInit DEF Init
<1>2. TypeOK /\ [Next]_vars => [P!Next]_(P!vars)
    BY StepCalls, CallsAreSteps, SameVars
<1>3. TypeOK /\ P!IInv /\ [Next]_vars => P!IInv'
    BY <1>2, GrabberAssumes, P!CustodyStep
<1> QED
    BY <1>1, <1>3

-----------------------------------------------------------------------------
(* Where the run and its main thread are, and what is left in ZMap's pipe  *)
(* once the loop over its output has ended.                                *)
Ended == phase \in {"closing", "waiting", "judging", "done"}

PhaseInv ==
    /\ Ended \/ main \in {"feeding", "writing"}
    /\ Ended => main \notin {"feeding", "writing"} /\ zmapOut = {} /\ zmap # "running"
    /\ phase \in {"waiting", "judging", "done"} => main = "closed"
    /\ phase \in {"judging", "done"} => zmap = "exited"
    /\ phase = "done" /\ status = "completed" => code = "zero"

(* ZMap names an address once.  What the run has not read off its pipe it  *)
(* has not touched; what it has read is recorded or handed to the grabber, *)
(* and a host that is grabbed is never recorded as closed.                 *)
NoRst(s) == \A i \in DOMAIN s : s[i] # "closed"

HostInv(h) ==
    \/ h \in submitted /\ NoRst(rows[h]) /\ [ip |-> h, class |-> "synack"] \in classified \ zmapOut
    \/ h \notin submitted /\ rows[h] = <<"closed">>
           /\ [ip |-> h, class |-> "rst"] \in classified \ zmapOut
    \/ h \notin submitted /\ rows[h] = <<>>
           /\ \A r \in classified \ zmapOut : r.ip = h => r.class = "other"

RowInv ==
    /\ \A r, q \in classified : r.ip = q.ip => r = q
    /\ \A h \in Hosts : HostInv(h)

RunInv == TypeOK /\ P!IInv /\ ~abandoned /\ PhaseInv /\ RowInv

LEMMA RunInit == Init => RunInv
<1> SUFFICES ASSUME Init PROVE RunInv
    OBVIOUS
<1>1. main = "feeding" /\ ~abandoned /\ submitted = {} /\ rows = [h \in Hosts |-> <<>>]
    BY DEF Init, G!Init
<1>2. PhaseInv /\ RowInv
    BY <1>1 DEF Init, PhaseInv, Ended, RowInv, HostInv
<1> QED
    BY <1>1, <1>2, TypeInit, GrabberKept DEF RunInv

(* A grab's row is not that of a closed host. *)
LEMMA GrabIsNoRst ==
    ASSUME NEW s \in Seq(P!Observations), NEW o \in P!Results, NoRst(s)
    PROVE  NoRst(Append(s, o))
<1>1. o # "closed"
    BY GrabberAssumption DEF P!Results
<1>2. Len(s) \in Nat /\ DOMAIN s = 1 .. Len(s)
    BY LenProperties
<1>3. o \in P!Observations
    BY DEF P!Observations
<1>4. /\ DOMAIN Append(s, o) = 1 .. Len(s) + 1
      /\ \A i \in 1 .. Len(s) : Append(s, o)[i] = s[i]
      /\ Append(s, o)[Len(s) + 1] = o
    BY <1>3, AppendProperties
<1>5. \A i \in 1 .. Len(s) + 1 : i \in 1 .. Len(s) \/ i = Len(s) + 1
    BY <1>2
<1> HIDE DEF P!Observations
<1> QED
    BY <1>1, <1>2, <1>4, <1>5 DEF NoRst

LEMMA RunStep == ASSUME ~SlowStore, RunInv, [Next]_vars PROVE RunInv'
<1>1. TypeOK /\ P!IInv /\ ~abandoned /\ PhaseInv /\ RowInv
    BY DEF RunInv
<1>2. TypeOK' /\ P!IInv'
    BY <1>1, TypeStep, GrabberKept
<1>3. rows \in [Hosts -> Seq(P!Observations)]
    BY <1>1 DEF P!IInv, P!TypeInv, P!TypeOK
<1> SUFFICES ~abandoned' /\ PhaseInv' /\ RowInv'
    BY <1>2 DEF RunInv

(* a row is read: recorded, handed to the grabber, or ignored *)
<1>4. ASSUME NEW r \in zmapOut, ReadRow(r) PROVE ~abandoned' /\ PhaseInv' /\ RowInv'
    <2>1. r.ip \in Hosts /\ r \in classified /\ r = [ip |-> r.ip, class |-> r.class]
        BY <1>1 DEF TypeOK, ZMapRows
    <2>2. /\ phase = "streaming" /\ UNCHANGED <<phase, zmap, classified, code, status>>
          /\ zmapOut' = zmapOut \ {r} /\ main = "feeding"
        BY <1>4 DEF ReadRow
    <2>3. \A q \in classified : q.ip = r.ip => q = r
        BY <1>1, <2>1 DEF RowInv, HostInv
    <2>4. \A h \in Hosts : h # r.ip =>
              \A c \in Classes : [ip |-> h, class |-> c] \in classified \ zmapOut <=>
                                     [ip |-> h, class |-> c] \in (classified \ zmapOut)'
        BY <2>1, <2>2
    <2>5. \A q \in (classified \ zmapOut)' : q \in classified \ zmapOut \/ q = r
        BY <2>2
    <2>6. r \in (classified \ zmapOut)'
        BY <2>1, <2>2
    <2>7. CASE r.class = "rst" /\ G!RecordClosed(r.ip)
        <3>1. /\ rows[r.ip] = <<>> /\ r.ip \notin submitted /\ submitted' = submitted
              /\ rows' = [rows EXCEPT ![r.ip] = Append(@, "closed")]
              /\ UNCHANGED <<main, abandoned>>
            BY <2>7 DEF G!RecordClosed, G!Fresh, G!AppendRow, G!mainVars
        <3>2. Append(<<>>, "closed") = <<"closed">>
            OBVIOUS
        <3>3. \A h \in Hosts : rows'[h] = IF h = r.ip THEN <<"closed">> ELSE rows[h]
            BY <1>3, <2>1, <3>1, <3>2
        <3>4. ASSUME NEW h \in Hosts PROVE HostInv(h)'
            <4>1. CASE h = r.ip
                BY <2>1, <2>6, <2>7, <3>1, <3>3, <4>1 DEF HostInv
            <4>2. CASE h # r.ip
                BY <1>1, <2>4, <2>5, <3>1, <3>3, <4>2 DEF RowInv, HostInv, Classes
            <4> QED
                BY <4>1, <4>2
        <3> QED
            BY <1>1, <2>2, <3>1, <3>4 DEF RowInv, PhaseInv, Ended
    <2>8. CASE r.class = "synack" /\ G!Submit(r.ip)
        <3>1. /\ rows[r.ip] = <<>> /\ submitted' = submitted \union {r.ip}
              /\ UNCHANGED <<rows, abandoned>> /\ main' = "writing"
            BY <2>8 DEF G!Submit, G!Fresh, G!outcomeVars
        <3>2. NoRst(<<>>)
            BY DEF NoRst
        <3>3. ASSUME NEW h \in Hosts PROVE HostInv(h)'
            <4>1. CASE h = r.ip
                BY <2>1, <2>6, <2>8, <3>1, <3>2, <4>1 DEF HostInv
            <4>2. CASE h # r.ip
                BY <1>1, <2>4, <2>5, <3>1, <4>2 DEF RowInv, HostInv, Classes
            <4> QED
                BY <4>1, <4>2
        <3> QED
            BY <1>1, <2>2, <3>1, <3>3 DEF RowInv, PhaseInv, Ended
    <2>9. CASE r.class = "other" /\ UNCHANGED grabberVars
        <3>1. UNCHANGED <<rows, submitted, abandoned, main>>
            BY <2>9 DEF grabberVars
        <3>2. \A h \in Hosts : HostInv(h)'
            BY <1>1, <2>2, <2>5, <2>9, <3>1 DEF RowInv, HostInv
        <3> QED
            BY <1>1, <2>2, <3>1, <3>2 DEF RowInv, PhaseInv, Ended
    <2> QED
        BY <1>4, <2>7, <2>8, <2>9 DEF ReadRow

(* ZMap writes a row for an address it has not named *)
<1>5. ASSUME NEW h \in Hosts, NEW c \in Classes, Classify(h, c)
      PROVE  ~abandoned' /\ PhaseInv' /\ RowInv'
    <2>1. /\ UNCHANGED <<phase, main, zmap, code, status, submitted, rows, abandoned>>
          /\ classified' = classified \union {[ip |-> h, class |-> c]}
          /\ zmapOut' = zmapOut \union {[ip |-> h, class |-> c]}
          /\ zmap = "running" /\ \A r \in classified : r.ip # h
        BY <1>5 DEF Classify, grabberVars
    <2>2. (classified \ zmapOut)' = classified \ zmapOut
        BY <2>1
    <2> QED
        BY <1>1, <2>1, <2>2 DEF PhaseInv, Ended, RowInv, HostInv

(* the end of the loop *)
<1>6. ASSUME EndOfOutput PROVE ~abandoned' /\ PhaseInv' /\ RowInv'
    <2>1. /\ UNCHANGED <<zmap, zmapOut, classified, code, status, submitted, rows, abandoned>>
          /\ phase' = "closing" /\ main' = "joining" /\ zmapOut = {} /\ zmap # "running"
        BY <1>6 DEF EndOfOutput, G!CloseStdin, G!outcomeVars
    <2> QED
        BY <1>1, <2>1 DEF PhaseInv, Ended, RowInv, HostInv

(* the grabber at work, in every phase *)
<1>7. ASSUME GrabberStep \/ ReaderStep \/ ZGrabWork \/ GrabberEnvironment
      PROVE  ~abandoned' /\ PhaseInv' /\ RowInv'
    <2>1. P!MainStep \/ P!ReaderStep \/ P!ZGrabWork \/ P!Environment
        BY <1>7, SameMainStep, SameReaderStep, SameZGrabWork, SameEnvironment
        DEF GrabberStep, ReaderStep, ZGrabWork, GrabberEnvironment
    <2>2. UNCHANGED <<phase, zmap, zmapOut, classified, code, status>>
        BY <1>7 DEF GrabberStep, ReaderStep, ZGrabWork, GrabberEnvironment, runVars
    <2>3. /\ submitted' = submitted
          /\ main \in {"feeding", "writing"} => main' \in {"feeding", "writing"}
          /\ main \notin {"feeding", "writing"} => main' \notin {"feeding", "writing"}
          /\ main = "closed" => main' = "closed"
          /\ abandoned' => SlowStore
          /\ \A h \in Hosts : \/ rows'[h] = rows[h]
                              \/ h \in submitted /\ \E o \in P!Results : rows'[h] = Append(rows[h], o)
        BY <1>1, <2>1, GrabberAssumes, P!StepsOfTheGrabber
    <2>4. \A h \in submitted : NoRst(rows[h]) /\ h \in Hosts => NoRst(rows'[h])
        BY <1>3, <2>3, GrabIsNoRst
    <2>5. RowInv'
        BY <1>1, <2>2, <2>3, <2>4 DEF RowInv, HostInv
    <2>6. PhaseInv'
        BY <1>1, <2>2, <2>3 DEF PhaseInv, Ended
    <2> QED
        BY <2>3, <2>5, <2>6

(* the rest of the teardown, and the end of ZMap *)
<1>8. ASSUME UNCHANGED <<grabberVars, zmapOut, classified>>, PhaseInv'
      PROVE  ~abandoned' /\ PhaseInv' /\ RowInv'
    BY <1>1, <1>8 DEF RowInv, HostInv, grabberVars
<1>9. ASSUME SpawnZGrab \/ SpawnRaises \/ GrabberClosed \/ ZMapWaited \/ ZMapGraceExpires \/ Judge
      PROVE  ~abandoned' /\ PhaseInv' /\ RowInv'
    <2>1. UNCHANGED <<grabberVars, zmapOut, classified>>
        BY <1>9 DEF SpawnZGrab, SpawnRaises, GrabberClosed, ZMapWaited, ZMapGraceExpires, Judge
    <2>2. PhaseInv'
        BY <1>1, <1>9, <2>1 DEF SpawnZGrab, SpawnRaises, GrabberClosed, ZMapWaited,
           ZMapGraceExpires, Judge, Killed, PhaseInv, Ended, grabberVars, TypeOK, Phases
    <2> QED
        BY <1>8, <2>1, <2>2
<1>10. ASSUME WatchdogFires \/ ZMapCompletes \/ ZMapExits \/ ZMapDies
       PROVE  ~abandoned' /\ PhaseInv' /\ RowInv'
    <2>1. UNCHANGED <<grabberVars, zmapOut, classified>>
        BY <1>10 DEF WatchdogFires, ZMapCompletes, ZMapExits, ZMapDies
    <2>2. PhaseInv'
        BY <1>1, <1>10, <2>1 DEF WatchdogFires, ZMapCompletes, ZMapExits, ZMapDies, Killed,
           PhaseInv, Ended, grabberVars, TypeOK
    <2> QED
        BY <1>8, <2>1, <2>2
<1>11. ASSUME Terminated \/ UNCHANGED vars PROVE ~abandoned' /\ PhaseInv' /\ RowInv'
    <2>1. UNCHANGED <<grabberVars, zmapOut, classified, phase, zmap, code, status>>
        BY <1>11 DEF Terminated, vars, runVars
    <2>2. PhaseInv'
        BY <1>1, <2>1 DEF PhaseInv, Ended, grabberVars
    <2> QED
        BY <1>8, <2>1, <2>2
<1> QED
    BY <1>4, <1>5, <1>6, <1>7, <1>9, <1>10, <1>11 DEF Next, MainStep, ZMapStep

LEMMA RunInvariant == ASSUME ~SlowStore PROVE Spec => []RunInv
<1>1. RunInv /\ [Next]_vars => RunInv'
    BY RunStep
<1> QED
    BY <1>1, RunInit, PTL DEF Spec

(* At the end of a run every host it handed to the grabber has one row. *)
LEMMA OneRowEach ==
    ASSUME RunInv, phase = "done", NEW h \in submitted
    PROVE  Len(rows[h]) = 1
<1>1. main = "closed" /\ ~abandoned /\ P!IInv
    BY DEF RunInv, PhaseInv
<1>2. h \in Hosts /\ rows[h] # <<>>
    BY <1>1 DEF P!IInv, P!TypeInv, P!TypeOK, P!Custody, P!Phases, P!Recording, P!Rowed
<1>3. rows[h] \in Seq(P!Observations) /\ Len(rows[h]) <= 1
    BY <1>1, <1>2 DEF P!IInv, P!TypeInv, P!TypeOK, P!NoHostTwice
<1>4. Len(rows[h]) \in Nat /\ Len(rows[h]) # 0
    BY <1>2, <1>3, EmptySeq, LenProperties
<1>5. Len(rows[h]) <= 1
    BY <1>3
<1>6. \A n \in Nat : n # 0 /\ n <= 1 => n = 1
    OBVIOUS
<1> QED
    BY <1>4, <1>5, <1>6

LEMMA RecordedAtEnd == ASSUME RunInv PROVE ReadIsRecorded
<1> SUFFICES ASSUME phase = "done", NEW r \in classified
             PROVE  /\ r.class = "synack" => Len(rows[r.ip]) = 1 /\ rows[r.ip][1] # "closed"
                    /\ r.class = "rst" => rows[r.ip] = <<"closed">>
                    /\ r.class = "other" => rows[r.ip] = <<>>
    BY DEF ReadIsRecorded
<1>1. r.ip \in Hosts /\ zmapOut = {}
    BY DEF RunInv, PhaseInv, Ended, TypeOK, ZMapRows
<1>2. \A q \in classified : q.ip = r.ip => q = r
    BY DEF RunInv, RowInv, HostInv
<1>3. \/ r.ip \in submitted /\ NoRst(rows[r.ip]) /\ r.class = "synack"
      \/ rows[r.ip] = <<"closed">> /\ r.class = "rst"
      \/ rows[r.ip] = <<>> /\ r.class = "other"
    <2>1. \/ r.ip \in submitted /\ NoRst(rows[r.ip])
                 /\ [ip |-> r.ip, class |-> "synack"] \in classified
          \/ rows[r.ip] = <<"closed">> /\ [ip |-> r.ip, class |-> "rst"] \in classified
          \/ rows[r.ip] = <<>> /\ r.class = "other"
        BY <1>1 DEF RunInv, RowInv, HostInv
    <2>2. \A c : [ip |-> r.ip, class |-> c] \in classified => r.class = c
        BY <1>2
    <2> QED
        BY <2>1, <2>2
<1>4. CASE r.ip \in submitted /\ NoRst(rows[r.ip]) /\ r.class = "synack"
    <2>1. Len(rows[r.ip]) = 1
        BY <1>4, OneRowEach
    <2>2. rows[r.ip] \in Seq(P!Observations)
        BY <1>1 DEF RunInv, P!IInv, P!TypeInv, P!TypeOK
    <2>3. DOMAIN rows[r.ip] = 1 .. Len(rows[r.ip])
        BY <2>2, LenProperties
    <2>4. 1 \in DOMAIN rows[r.ip]
        BY <2>1, <2>3
    <2> QED
        BY <1>4, <2>1, <2>4 DEF NoRst
<1>5. CASE rows[r.ip] = <<"closed">> /\ r.class = "rst"
    BY <1>5
<1>6. CASE rows[r.ip] = <<>> /\ r.class = "other"
    BY <1>6
<1> QED
    BY <1>3, <1>4, <1>5, <1>6

(* A run that fails still accounts for what it took from ZMap, and a       *)
(* closed host is never given a grab's row: provided the version index     *)
(* answers in time for close() to wait for the reader.                     *)
THEOREM Recorded == ASSUME ~SlowStore PROVE Spec => []ReadIsRecorded
<1>1. RunInv => ReadIsRecorded
    BY RecordedAtEnd
<1> QED
    BY <1>1, RunInvariant, PTL

(* A run that says "completed" is whole: ZMap ended well, and every host   *)
(* it reported, open or closed, has its one row; on the same proviso.      *)
THEOREM Whole == ASSUME ~SlowStore PROVE Spec => []CompletedIsWhole
<1>1. ASSUME RunInv PROVE CompletedIsWhole
    <2> SUFFICES ASSUME phase = "done", status = "completed"
                 PROVE  /\ code = "zero"
                        /\ \A h \in Classified("synack") \union Classified("rst") : Len(rows[h]) = 1
        BY DEF CompletedIsWhole
    <2>1. code = "zero" /\ zmapOut = {}
        BY <1>1 DEF RunInv, PhaseInv, Ended
    <2>2. ASSUME NEW r \in classified, r.class \in {"synack", "rst"} PROVE Len(rows[r.ip]) = 1
        <3>1. r.class = "synack" => Len(rows[r.ip]) = 1
            BY <1>1, <2>1, <2>2, RecordedAtEnd DEF ReadIsRecorded
        <3>2. r.class = "rst" => rows[r.ip] = <<"closed">>
            BY <1>1, <2>1, <2>2, RecordedAtEnd DEF ReadIsRecorded
        <3>3. Len(<<"closed">>) = 1
            OBVIOUS
        <3> QED
            BY <2>2, <3>1, <3>2, <3>3
    <2> QED
        BY <2>1, <2>2 DEF Classified
<1> QED
    BY <1>1, RunInvariant, PTL

(* While the version index answers, an observation of the run never points *)
(* at a payload nobody publishes, however ZMap and ZGrab2 end.             *)
THEOREM Published == ASSUME ~StoreFails PROVE Spec => []FingerprintsPublished
<1> DEFINE Claims == P!IInv /\ P!ClaimInv
<1>1. Init => Claims
    BY SameInit, GrabberKept, GrabberAssumes, P!ClaimInit DEF Init
<1>2. TypeOK /\ Claims /\ [Next]_vars => Claims'
    <2> SUFFICES ASSUME TypeOK, Claims, [Next]_vars PROVE Claims'
        OBVIOUS
    <2>1. P!TypeInv /\ [P!Next]_(P!vars)
        BY StepCalls, CallsAreSteps, SameVars DEF P!IInv
    <2>2. P!ClaimInv'
        BY <2>1, GrabberAssumes, P!ClaimStep
    <2> QED
        BY <2>2, GrabberKept
<1>3. Claims => FingerprintsPublished
    <2> SUFFICES ASSUME Claims PROVE FingerprintsPublished
        OBVIOUS
    <2>1. P!FingerprintsPublished
        BY GrabberAssumes, P!FinallyPublished
    <2> QED
        BY <2>1, SameCardinality DEF FingerprintsPublished, G!FingerprintsPublished, P!FingerprintsPublished
<1> QED
    BY <1>1, <1>2, <1>3, TypeInit, TypeStep, PTL DEF Spec
=============================================================================
