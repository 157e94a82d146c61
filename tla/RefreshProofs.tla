--------------------------- MODULE RefreshProofs ---------------------------
(***************************************************************************)
(* What TLAPS proves of TokenBucket and Refresh for any list, any budget,  *)
(* any interval, any burst and any grabber: the bucket grants what has     *)
(* accrued, the run calls the grabber as the grabber allows, and a write   *)
(* that was held up is not followed by a burst.                            *)
(***************************************************************************)
EXTENDS Refresh, SequenceTheorems, TLAPS

(* The token bucket. *)
LEMMA CapacityFact == Capacity \in Nat /\ Interval \in Nat /\ Interval <= Capacity
<1>1. \A n, m \in Nat : m # 0 => n * m \in Nat /\ (n # 0 => m <= n * m)
    OBVIOUS
<1> QED BY <1>1, BucketAssumption DEF Capacity

LEMMA RefilledFact == BucketOK => Refilled \in 0 .. Capacity
BY CapacityFact, BucketAssumption DEF BucketOK, Refilled

LEMMA BucketTypeStep == BucketOK /\ [BucketNext]_bucketVars => BucketOK'
<1> SUFFICES ASSUME BucketOK, [BucketNext]_bucketVars PROVE BucketOK'
    OBVIOUS
<1> USE CapacityFact, RefilledFact, BucketAssumption DEF BucketOK, WaiterStates
<1>1. CASE BeginWait
    BY <1>1 DEF BeginWait
<1>2. CASE Acquire
    BY <1>2 DEF Acquire
<1>3. CASE Refuse
    BY <1>3 DEF Refuse
<1>4. CASE Sleep
    BY <1>4 DEF Sleep, UntilNext
<1>5. CASE Awake
    BY <1>5 DEF Awake
<1>6. CASE Tick
    BY <1>6 DEF Tick
<1>7. CASE UNCHANGED bucketVars
    BY <1>7 DEF bucketVars
<1> QED BY <1>1, <1>2, <1>3, <1>4, <1>5, <1>6, <1>7 DEF BucketNext, WaitStep

(* The variables keep their types; a sleep is never longer than one        *)
(* interval.                                                               *)
THEOREM BucketTypes == BucketSpec => []BucketOK
<1>1. BucketInit => BucketOK
    BY CapacityFact, BucketAssumption DEF BucketInit, BucketOK, WaiterStates
<1> QED BY <1>1, BucketTypeStep, PTL DEF BucketSpec

(* Asking only moves what has accrued from the clock to the bucket.        *)
LEMMA RefillingKeeps ==
    ASSUME BucketOK, tokens' = Refilled, idle' = 0
    PROVE  Refilled' = Refilled
BY RefilledFact, CapacityFact DEF Refilled, BucketOK

LEMMA LimitStep == BucketOK /\ [BucketNext]_bucketVars => [Limit!Next]_Refilled
<1> SUFFICES ASSUME BucketOK, [BucketNext]_bucketVars PROVE [Limit!Next]_Refilled
    OBVIOUS
<1> USE CapacityFact, RefilledFact DEF BucketOK
<1>1. CASE BeginWait
    BY <1>1 DEF BeginWait, Refilled
<1>2. CASE Acquire
    <2>1. Refilled >= Interval /\ Refilled' = Refilled - Interval
        BY <1>2 DEF Acquire, Refilled
    <2> QED BY <2>1 DEF Limit!Next, Limit!Spend
<1>3. CASE Refuse
    BY <1>3, RefillingKeeps DEF Refuse
<1>4. CASE Sleep
    BY <1>4, RefillingKeeps DEF Sleep
<1>5. CASE Awake
    BY <1>5 DEF Awake, Refilled
<1>6. CASE Tick
    <2>1. Refilled' = IF Refilled < Capacity THEN Refilled + 1 ELSE Refilled
        BY <1>6, BucketAssumption DEF Tick, Refilled
    <2> QED BY <2>1 DEF Limit!Next, Limit!Earn, Capacity
<1>7. CASE UNCHANGED bucketVars
    BY <1>7 DEF bucketVars, Refilled
<1> QED BY <1>1, <1>2, <1>3, <1>4, <1>5, <1>6, <1>7 DEF BucketNext, WaitStep

(* The lazily refilled bucket implements a budget that grows with every    *)
(* tick, up to one burst, for any interval and any burst.                  *)
THEOREM BucketImplementsLimit == BucketSpec => ImplementsLimit
<1>1. BucketInit => Limit!Init
    BY CapacityFact DEF BucketInit, Refilled, Limit!Init, Capacity
<1>2. BucketOK /\ [BucketNext]_bucketVars => [Limit!Next]_Refilled
    BY LimitStep
<1> QED BY <1>1, <1>2, BucketTypes, PTL DEF BucketSpec, ImplementsLimit, Limit!Spec

-----------------------------------------------------------------------------
(* The refresh run. *)

(* What the grabber's steps do to the two variables the loop depends on.   *)
OutsideLoop == main \notin {"feeding", "writing"}

LEMMA MainStepFact ==
    G!MainStep =>
        \/ main = "writing" /\ main' = "feeding"
        \/ OutsideLoop /\ OutsideLoop' /\ stdin' = stdin
BY DEF G!MainStep, G!WriteStdin, G!BrokenPipe, G!ReaderJoined, G!DrainGraceExpires,
   G!RejoinExpires, G!WaitOrKill, G!Reconcile, G!ReportUnanswered, G!Closed, OutsideLoop,
   G!pipeVars

LEMMA ReaderStepFact == G!ReaderStep => main' = main /\ stdin' = stdin
BY DEF G!ReaderStep, G!ReadLine, G!SkipTorn, G!RecordFailed, G!CountResponsive,
   G!NormalizeRaises, G!RecordSuccess, G!ClaimWon, G!ClaimLost, G!ClaimRaises, G!ReaderEof,
   G!mainVars, G!pipeVars

LEMMA ZGrabWorkFact == G!ZGrabWork => main' = main /\ stdin' \subseteq stdin
BY DEF G!ZGrabWork, G!Take, G!Emit, G!Finish, G!Exit, G!mainVars

LEMMA EnvironmentFact == G!Environment => main' = main /\ stdin' = stdin
BY DEF G!Environment, G!Die, G!Wedge, G!OtherRunClaims, G!mainVars, G!pipeVars

-----------------------------------------------------------------------------
(* A token is spent: its address waits to be written. *)
Spent == step = "submitting" \/ main = "writing"

LoopOK ==
    /\ step \in Steps
    /\ attempted \in 0 .. Len(KnownHosts)
    /\ step \in {"waiting", "submitting"} => attempted > 0 /\ main = "feeding"
    /\ step \in {"closing", "done"} <=> OutsideLoop
    /\ waiter # "out" => step = "waiting"
    /\ fed \in (0 .. Interval) \X (0 .. Interval)

(* Between two writes no more has accrued than the time since the write    *)
(* before the last one; once a token is spent, than that since the last.   *)
PaceOK ==
    Burst = 1 =>
        /\ ~Spent /\ ~OutsideLoop => Refilled <= fed[2]
        /\ Spent => fed[2] = Interval /\ Refilled <= fed[1]

RunInv == BucketOK /\ LoopOK /\ PaceOK

LEMMA RunInvInit == Init => RunInv
BY CapacityFact, BucketAssumption, RefreshAssumption
   DEF Init, BucketInit, G!Init, RunInv, BucketOK, WaiterStates, LoopOK, PaceOK, Spent,
       OutsideLoop, Steps, Refilled, Capacity

(* The bucket takes a step of its own, or none. *)
LEMMA BucketStep == [Next]_vars => [BucketNext]_bucketVars
BY DEF Next, vars, MainStep, Stop, Skip, StartWait, Wait, Submit, GrabberStep, Report,
   ReaderStep, ZGrabWork, Environment, TimePasses, DeadlinePasses, Terminated,
   BucketNext, bucketVars

LEMMA RunInvStep == RunInv /\ [Next]_vars => RunInv'
<1> SUFFICES ASSUME RunInv, [Next]_vars PROVE RunInv'
    OBVIOUS
<1>0. BucketOK'
    BY BucketStep, BucketTypeStep DEF RunInv
<1> USE <1>0, RefreshAssumption, BucketAssumption, RefilledFact, CapacityFact
<1> USE DEF RunInv, LoopOK, PaceOK, Spent, OutsideLoop, Steps
<1>c. Burst = 1 => Capacity = Interval
    BY DEF Capacity
<1>1. CASE Stop
    BY <1>1 DEF Stop, AtTop, G!CloseStdin, bucketVars
<1>2. ASSUME NEW h \in Hosts, Skip(h) PROVE RunInv'
    BY <1>2 DEF Skip, TakeOn, AtTop, grabberVars, bucketVars, Refilled
<1>3. ASSUME NEW h \in Hosts, StartWait(h) PROVE RunInv'
    BY <1>3 DEF StartWait, TakeOn, AtTop, grabberVars, BeginWait, Refilled
<1>4. CASE Wait
    <2>0. step = "waiting" /\ main' = main /\ fed' = fed /\ attempted' = attempted
        BY <1>4 DEF Wait, grabberVars
    <2>1. CASE Acquire
        <3>1. waiter' = "out" /\ step' = "submitting" /\ Refilled >= Interval
              /\ Refilled' = Refilled - Interval
            BY <1>4, <2>1 DEF Wait, Acquire, Refilled, BucketOK
        <3> QED BY <3>1, <2>0, <1>c
    <2>2. CASE Refuse
        BY <1>4, <2>0, <2>2, RefillingKeeps DEF Wait, Refuse
    <2>3. CASE Sleep
        BY <1>4, <2>0, <2>3, RefillingKeeps DEF Wait, Sleep
    <2>4. CASE Awake
        BY <1>4, <2>0, <2>4 DEF Wait, Awake, Refilled
    <2> QED BY <1>4, <2>1, <2>2, <2>3, <2>4 DEF Wait, WaitStep
<1>5. CASE Submit
    BY <1>5 DEF Submit, G!Submit, bucketVars, Refilled
<1>6. CASE GrabberStep
    <2>1. Refilled' = Refilled /\ waiter' = waiter /\ step' = step /\ attempted' = attempted
        BY <1>6 DEF GrabberStep, bucketVars, Refilled
    <2>2. fed' = (IF stdin' # stdin THEN <<0, fed[1]>> ELSE fed)
        BY <1>6 DEF GrabberStep
    <2>3. CASE main = "writing" /\ main' = "feeding"
        <3>1. step = "checking"
            BY <2>3
        <3>2. fed'[2] = fed[1] \/ fed' = fed
            BY <2>2
        <3>3. fed' \in (0 .. Interval) \X (0 .. Interval)
            BY <2>2
        <3> QED BY <2>1, <2>3, <3>1, <3>2, <3>3, <1>c
    <2>4. CASE OutsideLoop /\ OutsideLoop' /\ stdin' = stdin
        BY <2>1, <2>2, <2>4
    <2> QED BY <1>6, <2>3, <2>4, MainStepFact DEF GrabberStep
<1>7. CASE Report
    BY <1>7 DEF Report, grabberVars, bucketVars, Refilled
<1>8. CASE ReaderStep
    BY <1>8, ReaderStepFact DEF ReaderStep, bucketVars, runVars, Refilled
<1>9. CASE ZGrabWork
    BY <1>9, ZGrabWorkFact DEF ZGrabWork, bucketVars, runVars, Refilled
<1>10. CASE Environment
    BY <1>10, EnvironmentFact DEF Environment, bucketVars, runVars, Refilled
<1>11. CASE TimePasses
    <2>1. /\ main' = main /\ step' = step /\ attempted' = attempted /\ waiter' = waiter
        BY <1>11 DEF TimePasses, Tick, grabberVars
    <2>2. /\ fed' = <<IF fed[1] < Interval THEN fed[1] + 1 ELSE fed[1],
                      IF fed[2] < Interval THEN fed[2] + 1 ELSE fed[2]>>
        BY <1>11 DEF TimePasses
    <2>3. Refilled' = IF Refilled < Capacity THEN Refilled + 1 ELSE Refilled
        BY <1>11 DEF TimePasses, Tick, Refilled, BucketOK
    <2>4. /\ Interval \in Nat /\ fed[1] \in 0 .. Interval /\ fed[2] \in 0 .. Interval
          /\ Refilled \in Nat /\ Capacity \in Nat
        OBVIOUS
    <2>5. /\ fed'[1] \in 0 .. Interval /\ fed'[2] \in 0 .. Interval
          /\ fed' = <<fed'[1], fed'[2]>>
          /\ fed'[1] >= fed[1] /\ fed'[2] >= fed[2]
          /\ fed[1] < Interval => fed'[1] = fed[1] + 1
          /\ fed[2] < Interval => fed'[2] = fed[2] + 1
          /\ fed[2] = Interval => fed'[2] = Interval
          /\ fed[1] = Interval => fed'[1] = Interval
        BY <2>2, <2>4
    <2>6. LoopOK'
        BY <2>1, <2>5
    <2>7. PaceOK'
        BY ONLY RunInv, <2>1, <2>3, <2>4, <2>5, <1>c DEF RunInv, PaceOK, Spent, OutsideLoop
    <2> QED BY <1>0, <2>6, <2>7
<1>12. CASE DeadlinePasses
    BY <1>12 DEF DeadlinePasses, AtTop, grabberVars, bucketVars, Refilled
<1>13. CASE UNCHANGED vars
    BY <1>13 DEF vars, grabberVars, bucketVars, runVars, Refilled
<1> QED BY <1>1, <1>2, <1>3, <1>4, <1>5, <1>6, <1>7, <1>8, <1>9, <1>10, <1>11, <1>12,
           <1>13 DEF Next, MainStep, Terminated

LEMMA RunInvHolds == Spec => []RunInv
BY RunInvInit, RunInvStep, PTL DEF Spec

-----------------------------------------------------------------------------
(* A write that was held up by a full pipe is not followed by a burst: no  *)
(* three addresses reach ZGrab2's stdin within less than an interval.      *)
THEOREM WritesArePaced == Spec => NoCatchUp
<1>1. RunInv /\ [Next]_vars => [Burst = 1 /\ stdin' \ stdin # {} => fed[2] = Interval]_vars
    <2> SUFFICES ASSUME RunInv, Next, Burst = 1, stdin' \ stdin # {}
                 PROVE  fed[2] = Interval
        OBVIOUS
    <2>1. main = "writing"
        <3>1. CASE GrabberStep
            BY <3>1, MainStepFact DEF GrabberStep
        <3>2. CASE ReaderStep \/ ZGrabWork \/ Environment
            BY <3>2, ReaderStepFact, ZGrabWorkFact, EnvironmentFact
               DEF ReaderStep, ZGrabWork, Environment
        <3>3. CASE ~(GrabberStep \/ ReaderStep \/ ZGrabWork \/ Environment)
            BY <3>3 DEF Next, MainStep, Stop, Skip, StartWait, Wait, Submit, Report,
               TimePasses, DeadlinePasses, Terminated, vars, grabberVars, G!CloseStdin,
               G!Submit, G!pipeVars
        <3> QED BY <3>1, <3>2, <3>3
    <2> QED BY <2>1 DEF RunInv, PaceOK, Spent
<1> QED BY <1>1, RunInvHolds, PTL DEF Spec, NoCatchUp

(* Every step of a refresh run is a step the grabber allows its caller, or *)
(* none of its: what is proved of Grabber holds of a refresh run.          *)
THEOREM RefreshUsesGrabber == Spec => UsesGrabber
<1>1. Init => G!Init
    BY DEF Init
<1>2. RunInv /\ [Next]_vars => [G!Next]_grabberVars
    <2> SUFFICES ASSUME RunInv, [Next]_vars PROVE [G!Next]_grabberVars
        OBVIOUS
    <2>1. CASE Submit
        <3>1. KnownHosts[attempted] \in Hosts
            BY <2>1, RefreshAssumption DEF Submit, RunInv, LoopOK
        <3> QED BY <2>1, <3>1 DEF Submit, G!Next, G!Feed
    <2>2. CASE Stop
        BY <2>2 DEF Stop, G!Next
    <2>3. CASE GrabberStep \/ ReaderStep \/ ZGrabWork \/ Environment
        BY <2>3 DEF GrabberStep, ReaderStep, ZGrabWork, Environment, G!Next
    <2>4. CASE ~(Submit \/ Stop \/ GrabberStep \/ ReaderStep \/ ZGrabWork \/ Environment)
        BY <2>4 DEF Next, MainStep, Skip, StartWait, Wait, Report, TimePasses,
           DeadlinePasses, Terminated, vars
    <2> QED BY <2>1, <2>2, <2>3, <2>4
<1> QED BY <1>1, <1>2, RunInvHolds, PTL DEF Spec, UsesGrabber

-----------------------------------------------------------------------------
(* What the grabber keeps of the hosts it was given, whether or not close() *)
(* abandons the reader: each waits for its result, or for close() to report *)
(* it, or is in the reader's hands, or has its row; nothing else has one.   *)
RowTypes ==
    /\ rows \in [Hosts -> Seq(G!Observations)]
    /\ stdout \subseteq G!Lines
    /\ reader \in {"recording", "normalizing"} => line \in G!Lines /\ line.result # "torn"

Served ==
    /\ submitted \subseteq Hosts
    /\ pending \union unanswered \union stdin \union grabbing \union G!Answered
           \union G!Recording \union G!Rowed \subseteq submitted
    /\ main = "writing" => current \in submitted
    /\ submitted \subseteq pending \union unanswered \union G!Recording \union G!Rowed
    /\ main # "reporting" => unanswered = {}
    /\ main \in {"reporting", "closed"} => pending = {}

GrabInv == RowTypes /\ Served

(* The hosts the loop has handed over: the one it waits for is not yet. *)
Taken == IF step \in {"waiting", "submitting"} THEN attempted - 1 ELSE attempted

HandedOver ==
    /\ submitted = {KnownHosts[i] : i \in 1 .. Taken} \ Blocked
    /\ step \in {"waiting", "submitting"} => KnownHosts[attempted] \notin Blocked
    /\ step \in {"closing", "done"} => attempted = Len(KnownHosts) \/ late
    /\ step = "done" => main = "closed"

CoverInv == GrabInv /\ HandedOver

(* What one appended row changes. *)
LEMMA RowAppended ==
    ASSUME RowTypes, NEW h \in Hosts, NEW o \in G!Observations, G!AppendRow(h, o)
    PROVE  rows' \in [Hosts -> Seq(G!Observations)] /\ G!Rowed' = G!Rowed \union {h}
<1>1. \A k \in Hosts : rows'[k] = IF k = h THEN Append(rows[h], o) ELSE rows[k]
    BY DEF G!AppendRow, RowTypes
<1>2. rows' = [k \in Hosts |-> IF k = h THEN Append(rows[h], o) ELSE rows[k]]
    BY <1>1 DEF G!AppendRow, RowTypes
<1>3. rows[h] \in Seq(G!Observations)
    BY DEF RowTypes
<1>4. Append(rows[h], o) \in Seq(G!Observations) /\ Append(rows[h], o) # <<>>
    BY <1>3, AppendProperties
<1> QED
    BY <1>1, <1>2, <1>4 DEF G!Rowed, RowTypes

LEMMA GrabInvInit == G!Init => GrabInv
BY DEF G!Init, GrabInv, RowTypes, Served, G!Answered, G!Recording, G!Rowed

(* The death of ZGrab2 adds no answer but of a host it was grabbing. *)
LEMMA DeathAnswers ==
    ASSUME GrabInv, G!Death
    PROVE  stdout' \subseteq G!Lines /\ G!Answered' \subseteq G!Answered \union grabbing
               /\ grabbing' = {}
<1>1. \/ stdout' = stdout
      \/ \E h \in grabbing : stdout' = stdout \union {[ip |-> h, result |-> "torn"]}
    BY DEF G!Death
<1>2. grabbing \subseteq Hosts /\ stdout \subseteq G!Lines /\ grabbing' = {}
    BY DEF GrabInv, RowTypes, Served, G!Death
<1>3. \A h \in Hosts : [ip |-> h, result |-> "torn"] \in G!Lines
    BY DEF G!Lines
<1> QED
    BY <1>1, <1>2, <1>3 DEF G!Answered

LEMMA GrabInvSubmit == ASSUME GrabInv, NEW h \in Hosts, G!Submit(h) PROVE GrabInv'
BY DEF GrabInv, RowTypes, Served, G!Submit, G!Answered, G!Recording, G!Rowed, G!mainVars, G!pipeVars, G!readerVars, G!outcomeVars

LEMMA GrabInvClose == ASSUME GrabInv, G!CloseStdin PROVE GrabInv'
BY DEF GrabInv, RowTypes, Served, G!CloseStdin, G!Answered, G!Recording, G!Rowed, G!mainVars, G!pipeVars, G!readerVars, G!outcomeVars

LEMMA GrabInvMainStep == ASSUME GrabInv, G!MainStep PROVE GrabInv' /\ submitted' = submitted
<1> USE DEF GrabInv, RowTypes, Served, G!Answered, G!Recording, G!mainVars, G!pipeVars, G!readerVars, G!outcomeVars
<1>r. rows' = rows => G!Rowed' = G!Rowed
    BY DEF G!Rowed
<1>1. ASSUME G!WriteStdin \/ G!BrokenPipe PROVE GrabInv' /\ submitted' = submitted
    BY <1>1, <1>r DEF G!WriteStdin, G!BrokenPipe
<1>2. ASSUME G!ReaderJoined \/ G!RejoinExpires \/ G!WaitOrKill \/ G!Reconcile \/ G!Closed
      PROVE  GrabInv' /\ submitted' = submitted
    BY <1>2, <1>r DEF G!ReaderJoined, G!RejoinExpires, G!WaitOrKill, G!Reconcile, G!Closed
<1>3. ASSUME G!DrainGraceExpires PROVE GrabInv' /\ submitted' = submitted
    <2>1. G!Death
        BY <1>3 DEF G!DrainGraceExpires
    <2>2. stdout' \subseteq G!Lines /\ G!Answered' \subseteq G!Answered \union grabbing
              /\ grabbing' = {}
        BY <2>1, DeathAnswers
    <2> QED
        BY <1>3, <1>r, <2>2 DEF G!DrainGraceExpires
<1>4. ASSUME NEW h \in Hosts, G!ReportUnanswered(h) PROVE GrabInv' /\ submitted' = submitted
    <2>1. rows' \in [Hosts -> Seq(G!Observations)] /\ G!Rowed' = G!Rowed \union {h}
        BY <1>4, RowAppended DEF G!ReportUnanswered, G!Observations, G!Results
    <2> QED
        BY <1>4, <2>1 DEF G!ReportUnanswered
<1> QED
    BY <1>1, <1>2, <1>3, <1>4 DEF G!MainStep

LEMMA GrabInvReaderStep == ASSUME GrabInv, G!ReaderStep PROVE GrabInv' /\ submitted' = submitted
<1> USE DEF GrabInv, RowTypes, Served, G!Answered, G!Recording, G!mainVars, G!pipeVars, G!readerVars, G!outcomeVars
<1>r. rows' = rows => G!Rowed' = G!Rowed
    BY DEF G!Rowed
<1>1. ASSUME NEW l \in stdout, G!ReadLine(l) \/ G!SkipTorn(l)
      PROVE  GrabInv' /\ submitted' = submitted
    BY <1>1, <1>r DEF G!ReadLine, G!SkipTorn
<1>2. ASSUME G!CountResponsive \/ G!ClaimWon \/ G!ClaimLost \/ G!ClaimRaises \/ G!ReaderEof
      PROVE  GrabInv' /\ submitted' = submitted
    BY <1>2, <1>r DEF G!CountResponsive, G!ClaimWon, G!ClaimLost, G!ClaimRaises, G!ReaderEof
<1>3. ASSUME G!RecordFailed \/ G!NormalizeRaises \/ G!RecordSuccess
      PROVE  GrabInv' /\ submitted' = submitted
    <2>1. line.ip \in Hosts /\ line.ip \in submitted
        BY <1>3 DEF G!RecordFailed, G!NormalizeRaises, G!RecordSuccess
    <2>2. line.result \in G!Observations
        BY <1>3 DEF G!RecordFailed, G!NormalizeRaises, G!RecordSuccess, G!Observations, G!Results
    <2>3. G!AppendRow(line.ip, line.result)
        BY <1>3 DEF G!RecordFailed, G!NormalizeRaises, G!RecordSuccess
    <2>4. rows' \in [Hosts -> Seq(G!Observations)] /\ G!Rowed' = G!Rowed \union {line.ip}
        BY <2>1, <2>2, <2>3, RowAppended
    <2> QED
        BY <1>3, <2>1, <2>4 DEF G!RecordFailed, G!NormalizeRaises, G!RecordSuccess
<1> QED
    BY <1>1, <1>2, <1>3 DEF G!ReaderStep

LEMMA GrabInvOutside ==
    ASSUME GrabInv, G!ZGrabWork \/ G!Environment
    PROVE  GrabInv' /\ submitted' = submitted
<1> USE DEF GrabInv, RowTypes, Served, G!Answered, G!Recording, G!mainVars, G!pipeVars, G!readerVars, G!outcomeVars
<1>r. rows' = rows => G!Rowed' = G!Rowed
    BY DEF G!Rowed
<1>1. ASSUME NEW h \in Hosts, G!Take(h) PROVE GrabInv' /\ submitted' = submitted
    BY <1>1, <1>r DEF G!Take
<1>2. ASSUME NEW h \in Hosts, NEW o \in G!Results, G!Emit(h, o)
      PROVE  GrabInv' /\ submitted' = submitted
    <2>1. [ip |-> h, result |-> o] \in G!Lines
        BY DEF G!Lines
    <2> QED
        BY <1>2, <1>r, <2>1 DEF G!Emit
<1>3. ASSUME G!Finish \/ G!Exit \/ G!Wedge \/ (\E f \in Fingerprints : G!OtherRunClaims(f))
      PROVE  GrabInv' /\ submitted' = submitted
    BY <1>3, <1>r DEF G!Finish, G!Exit, G!Wedge, G!OtherRunClaims
<1>4. ASSUME G!Die PROVE GrabInv' /\ submitted' = submitted
    <2>1. G!Death
        BY <1>4 DEF G!Die
    <2>2. stdout' \subseteq G!Lines /\ G!Answered' \subseteq G!Answered \union grabbing
              /\ grabbing' = {}
        BY <2>1, DeathAnswers
    <2> QED
        BY <1>4, <1>r, <2>2 DEF G!Die
<1> QED
    BY <1>1, <1>2, <1>3, <1>4 DEF G!ZGrabWork, G!Environment

-----------------------------------------------------------------------------
LEMMA CoverInit == Init => CoverInv
<1> SUFFICES ASSUME Init PROVE CoverInv
    OBVIOUS
<1>1. GrabInv
    BY GrabInvInit DEF Init
<1>2. Taken = 0 /\ 1 .. 0 = {}
    BY DEF Init, Taken
<1>3. HandedOver
    BY <1>2 DEF Init, HandedOver, G!Init
<1> QED
    BY <1>1, <1>3 DEF CoverInv

LEMMA CoverStep == ASSUME RunInv, CoverInv, [Next]_vars PROVE CoverInv'
<1>i. \A n \in Nat : \A i : i \in 1 .. n + 1 <=> i \in 1 .. n \/ i = n + 1
    OBVIOUS
<1>j. \A n \in Nat \ {0} : \A i : i \in 1 .. n <=> i \in 1 .. n - 1 \/ i = n
    OBVIOUS
<1> USE RefreshAssumption DEF RunInv, LoopOK, CoverInv, HandedOver
<1>n. attempted \in Nat /\ Len(KnownHosts) \in Nat /\ DOMAIN KnownHosts = 1 .. Len(KnownHosts)
    BY LenProperties
<1>g. ASSUME UNCHANGED grabberVars PROVE GrabInv'
    <2>1. UNCHANGED <<main, current, submitted, pending, unanswered, rows, reader, line,
                     stdin, grabbing, stdout>>
        BY <1>g DEF grabberVars
    <2>2. RowTypes'
        BY <2>1 DEF GrabInv, RowTypes
    <2>3. G!Recording' = G!Recording /\ G!Rowed' = G!Rowed /\ G!Answered' = G!Answered
        BY <2>1 DEF G!Recording, G!Rowed, G!Answered
    <2>4. Served'
        BY <2>1, <2>3 DEF GrabInv, Served
    <2> QED
        BY <2>2, <2>4 DEF GrabInv
<1>1. CASE Stop
    <2>1. GrabInv'
        BY <1>1, GrabInvClose DEF Stop
    <2>2. step = "checking" /\ step' = "closing" /\ attempted' = attempted /\ late' = late
              /\ submitted' = submitted /\ (attempted = Len(KnownHosts) \/ late)
        BY <1>1 DEF Stop, AtTop, G!CloseStdin
    <2>3. Taken' = Taken
        BY <2>2 DEF Taken
    <2> QED
        BY <2>1, <2>2, <2>3
<1>2. ASSUME NEW h \in Hosts, Skip(h) PROVE CoverInv'
    <2>1. /\ step = "checking" /\ step' = "checking" /\ attempted' = attempted + 1
          /\ submitted' = submitted /\ KnownHosts[attempted + 1] \in Blocked
          /\ UNCHANGED grabberVars
        BY <1>2 DEF Skip, TakeOn, AtTop, grabberVars
    <2>2. Taken = attempted /\ Taken' = attempted + 1
        BY <2>1 DEF Taken
    <2>3. \A i : i \in 1 .. attempted + 1 <=> i \in 1 .. attempted \/ i = attempted + 1
        BY <1>n, <1>i
    <2> QED
        BY <1>g, <2>1, <2>2, <2>3
<1>3. ASSUME NEW h \in Hosts, StartWait(h) PROVE CoverInv'
    <2>1. /\ step = "checking" /\ step' = "waiting" /\ attempted' = attempted + 1
          /\ submitted' = submitted /\ KnownHosts[attempted + 1] \notin Blocked
          /\ UNCHANGED grabberVars
        BY <1>3 DEF StartWait, TakeOn, AtTop, grabberVars
    <2>2. Taken' = Taken
        BY <1>n, <2>1 DEF Taken
    <2> QED
        BY <1>g, <2>1, <2>2
<1>4. CASE Wait
    <2>1. /\ step = "waiting" /\ step' \in {"waiting", "submitting"}
          /\ UNCHANGED <<grabberVars, late, attempted>>
        BY <1>4 DEF Wait
    <2>2. Taken' = Taken /\ submitted' = submitted
        BY <2>1 DEF Taken, grabberVars
    <2> QED
        BY <1>g, <2>1, <2>2
<1>5. CASE Submit
    <2>1. /\ step = "submitting" /\ step' = "checking" /\ attempted' = attempted
          /\ submitted' = submitted \union {KnownHosts[attempted]}
          /\ G!Submit(KnownHosts[attempted])
        BY <1>5 DEF Submit, G!Submit
    <2>2. attempted \in 1 .. Len(KnownHosts) /\ KnownHosts[attempted] \in Hosts
        BY <1>n, <2>1
    <2>3. GrabInv'
        BY <2>1, <2>2, GrabInvSubmit
    <2>4. Taken = attempted - 1 /\ Taken' = attempted
        BY <2>1 DEF Taken
    <2>5. attempted \in Nat \ {0}
        BY <1>n, <2>1
    <2>6. \A i : i \in 1 .. attempted <=> i \in 1 .. attempted - 1 \/ i = attempted
        BY <2>5, <1>j
    <2> QED
        BY <2>1, <2>2, <2>3, <2>4, <2>6
<1>6. CASE GrabberStep
    <2>1. GrabInv' /\ submitted' = submitted /\ UNCHANGED <<step, late, attempted>>
        BY <1>6, GrabInvMainStep DEF GrabberStep
    <2>2. main # "closed"
        BY <1>6 DEF GrabberStep, G!MainStep, G!WriteStdin, G!BrokenPipe, G!ReaderJoined,
           G!DrainGraceExpires, G!RejoinExpires, G!WaitOrKill, G!Reconcile,
           G!ReportUnanswered, G!Closed
    <2>3. Taken' = Taken
        BY <2>1 DEF Taken
    <2> QED
        BY <2>1, <2>2, <2>3
<1>7. CASE Report
    <2>1. /\ step = "closing" /\ step' = "done" /\ main = "closed"
          /\ UNCHANGED <<grabberVars, late, attempted>>
        BY <1>7 DEF Report
    <2>2. Taken' = Taken /\ submitted' = submitted /\ main' = main
        BY <2>1 DEF Taken, grabberVars
    <2> QED
        BY <1>g, <2>1, <2>2
<1>8. CASE ReaderStep \/ ZGrabWork \/ Environment
    <2>1. GrabInv' /\ submitted' = submitted /\ main' = main
        BY <1>8, GrabInvReaderStep, GrabInvOutside, ReaderStepFact, ZGrabWorkFact,
           EnvironmentFact DEF ReaderStep, ZGrabWork, Environment
    <2>2. UNCHANGED <<step, late, attempted>>
        BY <1>8 DEF ReaderStep, ZGrabWork, Environment, runVars
    <2>3. Taken' = Taken
        BY <2>2 DEF Taken
    <2> QED
        BY <2>1, <2>2, <2>3
<1>9. CASE TimePasses \/ UNCHANGED vars
    <2>1. UNCHANGED <<grabberVars, step, late, attempted>>
        BY <1>9 DEF TimePasses, vars, runVars
    <2>2. Taken' = Taken /\ submitted' = submitted /\ main' = main
        BY <2>1 DEF Taken, grabberVars
    <2> QED
        BY <1>g, <2>1, <2>2
<1>10. CASE DeadlinePasses
    <2>1. /\ UNCHANGED <<grabberVars, step, attempted>> /\ step = "checking"
        BY <1>10 DEF DeadlinePasses, AtTop
    <2>2. Taken' = Taken /\ submitted' = submitted
        BY <2>1 DEF Taken, grabberVars
    <2> QED
        BY <1>g, <2>1, <2>2
<1> QED BY <1>1, <1>2, <1>3, <1>4, <1>5, <1>6, <1>7, <1>8, <1>9, <1>10
        DEF Next, MainStep, Terminated

(* What a finished refresh run reports as covered has been dealt with, and *)
(* a host beyond has no row: also when ZGrab2 hung, when the store failed  *)
(* and when close() gave up a reader that a slow claim held.               *)
THEOREM Covers == Spec => []CoveredIsRecorded
<1>1. ASSUME CoverInv, RunInv PROVE CoveredIsRecorded
    <2> SUFFICES ASSUME step = "done" PROVE
            /\ \A h \in Covered \ Blocked : rows[h] # <<>> \/ h \in G!Recording
            /\ \A h \in Hosts : rows[h] # <<>> => h \in Covered \ Blocked
            /\ Covered = {KnownHosts[i] : i \in DOMAIN KnownHosts} \/ late
        BY DEF CoveredIsRecorded
    <2>1. submitted = Covered \ Blocked
        BY <1>1 DEF CoverInv, HandedOver, Taken, Covered
    <2>2. submitted \subseteq G!Recording \union G!Rowed /\ G!Rowed \subseteq submitted
        BY <1>1 DEF CoverInv, HandedOver, GrabInv, Served
    <2>3. Covered = {KnownHosts[i] : i \in DOMAIN KnownHosts} \/ late
        BY <1>1, RefreshAssumption, LenProperties DEF CoverInv, HandedOver, Covered
    <2> QED
        BY <2>1, <2>2, <2>3 DEF G!Rowed
<1>2. Spec => [](RunInv /\ CoverInv)
    <2>1. RunInv /\ CoverInv /\ [Next]_vars => CoverInv'
        BY CoverStep
    <2> QED
        BY <2>1, CoverInit, RunInvInit, RunInvStep, PTL DEF Spec
<1> QED
    BY <1>1, <1>2, PTL
=============================================================================
