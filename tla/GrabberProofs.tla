--------------------------- MODULE GrabberProofs ---------------------------
(***************************************************************************)
(* What TLAPS proves of Grabber for any set of hosts and fingerprints, any *)
(* pipe capacities and any number of senders.                              *)
(***************************************************************************)
EXTENDS Grabber, SequenceTheorems, FiniteSetTheorems, TLAPS

(* The reader holds a line it can record in the state it is in. *)
LineOK ==
    /\ reader \in {"recording", "normalizing", "claiming"} =>
           line \in Lines /\ line.result # "torn"
    /\ reader = "normalizing" => line.result \in Fingerprints \union {"unreadable"}
    /\ reader = "claiming" => line.result \in Fingerprints

(* The main thread writes an address it was given. *)
CurrentOK == main = "writing" => current \in Hosts

TypeInv == TypeOK /\ LineOK /\ CurrentOK

LEMMA TypeInit == Init => TypeInv
<1> SUFFICES ASSUME Init PROVE TypeInv
    OBVIOUS
<1>1. rows \in [Hosts -> Seq(Observations)] /\ newVersions \in Seq(Fingerprints)
    BY DEF Init
<1> QED
    BY <1>1 DEF Init, TypeInv, TypeOK, LineOK, CurrentOK, MainStates, ReaderStates,
       ZGrabStates

LEMMA TypeStep == TypeInv /\ [Next]_vars => TypeInv'
<1> SUFFICES ASSUME TypeInv, [Next]_vars PROVE TypeInv'
    OBVIOUS
<1> USE DEF TypeInv, TypeOK, LineOK, CurrentOK, mainVars, pipeVars, readerVars, outcomeVars
<1> USE DEF MainStates, ReaderStates, ZGrabStates
<1>1. ASSUME NEW h \in Hosts, Submit(h) PROVE TypeInv'
    BY <1>1 DEF Submit
<1>2. ASSUME NEW h \in Hosts, RecordClosed(h) PROVE TypeInv'
    BY <1>2 DEF RecordClosed, AppendRow, Observations
<1>3. CASE CloseStdin
    BY <1>3 DEF CloseStdin
<1>4. CASE WriteStdin
    BY <1>4 DEF WriteStdin
<1>5. CASE BrokenPipe
    BY <1>5 DEF BrokenPipe
<1>6. CASE ReaderJoined
    BY <1>6 DEF ReaderJoined
<1>7. CASE DrainGraceExpires
    BY <1>7 DEF DrainGraceExpires, Death, Lines
<1>8. CASE RejoinExpires
    BY <1>8 DEF RejoinExpires
<1>9. CASE WaitOrKill
    BY <1>9 DEF WaitOrKill
<1>10. CASE Reconcile
    BY <1>10 DEF Reconcile
<1>11. ASSUME NEW h \in Hosts, ReportUnanswered(h) PROVE TypeInv'
    BY <1>11 DEF ReportUnanswered, AppendRow, Observations, Results
<1>12. CASE Closed
    BY <1>12 DEF Closed
<1>13. ASSUME NEW l \in stdout, ReadLine(l) PROVE TypeInv'
    BY <1>13 DEF ReadLine, Lines
<1>14. ASSUME NEW l \in stdout, SkipTorn(l) PROVE TypeInv'
    BY <1>14 DEF SkipTorn
<1>15. CASE RecordFailed
    BY <1>15 DEF RecordFailed, AppendRow, Observations, Results, Lines
<1>16. CASE CountResponsive
    BY <1>16 DEF CountResponsive, Lines, Results
<1>17. CASE NormalizeRaises
    BY <1>17 DEF NormalizeRaises, AppendRow, Observations, Results, Lines
<1>18. CASE RecordSuccess
    BY <1>18 DEF RecordSuccess, AppendRow, Observations, Results, Lines
<1>19. CASE ClaimWon
    BY <1>19 DEF ClaimWon
<1>20. CASE ClaimLost
    BY <1>20 DEF ClaimLost
<1>21. CASE ClaimRaises
    BY <1>21 DEF ClaimRaises
<1>22. CASE ReaderEof
    BY <1>22 DEF ReaderEof
<1>23. ASSUME NEW h \in Hosts, Take(h) PROVE TypeInv'
    BY <1>23 DEF Take
<1>24. ASSUME NEW h \in Hosts, NEW r \in Results, Emit(h, r) PROVE TypeInv'
    BY <1>24 DEF Emit, Lines
<1>25. CASE Finish
    BY <1>25 DEF Finish
<1>26. CASE Exit
    BY <1>26 DEF Exit
<1>27. CASE Die
    BY <1>27 DEF Die, Death, Lines
<1>28. CASE Wedge
    BY <1>28 DEF Wedge
<1>29. ASSUME NEW f \in Fingerprints, OtherRunClaims(f) PROVE TypeInv'
    BY <1>29 DEF OtherRunClaims
<1>30. CASE UNCHANGED vars
    BY <1>30 DEF vars
<1> QED
    BY <1>1, <1>2, <1>3, <1>4, <1>5, <1>6, <1>7, <1>8, <1>9, <1>10, <1>11, <1>12, <1>13, <1>14, <1>15, <1>16, <1>17, <1>18, <1>19, <1>20, <1>21, <1>22, <1>23, <1>24, <1>25, <1>26, <1>27, <1>28, <1>29, <1>30
    DEF Next, Feed, MainStep, ReaderStep, ZGrabWork, Environment, Terminated

(* Every value the model computes has the type the code gives it.          *)
THEOREM TypeCorrect == Spec => []TypeOK
<1>1. TypeInv => TypeOK
    BY DEF TypeInv
<1> QED
    BY <1>1, TypeInit, TypeStep, PTL DEF Spec

-----------------------------------------------------------------------------
(* The strengthening that makes Custody inductive: which sets are already  *)
(* empty in which part of close(), and that the reader cannot end before   *)
(* ZGrab2's output has.  All of it lasts until the reader is abandoned.    *)
Phases == ~abandoned =>
    /\ main # "reporting" => unanswered = {}
    /\ main \in {"reporting", "closed"} => pending = {}
    /\ main \in {"waiting", "reconciling", "reporting", "closed"} => reader = "exited"
    /\ reader = "exited" => stdout = {} /\ zgrab \in {"lingering", "exited"}
    /\ stdin \union grabbing \union Answered \subseteq submitted

IInv == TypeInv /\ Custody /\ Phases /\ NoHostTwice

(* What one appended row changes. *)
LEMMA RowAppended ==
    ASSUME TypeInv, NoHostTwice, ~abandoned,
           NEW h \in Hosts, NEW o \in Observations, AppendRow(h, o), rows[h] = <<>>
    PROVE  Rowed' = Rowed \union {h} /\ NoHostTwice'
<1>1. \A k \in Hosts : rows'[k] = IF k = h THEN Append(<<>>, o) ELSE rows[k]
    BY DEF AppendRow, TypeInv, TypeOK
<1>2. Append(<<>>, o) # <<>> /\ Len(Append(<<>>, o)) = 1
    OBVIOUS
<1>3. Rowed' = Rowed \union {h}
    BY <1>1, <1>2 DEF Rowed
<1>4. ASSUME NEW k \in Hosts PROVE Len(rows'[k]) <= 1
    <2>1. CASE k = h
        <3>1. rows'[k] = Append(<<>>, o)
            BY <1>1, <2>1
        <3> QED
            BY <1>2, <3>1
    <2>2. CASE k # h
        BY <1>1, <2>2 DEF NoHostTwice
    <2> QED
        BY <2>1, <2>2
<1> QED
    BY <1>3, <1>4 DEF NoHostTwice

LEMMA CustodyInit == Init => IInv
<1> SUFFICES ASSUME Init PROVE IInv
    OBVIOUS
<1>1. Custody
    BY DEF Init, Custody, Recording, Answered, Rowed
<1>2. Phases /\ NoHostTwice
    BY DEF Init, Phases, NoHostTwice, Answered
<1> QED
    BY <1>1, <1>2, TypeInit DEF IInv

(* Once the reader is abandoned it stays so; only RejoinExpires does it.   *)
LEMMA AbandonedOnce ==
    ASSUME TypeInv, [Next]_vars
    PROVE  IF abandoned \/ RejoinExpires THEN abandoned' = TRUE ELSE abandoned' = abandoned
<1>1. CASE RejoinExpires
    BY <1>1 DEF RejoinExpires
<1>2. CASE ~RejoinExpires
    <2>1. abandoned' = abandoned
        BY <1>2 DEF Next, Feed, Submit, RecordClosed, CloseStdin, MainStep,
           WriteStdin, BrokenPipe, ReaderJoined, DrainGraceExpires,
           WaitOrKill, Reconcile, ReportUnanswered, Closed, ReaderStep, ReadLine,
           SkipTorn, RecordFailed, CountResponsive, NormalizeRaises, RecordSuccess,
           ClaimWon, ClaimLost, ClaimRaises, ReaderEof, ZGrabWork, Take, Emit,
           Finish, Exit, Environment, Die, Wedge, OtherRunClaims, Terminated,
           vars, mainVars
    <2> QED
        BY <1>2, <2>1 DEF TypeInv, TypeOK
<1> QED
    BY <1>1, <1>2

(* One step keeps the custody of every host. *)
LEMMA CustodyStep ==
    ASSUME IInv, [Next]_vars
    PROVE  IInv'
<1>t. TypeInv'
    BY TypeStep DEF IInv
<1>0. CASE abandoned \/ RejoinExpires
    BY <1>0, <1>t, AbandonedOnce DEF IInv, Custody, Phases, NoHostTwice
<1> SUFFICES ASSUME ~abandoned, ~abandoned', ~RejoinExpires
             PROVE  (Custody /\ Phases /\ NoHostTwice)'
    BY <1>0, <1>t, AbandonedOnce DEF IInv
<1>r. ASSUME UNCHANGED rows PROVE Rowed' = Rowed /\ NoHostTwice'
    BY <1>r DEF Rowed, NoHostTwice, IInv
<1>a. ASSUME NEW h \in Hosts, NEW o \in Observations, AppendRow(h, o), h \notin Rowed
      PROVE  Rowed' = Rowed \union {h} /\ NoHostTwice'
    BY <1>a, RowAppended DEF IInv, Rowed
<1> USE DEF IInv, TypeInv, TypeOK, LineOK, CurrentOK, Phases, Custody
<1> USE DEF Recording, Answered, mainVars, pipeVars, readerVars, outcomeVars
<1>1. ASSUME NEW h \in Hosts, Submit(h) PROVE (Custody /\ Phases /\ NoHostTwice)'
    <2>1. h \notin Rowed /\ h \notin submitted
        BY <1>1 DEF Submit, Fresh, Rowed
    <2> QED
        BY <1>1, <1>r, <2>1 DEF Submit
<1>2. ASSUME NEW h \in Hosts, RecordClosed(h) PROVE (Custody /\ Phases /\ NoHostTwice)'
    <2>1. h \notin Rowed /\ h \notin submitted
        BY <1>2 DEF RecordClosed, Fresh, Rowed
    <2>2. Rowed' = Rowed \union {h} /\ NoHostTwice'
        BY <1>2, <1>a, <2>1 DEF RecordClosed, Observations
    <2> QED
        BY <1>2, <2>1, <2>2 DEF RecordClosed
<1>3. ASSUME WriteStdin PROVE (Custody /\ Phases /\ NoHostTwice)'
    BY <1>3, <1>r DEF WriteStdin
<1>4. ASSUME BrokenPipe PROVE (Custody /\ Phases /\ NoHostTwice)'
    BY <1>4, <1>r DEF BrokenPipe
<1>5. ASSUME CloseStdin PROVE (Custody /\ Phases /\ NoHostTwice)'
    BY <1>5, <1>r DEF CloseStdin
<1>6. ASSUME ReaderJoined PROVE (Custody /\ Phases /\ NoHostTwice)'
    BY <1>6, <1>r DEF ReaderJoined
<1>7. ASSUME DrainGraceExpires PROVE (Custody /\ Phases /\ NoHostTwice)'
    <2>1. \/ stdout' = stdout
          \/ \E h \in grabbing : stdout' = stdout \union {[ip |-> h, result |-> "torn"]}
        BY <1>7 DEF DrainGraceExpires, Death
    <2>2. Answered' \subseteq Answered \union grabbing /\ grabbing' = {}
        BY <1>7, <2>1 DEF DrainGraceExpires, Death
    <2>3. \A l, m \in stdout' : l.ip = m.ip => l = m
        BY <2>1
    <2> QED
        BY <1>7, <1>r, <2>2, <2>3 DEF DrainGraceExpires, Death
<1>8. ASSUME WaitOrKill PROVE (Custody /\ Phases /\ NoHostTwice)'
    BY <1>8, <1>r DEF WaitOrKill
<1>9. ASSUME Reconcile PROVE (Custody /\ Phases /\ NoHostTwice)'
    BY <1>9, <1>r DEF Reconcile
<1>10. ASSUME NEW h \in Hosts, ReportUnanswered(h) PROVE (Custody /\ Phases /\ NoHostTwice)'
    <2>1. Rowed' = Rowed \union {h} /\ NoHostTwice'
        BY <1>10, <1>a DEF ReportUnanswered, Observations, Results
    <2> QED
        BY <1>10, <2>1 DEF ReportUnanswered
<1>11. ASSUME Closed PROVE (Custody /\ Phases /\ NoHostTwice)'
    BY <1>11, <1>r DEF Closed
<1>12. ASSUME NEW l \in stdout, ReadLine(l) PROVE (Custody /\ Phases /\ NoHostTwice)'
    BY <1>12, <1>r DEF ReadLine
<1>13. ASSUME NEW l \in stdout, SkipTorn(l) PROVE (Custody /\ Phases /\ NoHostTwice)'
    BY <1>13, <1>r DEF SkipTorn
<1>14. ASSUME RecordFailed PROVE (Custody /\ Phases /\ NoHostTwice)'
    <2>1. line.ip \in Hosts /\ line.ip \notin Rowed
        BY <1>14 DEF RecordFailed, Lines
    <2>2. Rowed' = Rowed \union {line.ip} /\ NoHostTwice'
        BY <1>14, <1>a, <2>1 DEF RecordFailed, Observations, Results
    <2> QED
        BY <1>14, <2>1, <2>2 DEF RecordFailed
<1>15. ASSUME CountResponsive PROVE (Custody /\ Phases /\ NoHostTwice)'
    BY <1>15, <1>r DEF CountResponsive
<1>16. ASSUME NormalizeRaises PROVE (Custody /\ Phases /\ NoHostTwice)'
    <2>1. line.ip \in Hosts /\ line.ip \notin Rowed
        BY <1>16 DEF NormalizeRaises, Lines
    <2>2. Rowed' = Rowed \union {line.ip} /\ NoHostTwice'
        BY <1>16, <1>a, <2>1 DEF NormalizeRaises, Observations, Results
    <2> QED
        BY <1>16, <2>1, <2>2 DEF NormalizeRaises
<1>17. ASSUME RecordSuccess PROVE (Custody /\ Phases /\ NoHostTwice)'
    <2>1. line.ip \in Hosts /\ line.ip \notin Rowed
        BY <1>17 DEF RecordSuccess, Lines
    <2>2. Rowed' = Rowed \union {line.ip} /\ NoHostTwice'
        BY <1>17, <1>a, <2>1 DEF RecordSuccess, Observations, Results
    <2> QED
        BY <1>17, <2>1, <2>2 DEF RecordSuccess
<1>18. ASSUME ClaimWon PROVE (Custody /\ Phases /\ NoHostTwice)'
    BY <1>18, <1>r DEF ClaimWon
<1>19. ASSUME ClaimLost PROVE (Custody /\ Phases /\ NoHostTwice)'
    BY <1>19, <1>r DEF ClaimLost
<1>20. ASSUME ClaimRaises PROVE (Custody /\ Phases /\ NoHostTwice)'
    BY <1>20, <1>r DEF ClaimRaises
<1>21. ASSUME ReaderEof PROVE (Custody /\ Phases /\ NoHostTwice)'
    BY <1>21, <1>r DEF ReaderEof
<1>22. ASSUME NEW h \in Hosts, Take(h) PROVE (Custody /\ Phases /\ NoHostTwice)'
    BY <1>22, <1>r DEF Take
<1>23. ASSUME NEW h \in Hosts, NEW r \in Results, Emit(h, r) PROVE (Custody /\ Phases /\ NoHostTwice)'
    BY <1>23, <1>r DEF Emit
<1>24. ASSUME Finish PROVE (Custody /\ Phases /\ NoHostTwice)'
    BY <1>24, <1>r DEF Finish
<1>25. ASSUME Exit PROVE (Custody /\ Phases /\ NoHostTwice)'
    BY <1>25, <1>r DEF Exit
<1>26. ASSUME Die PROVE (Custody /\ Phases /\ NoHostTwice)'
    <2>1. \/ stdout' = stdout
          \/ \E h \in grabbing : stdout' = stdout \union {[ip |-> h, result |-> "torn"]}
        BY <1>26 DEF Die, Death
    <2>2. Answered' \subseteq Answered \union grabbing /\ grabbing' = {}
        BY <1>26, <2>1 DEF Die, Death
    <2>3. \A l, m \in stdout' : l.ip = m.ip => l = m
        BY <2>1
    <2> QED
        BY <1>26, <1>r, <2>2, <2>3 DEF Die, Death
<1>27. ASSUME Wedge PROVE (Custody /\ Phases /\ NoHostTwice)'
    BY <1>27, <1>r DEF Wedge
<1>28. ASSUME NEW f \in Fingerprints, OtherRunClaims(f) PROVE (Custody /\ Phases /\ NoHostTwice)'
    BY <1>28, <1>r DEF OtherRunClaims
<1>29. ASSUME UNCHANGED vars PROVE (Custody /\ Phases /\ NoHostTwice)'
    BY <1>29, <1>r DEF vars
<1> QED
    BY <1>1, <1>2, <1>3, <1>4, <1>5, <1>6, <1>7, <1>8, <1>9, <1>10, <1>11, <1>12, <1>13, <1>14, <1>15, <1>16, <1>17, <1>18, <1>19, <1>20, <1>21, <1>22, <1>23, <1>24, <1>25, <1>26, <1>27, <1>28, <1>29
    DEF Next, Feed, MainStep, ReaderStep, ZGrabWork, Environment, Terminated

LEMMA CustodyInvariant == Spec => []IInv
<1>1. IInv /\ [Next]_vars => IInv'
    BY CustodyStep
<1> QED
    BY <1>1, CustodyInit, PTL DEF Spec

(* Until the reader is abandoned, every submitted host is at all times in  *)
(* exactly one custody.                                                    *)
THEOREM CustodyKept == Spec => []Custody
<1>1. IInv => Custody
    BY DEF IInv
<1> QED
    BY <1>1, CustodyInvariant, PTL

(* A close() that did not abandon the reader returns with a row for every  *)
(* host handed to submit(), whatever ZGrab2 and the store did.             *)
THEOREM NoneLost == Spec => []NoHostLost
<1>1. IInv => NoHostLost
    BY DEF IInv, Custody, Phases, NoHostLost, Recording
<1> QED
    BY <1>1, CustodyInvariant, PTL

(* Until the reader is abandoned, no host gets two rows.                   *)
THEOREM NoneTwice == Spec => []NoHostTwice
<1>1. IInv => NoHostTwice
    BY DEF IInv
<1> QED
    BY <1>1, CustodyInvariant, PTL

(* The outcome does not change once a close() that did not abandon the     *)
(* reader has returned.                                                    *)
THEOREM ReportFinal == Spec => ReportIsFinal
<1>1. ASSUME IInv, [Next]_vars, main = "closed", ~abandoned PROVE UNCHANGED outcomeVars
    <2>1. reader = "exited"
        BY <1>1 DEF IInv, Phases
    <2> QED
        BY <1>1, <2>1 DEF Next, Feed, Submit, RecordClosed, CloseStdin, MainStep,
           WriteStdin, BrokenPipe, ReaderJoined, DrainGraceExpires, RejoinExpires,
           WaitOrKill, Reconcile, ReportUnanswered, Closed, ReaderStep, ReadLine,
           SkipTorn, RecordFailed, CountResponsive, NormalizeRaises, RecordSuccess,
           ClaimWon, ClaimLost, ClaimRaises, ReaderEof, ZGrabWork, Take, Emit,
           Finish, Exit, Environment, Die, Wedge, OtherRunClaims, Terminated,
           vars, outcomeVars
<1> QED
    BY <1>1, CustodyInvariant, PTL DEF Spec, ReportIsFinal

-----------------------------------------------------------------------------
(* The refinement: each step of the grabber is a step of the ledger, or    *)
(* one the ledger does not see.                                            *)
LEMMA LedgerInit == Init => Ledger!Init
<1> SUFFICES ASSUME Init PROVE Ledger!Init
    OBVIOUS
<1>1. \A h \in Hosts : Len(rows[h]) = 0
    BY DEF Init
<1> QED
    BY <1>1 DEF Init, Ledger!Init

LEMMA RowSettles ==
    ASSUME IInv, main # "closed", main' = main, UNCHANGED <<submitted, abandoned>>,
           NEW h \in Hosts, NEW o \in Observations, AppendRow(h, o), rows[h] = <<>>
    PROVE  Ledger!Settle(h)
<1>1. rows \in [Hosts -> Seq(Observations)]
    BY DEF IInv, TypeInv, TypeOK
<1>2. \A k \in Hosts : rows'[k] = IF k = h THEN Append(<<>>, o) ELSE rows[k]
    BY <1>1 DEF AppendRow
<1>3. Len(Append(<<>>, o)) = 1 /\ Len(rows[h]) = 0
    OBVIOUS
<1>4. [k \in Hosts |-> Len(rows'[k])] = [[k \in Hosts |-> Len(rows[k])] EXCEPT ![h] = 1]
    BY <1>2, <1>3
<1> QED
    BY <1>3, <1>4 DEF Ledger!Settle

LEMMA LedgerStep ==
    ASSUME IInv, [Next]_vars
    PROVE  [Ledger!Next]_(Ledger!ledgerVars)
<1>0. CASE abandoned
    BY <1>0, AbandonedOnce DEF IInv, Ledger!Next, Ledger!Unvouched
<1>w. CASE ~abandoned /\ RejoinExpires
    <2>1. Ledger!Waive
        BY <1>w DEF RejoinExpires, outcomeVars, Ledger!Waive
    <2> QED
        BY <2>1 DEF Ledger!Next
<1> SUFFICES ASSUME ~abandoned, ~RejoinExpires
             PROVE  [Ledger!Next]_(Ledger!ledgerVars)
    BY <1>0, <1>w
<1>u. ASSUME UNCHANGED <<submitted, rows, abandoned>>, (main = "closed") = (main' = "closed")
      PROVE  UNCHANGED Ledger!ledgerVars
    BY <1>u DEF Ledger!ledgerVars
<1>s. ASSUME NEW h \in Hosts, Ledger!Settle(h) PROVE Ledger!Next
    BY <1>s DEF Ledger!Next
<1> USE DEF mainVars, pipeVars, readerVars, outcomeVars
<1>1. ASSUME NEW h \in Hosts, Submit(h) PROVE Ledger!Next
    <2>1. Len(rows[h]) = 0
        BY <1>1 DEF Submit, Fresh
    <2>2. Ledger!Owe(h)
        BY <1>1, <2>1 DEF Submit, Fresh, Ledger!Owe
    <2> QED
        BY <2>2 DEF Ledger!Next
<1>2. ASSUME NEW h \in Hosts, RecordClosed(h) PROVE Ledger!Next
    BY <1>2, <1>s, RowSettles DEF RecordClosed, Fresh, Observations
<1>3. ASSUME NEW h \in Hosts, ReportUnanswered(h) PROVE Ledger!Next
    <2>1. rows[h] = <<>>
        BY <1>3 DEF ReportUnanswered, IInv, Custody, Rowed
    <2> QED
        BY <1>3, <1>s, <2>1, RowSettles
        DEF ReportUnanswered, Observations, Results
<1>4. ASSUME RecordFailed \/ NormalizeRaises \/ RecordSuccess PROVE Ledger!Next
    <2>1. line.ip \in Hosts /\ rows[line.ip] = <<>>
        BY <1>4 DEF RecordFailed, NormalizeRaises, RecordSuccess, IInv, TypeInv,
           LineOK, Lines, Custody, Recording, Rowed
    <2>2. main # "closed"
        BY <1>4 DEF RecordFailed, NormalizeRaises, RecordSuccess, IInv, Phases
    <2>3. PICK h \in Hosts : h = line.ip
        BY <2>1
    <2>4. PICK o \in Observations : AppendRow(h, o)
        BY <1>4, <2>3 DEF RecordFailed, NormalizeRaises, RecordSuccess,
           Observations, Results, AppendRow
    <2>5. main' = main /\ submitted' = submitted /\ abandoned' = abandoned
        BY <1>4 DEF RecordFailed, NormalizeRaises, RecordSuccess
    <2>6. Ledger!Settle(h)
        BY <2>1, <2>2, <2>3, <2>4, <2>5, RowSettles
    <2> QED
        BY <1>s, <2>6
<1>5. ASSUME Closed PROVE Ledger!Next
    <2>1. \A h \in submitted : Len(rows[h]) = 1
        <3>1. submitted \subseteq Rowed /\ Rowed \subseteq Hosts
            BY <1>5 DEF Closed, IInv, Custody, Phases, Recording, Rowed
        <3>2. \A h \in Hosts : rows[h] \in Seq(Observations) /\ Len(rows[h]) <= 1
            BY DEF IInv, TypeInv, TypeOK, NoHostTwice
        <3>3. \A h \in submitted : rows[h] # <<>>
            BY <3>1 DEF Rowed
        <3>4. ASSUME NEW x \in Seq(Observations), x # <<>>, Len(x) <= 1
              PROVE  Len(x) = 1
            <4>1. Len(x) \in Nat /\ Len(x) # 0
                BY <3>4, EmptySeq
            <4>2. \A n \in Nat : n # 0 /\ n <= 1 => n = 1
                OBVIOUS
            <4> QED
                BY <3>4, <4>1, <4>2
        <3> QED
            BY <3>1, <3>2, <3>3, <3>4
    <2>2. \A h \in submitted : h \in Hosts
        BY DEF IInv, TypeInv, TypeOK
    <2>3. Ledger!Report
        BY <1>5, <2>1, <2>2 DEF Closed, Ledger!Report
    <2> QED
        BY <2>3 DEF Ledger!Next
<1>6. ASSUME CloseStdin \/ WriteStdin \/ BrokenPipe \/ ReaderJoined
             \/ DrainGraceExpires \/ WaitOrKill \/ Reconcile
      PROVE  UNCHANGED Ledger!ledgerVars
    BY <1>6, <1>u DEF CloseStdin, WriteStdin, BrokenPipe, ReaderJoined,
       DrainGraceExpires, WaitOrKill, Reconcile
<1>7. ASSUME (\E l \in stdout : ReadLine(l) \/ SkipTorn(l)) \/ CountResponsive
             \/ ClaimWon \/ ClaimLost \/ ClaimRaises \/ ReaderEof
      PROVE  UNCHANGED Ledger!ledgerVars
    BY <1>7, <1>u DEF ReadLine, SkipTorn, CountResponsive, ClaimWon, ClaimLost,
       ClaimRaises, ReaderEof
<1>8. ASSUME ZGrabWork \/ Environment \/ Terminated \/ UNCHANGED vars
      PROVE  UNCHANGED Ledger!ledgerVars
    BY <1>8, <1>u DEF ZGrabWork, Take, Emit, Finish, Exit, Environment, Die, Wedge,
       OtherRunClaims, Terminated, vars
<1> QED
    BY <1>1, <1>2, <1>3, <1>4, <1>5, <1>6, <1>7, <1>8
    DEF Next, Feed, MainStep, ReaderStep

(* The grabber implements the ledger: one row per host taken on, and a     *)
(* report only when nothing is owed; it waives this when close() abandons  *)
(* the reader, and then only.                                              *)
THEOREM GrabberImplementsLedger == Spec => ImplementsLedger
<1>1. IInv /\ [Next]_vars => [Ledger!Next]_(Ledger!ledgerVars)
    BY LedgerStep
<1> QED
    BY <1>1, LedgerInit, CustodyInvariant, PTL DEF Spec, ImplementsLedger, Ledger!Spec

-----------------------------------------------------------------------------
(* The count of responsive hosts.  It does not depend on close(): a host   *)
(* on its way to a row is in one place of the pipes and has no row of a    *)
(* grab that worked, so that the reader counts it once, even after close() *)
(* has abandoned the reader and reported the host.                         *)
Worked == {h \in Hosts : \E i \in DOMAIN rows[h] :
               rows[h][i] \in Fingerprints \union {"unreadable"}}
BeingWritten == IF main = "writing" THEN {current} ELSE {}
OnTheWay == stdin \union grabbing \union Answered \union Recording \union BeingWritten

OnePlace ==
    /\ stdin \intersect (grabbing \union Answered \union Recording \union BeingWritten) = {}
    /\ grabbing \intersect (Answered \union Recording \union BeingWritten) = {}
    /\ Answered \intersect (Recording \union BeingWritten) = {}
    /\ Recording \intersect BeingWritten = {}
    /\ \A l, m \in stdout : l.ip = m.ip => l = m
    /\ OnTheWay \subseteq submitted
    /\ OnTheWay \intersect Worked = {}

CountInv == TypeInv /\ OnePlace /\ IsFiniteSet(Worked) /\ ResponsiveCounted

LEMMA WorkedAppended ==
    ASSUME TypeInv, NEW h \in Hosts, NEW o \in Observations, AppendRow(h, o)
    PROVE  Worked' = IF o \in Fingerprints \union {"unreadable"} THEN Worked \union {h} ELSE Worked
<1> DEFINE s == rows[h]
<1>1. s \in Seq(Observations) /\ Len(s) \in Nat /\ DOMAIN s = 1 .. Len(s)
    BY LenProperties DEF TypeInv, TypeOK
<1>2. /\ DOMAIN Append(s, o) = 1 .. Len(s) + 1
      /\ \A i \in 1 .. Len(s) : Append(s, o)[i] = s[i]
      /\ Append(s, o)[Len(s) + 1] = o
    BY <1>1, AppendProperties
<1>3. \A k \in Hosts : rows'[k] = IF k = h THEN Append(s, o) ELSE rows[k]
    BY DEF AppendRow, TypeInv, TypeOK
<1> HIDE DEF s
<1>4. (\E i \in DOMAIN Append(s, o) : Append(s, o)[i] \in Fingerprints \union {"unreadable"})
          <=> (\E i \in DOMAIN s : s[i] \in Fingerprints \union {"unreadable"})
                  \/ o \in Fingerprints \union {"unreadable"}
    <2>1. \A i \in 1 .. Len(s) + 1 : i \in 1 .. Len(s) \/ i = Len(s) + 1
        BY <1>1
    <2>2. 1 .. Len(s) \subseteq 1 .. Len(s) + 1 /\ Len(s) + 1 \in 1 .. Len(s) + 1
        BY <1>1
    <2> QED
        BY <1>1, <1>2, <2>1, <2>2
<1>5. h \in Worked <=> \E i \in DOMAIN s : s[i] \in Fingerprints \union {"unreadable"}
    BY DEF Worked, s
<1>6. h \in Worked' <=> h \in Worked \/ o \in Fingerprints \union {"unreadable"}
    BY <1>3, <1>4, <1>5 DEF Worked
<1>7. \A k \in Hosts : k # h => (k \in Worked' <=> k \in Worked)
    BY <1>3 DEF Worked
<1>8. Worked \subseteq Hosts /\ Worked' \subseteq Hosts
    BY DEF Worked
<1> QED
    BY <1>6, <1>7, <1>8

LEMMA CountInit == Init => CountInv
<1> SUFFICES ASSUME Init PROVE CountInv
    OBVIOUS
<1>1. Worked = {}
    BY DEF Init, Worked
<1>2. ResponsiveCounted
    <2>1. Cardinality(Worked) = 0 /\ responsive = 0 /\ reader # "normalizing"
        BY <1>1, FS_EmptySet DEF Init
    <2> QED
        BY <2>1 DEF ResponsiveCounted, Worked
<1>3. OnePlace
    BY DEF Init, OnePlace, OnTheWay, Answered, Recording, BeingWritten
<1> QED
    BY <1>1, <1>2, <1>3, FS_EmptySet, TypeInit DEF CountInv

LEMMA CountStep == ASSUME CountInv, [Next]_vars PROVE CountInv'
<1>t. TypeInv /\ TypeInv'
    BY TypeStep DEF CountInv
<1>n. Cardinality(Worked) \in Nat /\ IsFiniteSet(Worked) /\ responsive \in Nat
    BY FS_CardinalityType DEF CountInv, TypeInv, TypeOK
<1>c. /\ responsive = Cardinality(Worked) + (IF reader = "normalizing" THEN 1 ELSE 0)
      /\ responsive' = Cardinality(Worked') + (IF reader' = "normalizing" THEN 1 ELSE 0)
             => ResponsiveCounted'
    BY DEF CountInv, ResponsiveCounted, Worked
<1> SUFFICES /\ OnePlace' /\ IsFiniteSet(Worked')
             /\ responsive' = Cardinality(Worked') + (IF reader' = "normalizing" THEN 1 ELSE 0)
    BY <1>t, <1>c DEF CountInv
<1> DEFINE Kept == Worked' = Worked /\ responsive' = responsive
                     /\ (reader' = "normalizing" <=> reader = "normalizing")
<1>k. ASSUME Kept
      PROVE  /\ IsFiniteSet(Worked')
             /\ responsive' = Cardinality(Worked') + (IF reader' = "normalizing" THEN 1 ELSE 0)
    BY <1>k, <1>n, <1>c
<1>r. ASSUME UNCHANGED <<rows, responsive>>, reader' = "normalizing" <=> reader = "normalizing"
      PROVE  Kept
    BY <1>r DEF Worked
<1>u. "closed" \notin Fingerprints \union {"unreadable"} /\ "failed" \notin Fingerprints \union {"unreadable"}
    BY DataAssumption
<1>h. /\ OnePlace
      /\ reader \in {"recording", "normalizing"} => line.ip \in Hosts /\ line.ip \in submitted
                                                      /\ line.ip \notin Worked
    BY DEF CountInv, OnePlace, OnTheWay, Recording, TypeInv, LineOK, Lines
<1> HIDE DEF Kept
<1> USE DEF mainVars, pipeVars, readerVars, outcomeVars
<1> USE DEF OnePlace, OnTheWay, BeingWritten, Answered, Recording
<1>w. Kept => Worked' = Worked
    BY DEF Kept
<1>1. ASSUME NEW h \in Hosts, Submit(h) PROVE Kept /\ OnePlace'
    <2>1. h \notin Worked /\ h \notin submitted
        BY <1>1 DEF Submit, Fresh, Worked
    <2>2. Kept
        BY <1>1, <1>r DEF Submit
    <2> QED
        BY <1>1, <1>h, <1>w, <2>1, <2>2 DEF Submit
<1>2. ASSUME NEW h \in Hosts, RecordClosed(h) PROVE Kept /\ OnePlace'
    <2>1. Kept
        BY <1>2, <1>t, <1>u, WorkedAppended DEF RecordClosed, Observations, Kept
    <2> QED
        BY <1>2, <1>h, <1>w, <2>1 DEF RecordClosed
<1>3. ASSUME CloseStdin \/ WriteStdin \/ BrokenPipe \/ ReaderJoined \/ RejoinExpires
             \/ WaitOrKill \/ Reconcile \/ Closed
      PROVE  Kept /\ OnePlace'
    <2>1. Kept
        BY <1>3, <1>r DEF CloseStdin, WriteStdin, BrokenPipe, ReaderJoined, RejoinExpires,
           WaitOrKill, Reconcile, Closed
    <2> QED
        BY <1>3, <1>h, <1>w, <2>1 DEF CloseStdin, WriteStdin, BrokenPipe, ReaderJoined,
           RejoinExpires, WaitOrKill, Reconcile, Closed
<1>4. ASSUME DrainGraceExpires \/ Die PROVE Kept /\ OnePlace'
    <2>1. Kept
        BY <1>4, <1>r DEF DrainGraceExpires, Die
    <2>2. \/ stdout' = stdout
          \/ \E h \in grabbing : stdout' = stdout \union {[ip |-> h, result |-> "torn"]}
        BY <1>4 DEF DrainGraceExpires, Die, Death
    <2>3. Answered' \subseteq Answered \union grabbing /\ grabbing' = {}
        BY <1>4, <2>2 DEF DrainGraceExpires, Die, Death
    <2>4. \A l, m \in stdout' : l.ip = m.ip => l = m
        BY <1>h, <2>2
    <2>5. /\ UNCHANGED <<submitted, stdin, reader, line>>
          /\ BeingWritten' = BeingWritten
        BY <1>4 DEF DrainGraceExpires, Die
    <2>6. Recording' = Recording /\ Worked' = Worked /\ Answered' \intersect stdin' = {}
        BY <1>h, <1>w, <2>1, <2>3, <2>5
    <2>7. Answered' \intersect (Recording \union BeingWritten) = {}
        BY <1>h, <2>3
    <2>8. OnTheWay' \subseteq OnTheWay
        BY <2>3, <2>5, <2>6
    <2> HIDE DEF OnTheWay, BeingWritten, Answered, Recording
    <2>9. OnePlace'
        BY <1>h, <2>3, <2>4, <2>5, <2>6, <2>7, <2>8
    <2> QED
        BY <2>1, <2>9
<1>5. ASSUME NEW h \in Hosts, ReportUnanswered(h) PROVE Kept /\ OnePlace'
    <2>1. Kept
        BY <1>5, <1>t, <1>u, WorkedAppended DEF ReportUnanswered, Observations, Results, Kept
    <2> QED
        BY <1>5, <1>h, <1>w, <2>1 DEF ReportUnanswered
<1>6. ASSUME NEW l \in stdout, ReadLine(l) PROVE Kept /\ OnePlace'
    <2>1. Kept
        BY <1>6, <1>r DEF ReadLine
    <2> QED
        BY <1>6, <1>h, <1>w, <2>1 DEF ReadLine
<1>7. ASSUME NEW l \in stdout, SkipTorn(l) PROVE Kept /\ OnePlace'
    <2>1. Kept
        BY <1>7, <1>r DEF SkipTorn
    <2> QED
        BY <1>7, <1>h, <1>w, <2>1 DEF SkipTorn
<1>8. ASSUME RecordFailed PROVE Kept /\ OnePlace'
    <2>1. Kept
        BY <1>8, <1>t, <1>u, <1>h, WorkedAppended DEF RecordFailed, Observations, Results, Kept
    <2> QED
        BY <1>8, <1>h, <1>w, <2>1 DEF RecordFailed
<1>9. ASSUME CountResponsive
      PROVE  /\ OnePlace' /\ IsFiniteSet(Worked')
             /\ responsive' = Cardinality(Worked') + (IF reader' = "normalizing" THEN 1 ELSE 0)
    <2>1. Worked' = Worked
        BY <1>9 DEF CountResponsive, Worked
    <2>2. responsive' = Cardinality(Worked) + 1 /\ reader' = "normalizing"
        BY <1>9, <1>c, <1>n DEF CountResponsive
    <2>3. OnePlace'
        BY <1>9, <1>h, <2>1 DEF CountResponsive
    <2> QED
        BY <1>n, <2>1, <2>2, <2>3
<1>10. ASSUME NormalizeRaises \/ RecordSuccess
       PROVE  /\ OnePlace' /\ IsFiniteSet(Worked')
              /\ responsive' = Cardinality(Worked') + (IF reader' = "normalizing" THEN 1 ELSE 0)
    <2>1. line.ip \in Hosts /\ line.ip \notin Worked /\ reader = "normalizing"
          /\ reader' # "normalizing" /\ responsive' = responsive
        BY <1>10, <1>h DEF NormalizeRaises, RecordSuccess
    <2>2. Worked' = Worked \union {line.ip}
        BY <1>10, <1>t, <2>1, WorkedAppended DEF NormalizeRaises, RecordSuccess, Observations, Results
    <2>3. IsFiniteSet(Worked') /\ Cardinality(Worked') = Cardinality(Worked) + 1
        BY <1>n, <2>1, <2>2, FS_AddElement
    <2>4. OnePlace'
        BY <1>10, <1>h, <2>2 DEF NormalizeRaises, RecordSuccess
    <2> QED
        BY <1>c, <2>1, <2>3, <2>4
<1>11. ASSUME ClaimWon \/ ClaimLost \/ ClaimRaises \/ ReaderEof PROVE Kept /\ OnePlace'
    <2>1. Kept
        BY <1>11, <1>r DEF ClaimWon, ClaimLost, ClaimRaises, ReaderEof
    <2> QED
        BY <1>11, <1>h, <1>w, <2>1 DEF ClaimWon, ClaimLost, ClaimRaises, ReaderEof
<1>12. ASSUME NEW h \in Hosts, Take(h) PROVE Kept /\ OnePlace'
    <2>1. Kept
        BY <1>12, <1>r DEF Take
    <2> QED
        BY <1>12, <1>h, <1>w, <2>1 DEF Take
<1>13. ASSUME NEW h \in Hosts, NEW o \in Results, Emit(h, o) PROVE Kept /\ OnePlace'
    <2>1. Kept
        BY <1>13, <1>r DEF Emit
    <2> QED
        BY <1>13, <1>h, <1>w, <2>1 DEF Emit
<1>14. ASSUME Finish \/ Exit \/ Wedge \/ (\E f \in Fingerprints : OtherRunClaims(f)) \/ UNCHANGED vars
       PROVE  Kept /\ OnePlace'
    <2>1. UNCHANGED <<mainVars, readerVars, outcomeVars, stdin, grabbing, stdout>>
        BY <1>14 DEF Finish, Exit, Wedge, OtherRunClaims, vars
    <2>2. Kept
        BY <1>r, <2>1
    <2> QED
        BY <1>h, <1>w, <2>1, <2>2
<1> QED
    BY <1>k, <1>1, <1>2, <1>3, <1>4, <1>5, <1>6, <1>7, <1>8, <1>9, <1>10, <1>11, <1>12, <1>13, <1>14
    DEF Next, Feed, MainStep, ReaderStep, ZGrabWork, Environment, Terminated

(* hosts_responsive is the number of hosts with a row of a grab that       *)
(* worked, and one more only while such a host is being normalized: also   *)
(* when ZGrab2 dies, a claim raises or close() abandons the reader.        *)
THEOREM Counted == Spec => []ResponsiveCounted
<1>1. Spec => []CountInv
    BY CountInit, CountStep, PTL DEF Spec
<1>2. CountInv => ResponsiveCounted
    BY DEF CountInv
<1> QED
    BY <1>1, <1>2, PTL

-----------------------------------------------------------------------------
(* Every fingerprint of a row was claimed, or its claim is in flight; and  *)
(* the version rows are the claims this run won, each of them once.        *)
ClaimInv ==
    /\ \A f \in Fingerprints, h \in Hosts : \A i \in DOMAIN rows[h] : rows[h][i] = f =>
           index[f] # "nobody" \/ (reader = "claiming" /\ line.result = f)
    /\ \A f \in Fingerprints : index[f] = "us" <=> \E i \in DOMAIN newVersions : newVersions[i] = f
    /\ \A i, j \in DOMAIN newVersions : newVersions[i] = newVersions[j] => i = j

LEMMA ClaimInit == Init => ClaimInv
BY DEF Init, ClaimInv

(* The rows after one more is appended. *)
LEMMA RowsAfter ==
    ASSUME TypeInv, NEW h \in Hosts, NEW o \in Observations, AppendRow(h, o)
    PROVE  \A k \in Hosts : \A i \in DOMAIN rows'[k] :
               (i \in DOMAIN rows[k] /\ rows'[k][i] = rows[k][i]) \/ rows'[k][i] = o
<1> SUFFICES ASSUME NEW k \in Hosts, NEW i \in DOMAIN rows'[k]
             PROVE  (i \in DOMAIN rows[k] /\ rows'[k][i] = rows[k][i]) \/ rows'[k][i] = o
    OBVIOUS
<1>1. rows[k] \in Seq(Observations)
    BY DEF TypeInv, TypeOK
<1>2. CASE k = h
    <2>1. rows'[k] = Append(rows[k], o)
        BY <1>2 DEF AppendRow, TypeInv, TypeOK
    <2>2. Len(rows[k]) \in Nat /\ DOMAIN rows[k] = 1 .. Len(rows[k])
        BY <1>1, LenProperties
    <2>3. /\ DOMAIN rows'[k] = 1 .. Len(rows[k]) + 1
          /\ \A j \in 1 .. Len(rows[k]) : rows'[k][j] = rows[k][j]
          /\ rows'[k][Len(rows[k]) + 1] = o
        BY <1>1, <2>1, AppendProperties
    <2>4. i \in 1 .. Len(rows[k]) \/ i = Len(rows[k]) + 1
        BY <2>2, <2>3
    <2> QED
        BY <2>2, <2>3, <2>4
<1>3. CASE k # h
    BY <1>3 DEF AppendRow, TypeInv, TypeOK
<1> QED
    BY <1>2, <1>3

LEMMA ClaimStep == ASSUME ~StoreFails, TypeInv, ClaimInv, [Next]_vars PROVE ClaimInv'
<1> USE DEF mainVars, pipeVars, readerVars, outcomeVars
<1> DEFINE Rows == \A f \in Fingerprints, h \in Hosts : \A i \in DOMAIN rows[h] : rows[h][i] = f =>
                       index[f] # "nobody" \/ (reader = "claiming" /\ line.result = f)
           Wins == /\ \A f \in Fingerprints :
                          index[f] = "us" <=> \E i \in DOMAIN newVersions : newVersions[i] = f
                   /\ \A i, j \in DOMAIN newVersions : newVersions[i] = newVersions[j] => i = j
<1>1. Rows /\ Wins /\ index \in [Fingerprints -> {"nobody", "us", "other"}]
          /\ newVersions \in Seq(Fingerprints)
    BY DEF ClaimInv, TypeInv, TypeOK
<1> SUFFICES Rows' /\ Wins'
    BY DEF ClaimInv
<1>w. UNCHANGED <<index, newVersions>> => Wins'
    BY <1>1
<1>2. ASSUME NEW h \in Hosts, NEW o \in {"closed", "failed", "unreadable"}, AppendRow(h, o),
             UNCHANGED <<index, newVersions>>, reader # "claiming"
      PROVE  Rows' /\ Wins'
    <2>1. o \in Observations /\ o \notin Fingerprints
        BY DataAssumption DEF Observations, Results
    <2>2. \A k \in Hosts : \A i \in DOMAIN rows'[k] :
              (i \in DOMAIN rows[k] /\ rows'[k][i] = rows[k][i]) \/ rows'[k][i] = o
        BY <1>2, <2>1, RowsAfter
    <2> QED
        BY <1>1, <1>2, <1>w, <2>1, <2>2
<1>3. ASSUME NEW h \in Hosts, RecordClosed(h) \/ ReportUnanswered(h) PROVE Rows' /\ Wins'
    BY <1>2, <1>3 DEF RecordClosed, ReportUnanswered, LockFree
<1>4. ASSUME RecordFailed \/ NormalizeRaises PROVE Rows' /\ Wins'
    <2>1. line.ip \in Hosts
        BY <1>4 DEF RecordFailed, NormalizeRaises, TypeInv, LineOK, Lines
    <2> QED
        BY <1>2, <1>4, <2>1 DEF RecordFailed, NormalizeRaises
<1>5. ASSUME RecordSuccess PROVE Rows' /\ Wins'
    <2>1. line.ip \in Hosts /\ line.result \in Fingerprints /\ line.result \in Observations
        BY <1>5 DEF RecordSuccess, TypeInv, LineOK, Lines, Observations, Results
    <2>2. \A k \in Hosts : \A i \in DOMAIN rows'[k] :
              (i \in DOMAIN rows[k] /\ rows'[k][i] = rows[k][i]) \/ rows'[k][i] = line.result
        BY <1>5, <2>1, RowsAfter DEF RecordSuccess
    <2>3. reader = "normalizing" /\ reader' = "claiming" /\ line' = line
              /\ UNCHANGED <<index, newVersions>>
        BY <1>5 DEF RecordSuccess
    <2> QED
        BY <1>1, <1>w, <2>2, <2>3
<1>6. ASSUME ClaimWon PROVE Rows' /\ Wins'
    <2> DEFINE n == Len(newVersions)
    <2>1. /\ reader = "claiming" /\ line.result \in Fingerprints /\ index[line.result] = "nobody"
          /\ rows' = rows
          /\ newVersions' = Append(newVersions, line.result)
          /\ \A f \in Fingerprints : index'[f] = IF f = line.result THEN "us" ELSE index[f]
        BY <1>1, <1>6 DEF ClaimWon, TypeInv, LineOK
    <2>2. n \in Nat /\ DOMAIN newVersions = 1 .. n
        BY <1>1, LenProperties
    <2>3. /\ DOMAIN newVersions' = 1 .. n + 1
          /\ \A j \in 1 .. n : newVersions'[j] = newVersions[j]
          /\ newVersions'[n + 1] = line.result
        BY <1>1, <2>1, AppendProperties
    <2>4. \A j \in 1 .. n : newVersions[j] # line.result
        BY <1>1, <2>1, <2>2
    <2>5. 1 .. n \subseteq 1 .. n + 1 /\ n + 1 \in 1 .. n + 1
              /\ \A i \in 1 .. n + 1 : i \in 1 .. n \/ i = n + 1
        BY <2>2
    <2> HIDE DEF n
    <2>6. Wins'
        BY <1>1, <2>1, <2>2, <2>3, <2>4, <2>5
    <2>7. Rows'
        BY <1>1, <2>1
    <2> QED
        BY <2>6, <2>7
<1>7. ASSUME ClaimLost PROVE Rows' /\ Wins'
    BY <1>1, <1>7, <1>w DEF ClaimLost
<1>8. ASSUME NEW f \in Fingerprints, OtherRunClaims(f) PROVE Rows' /\ Wins'
    <2>1. \A g \in Fingerprints : index'[g] = IF g = f THEN "other" ELSE index[g]
        BY <1>1, <1>8 DEF OtherRunClaims
    <2>2. index[f] = "nobody" /\ UNCHANGED <<rows, newVersions, reader, line>>
        BY <1>8 DEF OtherRunClaims
    <2> QED
        BY <1>1, <2>1, <2>2
<1>9. ASSUME UNCHANGED <<rows, index, newVersions>>, reader # "claiming" \/ UNCHANGED readerVars
      PROVE  Rows' /\ Wins'
    BY <1>1, <1>9, <1>w
<1>10. (\E h \in Hosts : Submit(h) \/ Take(h) \/ \E o \in Results : Emit(h, o)) \/ CloseStdin
       \/ WriteStdin \/ BrokenPipe \/ ReaderJoined \/ DrainGraceExpires \/ RejoinExpires
       \/ WaitOrKill \/ Reconcile \/ Closed \/ (\E l \in stdout : ReadLine(l) \/ SkipTorn(l))
       \/ CountResponsive \/ ReaderEof \/ Finish \/ Exit \/ Die \/ Wedge \/ UNCHANGED vars
       => UNCHANGED <<rows, index, newVersions>> /\ (reader # "claiming" \/ UNCHANGED readerVars)
    BY DEF Submit, Take, Emit, CloseStdin, WriteStdin, BrokenPipe, ReaderJoined,
       DrainGraceExpires, RejoinExpires, WaitOrKill, Reconcile, Closed, ReadLine, SkipTorn,
       CountResponsive, ReaderEof, Finish, Exit, Die, Wedge, vars
<1>11. ~ClaimRaises
    BY DEF ClaimRaises
<1> HIDE DEF Rows, Wins
<1> QED
    BY <1>3, <1>4, <1>5, <1>6, <1>7, <1>8, <1>9, <1>10, <1>11
    DEF Next, Feed, MainStep, ReaderStep, ZGrabWork, Environment, Terminated

(* While the store answers, a run that is over - close() has returned and  *)
(* did not abandon the reader - has had each fingerprint of its rows       *)
(* claimed by some run, and its version rows are the claims it won.        *)
LEMMA FinallyPublished ==
    ASSUME IInv, ClaimInv
    PROVE  FingerprintsPublished
<1> SUFFICES ASSUME main = "closed", ~abandoned, NEW f \in Fingerprints
             PROVE  /\ (\E h \in Hosts : \E i \in DOMAIN rows[h] : rows[h][i] = f)
                           => index[f] # "nobody"
                    /\ Cardinality({i \in DOMAIN newVersions : newVersions[i] = f})
                           = IF index[f] = "us" THEN 1 ELSE 0
    BY DEF FingerprintsPublished
<1>1. reader = "exited"
    BY DEF IInv, Phases
<1>2. (\E h \in Hosts : \E i \in DOMAIN rows[h] : rows[h][i] = f) => index[f] # "nobody"
    BY <1>1 DEF ClaimInv
<1> DEFINE Won == {i \in DOMAIN newVersions : newVersions[i] = f}
<1>3. CASE index[f] = "us"
    <2>1. PICK i \in DOMAIN newVersions : newVersions[i] = f
        BY <1>3 DEF ClaimInv
    <2>2. Won = {i}
        BY <2>1 DEF ClaimInv
    <2>3. Cardinality(Won) = 1
        BY <2>2, FS_Singleton
    <2> QED
        BY <1>2, <1>3, <2>3
<1>4. CASE index[f] # "us"
    <2>1. Won = {}
        BY <1>4 DEF ClaimInv
    <2>2. Cardinality(Won) = 0
        BY <2>1, FS_EmptySet
    <2> QED
        BY <1>2, <1>4, <2>2
<1> QED
    BY <1>3, <1>4

(* While the version index answers, a grabber that closed without giving   *)
(* up its reader has published what its rows point at.                     *)
THEOREM FingerprintsClaimed == ASSUME ~StoreFails PROVE Spec => []FingerprintsPublished
<1>1. TypeInv /\ ClaimInv /\ [Next]_vars => ClaimInv'
    BY ClaimStep
<1>2. IInv => TypeInv
    BY DEF IInv
<1>3. IInv /\ ClaimInv => FingerprintsPublished
    BY FinallyPublished
<1> QED
    BY <1>1, <1>2, <1>3, ClaimInit, CustodyInvariant, PTL DEF Spec

-----------------------------------------------------------------------------
(* What a caller may rely on, whatever the grabber's threads and ZGrab2 do *)
(* between two calls: the rows they append are a grab's, and belong to     *)
(* hosts that were submitted; and close() does not go back to feeding.     *)
LEMMA StepsOfTheGrabber ==
    ASSUME IInv, ~abandoned, MainStep \/ ReaderStep \/ ZGrabWork \/ Environment
    PROVE  /\ submitted' = submitted
           /\ main \in {"feeding", "writing"} => main' \in {"feeding", "writing"}
           /\ main \notin {"feeding", "writing"} => main' \notin {"feeding", "writing"}
           /\ main = "closed" => main' = "closed"
           /\ abandoned' => SlowStore
           /\ \A h \in Hosts : \/ rows'[h] = rows[h]
                               \/ h \in submitted /\ \E o \in Results : rows'[h] = Append(rows[h], o)
<1> USE DEF mainVars, pipeVars, readerVars, outcomeVars
<1>1. /\ submitted' = submitted
      /\ main \in {"feeding", "writing"} => main' \in {"feeding", "writing"}
      /\ main \notin {"feeding", "writing"} => main' \notin {"feeding", "writing"}
      /\ main = "closed" => main' = "closed"
      /\ abandoned' => SlowStore
    BY DEF MainStep, WriteStdin, BrokenPipe, ReaderJoined, DrainGraceExpires, RejoinExpires,
       WaitOrKill, Reconcile, ReportUnanswered, Closed, ReaderStep, ReadLine, SkipTorn,
       RecordFailed, CountResponsive, NormalizeRaises, RecordSuccess, ClaimWon, ClaimLost,
       ClaimRaises, ReaderEof, ZGrabWork, Take, Emit, Finish, Exit, Environment, Die, Wedge,
       OtherRunClaims
<1>2. ASSUME NEW h \in Hosts, h \in submitted, NEW o \in Results, AppendRow(h, o)
      PROVE  \A k \in Hosts : \/ rows'[k] = rows[k]
                              \/ k \in submitted /\ \E x \in Results : rows'[k] = Append(rows[k], x)
    BY <1>2 DEF AppendRow, IInv, TypeInv, TypeOK
<1>3. ASSUME NEW h \in Hosts, ReportUnanswered(h)
      PROVE  h \in submitted /\ AppendRow(h, "failed")
    BY <1>3 DEF ReportUnanswered, IInv, Custody
<1>4. ASSUME RecordFailed \/ NormalizeRaises \/ RecordSuccess
      PROVE  line.ip \in Hosts /\ line.ip \in submitted /\ line.result \in Results
                 /\ AppendRow(line.ip, line.result)
    BY <1>4 DEF RecordFailed, NormalizeRaises, RecordSuccess, IInv, Custody, Recording, TypeInv,
       LineOK, Lines, Results
<1>5. ASSUME ~(\E h \in Hosts : ReportUnanswered(h)), ~RecordFailed, ~NormalizeRaises, ~RecordSuccess
      PROVE  rows' = rows
    BY <1>5 DEF MainStep, WriteStdin, BrokenPipe, ReaderJoined, DrainGraceExpires, RejoinExpires,
       WaitOrKill, Reconcile, Closed, ReaderStep, ReadLine, SkipTorn,
       CountResponsive, ClaimWon, ClaimLost,
       ClaimRaises, ReaderEof, ZGrabWork, Take, Emit, Finish, Exit, Environment, Die, Wedge,
       OtherRunClaims
<1>6. "failed" \in Results
    BY DEF Results
<1>7. \A h \in Hosts : \/ rows'[h] = rows[h]
                       \/ h \in submitted /\ \E o \in Results : rows'[h] = Append(rows[h], o)
    <2>1. CASE \E h \in Hosts : ReportUnanswered(h)
        BY <1>2, <1>3, <1>6, <2>1
    <2>2. CASE RecordFailed \/ NormalizeRaises \/ RecordSuccess
        BY <1>2, <1>4, <2>2
    <2> QED
        BY <1>5, <2>1, <2>2
<1> QED
    BY <1>1, <1>7
=============================================================================
