------------------------------ MODULE Grabber ------------------------------
(***************************************************************************)
(* _StreamingGrabber (scanner.py) and the recording of one grab            *)
(* (_record_grab_result): one long-lived ZGrab2 process, fed addresses on  *)
(* its stdin by the run's main thread, its result lines read back by one   *)
(* reader thread that records them and claims new fingerprints in the      *)
(* version index.  close() stops the feeding, waits, kills what does not   *)
(* end, and reconciles the hosts that never came back.                     *)
(*                                                                         *)
(* Actors: the main thread (`main`), the reader thread (`reader`), the     *)
(* ZGrab2 process (`zgrab`, external) and other runs that share the        *)
(* version index.  Who calls submit() and when is left open here:          *)
(* Discovery is one caller; run_refresh_scan is the other.                  *)
(*                                                                         *)
(* The pipes are sets with a capacity, not queues: ZGrab2 runs its targets *)
(* on a pool of senders and answers in any order, so no property can tell  *)
(* the order of a pipe.  Timeouts may expire at any moment.                *)
(*                                                                         *)
(* A definition named Mut... is no part of the model: it is the definition *)
(* after it with a plausible bug, which the properties must notice.        *)
(***************************************************************************)
EXTENDS Naturals, FiniteSets, Sequences

CONSTANTS
    Hosts,          \* addresses the caller may submit
    Fingerprints,   \* distinct payloads the hosts may answer with
    None,           \* no address / no result line
    StdinCap,       \* addresses ZGrab2's stdin pipe holds
    StdoutCap,      \* result lines ZGrab2's stdout pipe holds
    Senders,        \* --senders
    MayWedge,       \* ZGrab2 may stop reading and writing without exiting
    MayDie,         \* ZGrab2 may exit in mid-run
    StoreFails,     \* a call of version_index.claim may raise
    SlowStore       \* a claim may outlast the 10 seconds close() still waits
                    \* for the reader after killing ZGrab2

Results == Fingerprints \union {"failed", "unreadable"}
Lines == [ip : Hosts, result : Results \union {"torn"}]
Observations == Results \union {"closed"}

ASSUME CapAssumption ==
    /\ StdinCap \in Nat \ {0}
    /\ StdoutCap \in Nat \ {0}
    /\ Senders \in Nat \ {0}
ASSUME ToggleAssumption == {MayWedge, MayDie, StoreFails, SlowStore} \subseteq BOOLEAN
ASSUME DataAssumption ==
    /\ None \notin Hosts \union Lines
    /\ Fingerprints \intersect {"failed", "unreadable", "torn", "closed"} = {}

VARIABLES
    main,        \* where the main thread is: see MainStates
    current,     \* the address being written to ZGrab2's stdin
    submitted,   \* every address submit() was called with
    pending,     \* self._pending
    unanswered,  \* close()'s local list of hosts still to be reported
    abandoned,   \* history: close() has gone on while the reader was alive
    stdin, grabbing, stdout,   \* ZGrab2's input, its in-flight grabs, its output
    zgrab,       \* the ZGrab2 process: see ZGrabStates
    reader,      \* where the reader thread is: see ReaderStates
    line,        \* the result line the reader is recording
    rows,        \* outcome.observations, per host, in the order appended
    responsive,  \* metadata.hosts_responsive
    index,       \* the shared version index: who claimed each fingerprint
    newVersions  \* outcome.new_versions

mainVars == <<main, current, submitted, pending, unanswered, abandoned>>
pipeVars == <<stdin, grabbing, stdout, zgrab>>
readerVars == <<reader, line>>
outcomeVars == <<rows, responsive, newVersions>>
vars == <<mainVars, pipeVars, readerVars, outcomeVars, index>>

MainStates == {"feeding", "writing", "joining", "rejoining", "waiting",
               "reconciling", "reporting", "closed"}
ReaderStates == {"reading", "recording", "normalizing", "claiming", "exited"}
ZGrabStates == {"running", "wedged", "lingering", "exited"}

TypeOK ==
    /\ main \in MainStates
    /\ current \in Hosts \union {None}
    /\ submitted \subseteq Hosts
    /\ pending \subseteq Hosts
    /\ unanswered \subseteq Hosts
    /\ abandoned \in BOOLEAN
    /\ stdin \subseteq Hosts
    /\ grabbing \subseteq Hosts
    /\ stdout \subseteq Lines
    /\ zgrab \in ZGrabStates
    /\ reader \in ReaderStates
    /\ line \in Lines \union {None}
    /\ rows \in [Hosts -> Seq(Observations)]
    /\ responsive \in Nat
    /\ index \in [Fingerprints -> {"nobody", "us", "other"}]
    /\ newVersions \in Seq(Fingerprints)

Init ==
    /\ main = "feeding" /\ current = None
    /\ submitted = {} /\ pending = {} /\ unanswered = {} /\ abandoned = FALSE
    /\ stdin = {} /\ grabbing = {} /\ stdout = {} /\ zgrab = "running"
    /\ reader = "reading" /\ line = None
    /\ rows = [h \in Hosts |-> <<>>] /\ responsive = 0 /\ newVersions = <<>>
    /\ index = [f \in Fingerprints |-> "nobody"]

-----------------------------------------------------------------------------
(* The record lock is held from the count of a responsive host until its   *)
(* claim has been answered.  The main thread holds it for one append.      *)
LockFree == reader \notin {"normalizing", "claiming"}

(* A host the run has not met: ZMap's `repeat = 0` filter and the derived  *)
(* list both name a host once.                                             *)
Fresh(h) == h \notin submitted /\ rows[h] = <<>>

AppendRow(h, o) == rows' = [rows EXCEPT ![h] = Append(@, o)]

(* The death of ZGrab2: the grabs in flight are lost, and the line being   *)
(* written may be cut short.                                               *)
Death ==
    /\ zgrab' = "exited"
    /\ \/ UNCHANGED stdout
       \/ \E h \in grabbing :
              stdout' = stdout \union {[ip |-> h, result |-> "torn"]}
    /\ grabbing' = {}

-----------------------------------------------------------------------------
(* The main thread. *)

Submit(h) ==
    /\ main = "feeding" /\ Fresh(h)
    /\ main' = "writing" /\ current' = h
    /\ submitted' = submitted \union {h}
    /\ pending' = pending \union {h}
    /\ UNCHANGED <<unanswered, abandoned, pipeVars, readerVars, outcomeVars, index>>

(* stdin.write and flush: blocks while the pipe is full. *)
WriteStdin ==
    /\ main = "writing" /\ zgrab # "exited"
    /\ Cardinality(stdin) < StdinCap
    /\ stdin' = stdin \union {current}
    /\ main' = "feeding" /\ current' = None
    /\ UNCHANGED <<submitted, pending, unanswered, abandoned, grabbing, stdout, zgrab,
                   readerVars, outcomeVars, index>>

(* BrokenPipeError: ZGrab2 has gone, the host stays pending. *)
BrokenPipe ==
    /\ main = "writing" /\ zgrab = "exited"
    /\ main' = "feeding" /\ current' = None
    /\ UNCHANGED <<submitted, pending, unanswered, abandoned, pipeVars, readerVars,
                   outcomeVars, index>>

(* The caller records a host whose port is closed, under the record lock. *)
RecordClosed(h) ==
    /\ main = "feeding" /\ Fresh(h) /\ LockFree
    /\ AppendRow(h, "closed")
    /\ UNCHANGED <<mainVars, pipeVars, readerVars, responsive, newVersions, index>>

CloseStdin ==
    /\ main = "feeding"
    /\ main' = "joining"
    /\ UNCHANGED <<current, submitted, pending, unanswered, abandoned, pipeVars, readerVars,
                   outcomeVars, index>>

(* close() does not wait for the reader *)
MutNoJoin ==
    /\ main \in {"joining", "rejoining"}
    /\ main' = "waiting"
    /\ UNCHANGED <<current, submitted, pending, unanswered, abandoned, pipeVars, readerVars,
                   outcomeVars, index>>

(* reader.join returned because the reader is done. *)
ReaderJoined ==
    /\ main \in {"joining", "rejoining"} /\ reader = "exited"
    /\ main' = "waiting"
    /\ UNCHANGED <<current, submitted, pending, unanswered, abandoned, pipeVars, readerVars,
                   outcomeVars, index>>

(* a join without a timeout *)
MutJoinForever == FALSE /\ UNCHANGED vars

(* GRAB_DRAIN_GRACE_SECONDS have passed and the reader is alive. *)
DrainGraceExpires ==
    /\ main = "joining" /\ reader # "exited"
    /\ main' = "rejoining"
    /\ Death
    /\ UNCHANGED <<current, submitted, pending, unanswered, abandoned, stdin, readerVars,
                   outcomeVars, index>>

(* The second join gives up too, and close() goes on with a live reader.   *)
(* Once ZGrab2 is dead only a claim, a network call, can take that long.   *)
RejoinExpires ==
    /\ SlowStore
    /\ main = "rejoining" /\ reader = "claiming"
    /\ main' = "waiting" /\ abandoned' = TRUE
    /\ UNCHANGED <<current, submitted, pending, unanswered, pipeVars, readerVars,
                   outcomeVars, index>>

(* the pending set is dropped, not reported *)
MutDropPending ==
    /\ main = "reconciling"
    /\ main' = "reporting"
    /\ pending' = {}
    /\ UNCHANGED <<current, submitted, unanswered, abandoned, pipeVars, readerVars, outcomeVars, index>>

(* proc.wait returned, or timed out and the process was killed. *)
WaitOrKill ==
    /\ main = "waiting"
    /\ main' = "reconciling"
    /\ zgrab' = "exited"
    /\ UNCHANGED <<current, submitted, pending, unanswered, abandoned, stdin, grabbing, stdout,
                   readerVars, outcomeVars, index>>

(* the count is corrected for hosts it never counted *)
MutUncount(h) ==
    /\ main = "reporting" /\ h \in unanswered /\ LockFree
    /\ unanswered' = unanswered \ {h}
    /\ AppendRow(h, "failed")
    /\ responsive' = responsive - 1
    /\ UNCHANGED <<main, current, submitted, pending, abandoned, pipeVars, readerVars,
                   newVersions, index>>

Reconcile ==
    /\ main = "reconciling"
    /\ main' = "reporting"
    /\ unanswered' = pending
    /\ pending' = {}
    /\ UNCHANGED <<current, submitted, abandoned, pipeVars, readerVars, outcomeVars, index>>

(* close() returns on the first unanswered host it could not report *)
MutCloseEarly ==
    /\ main = "reporting"
    /\ main' = "closed"
    /\ UNCHANGED <<current, submitted, pending, unanswered, abandoned, pipeVars, readerVars,
                   outcomeVars, index>>

ReportUnanswered(h) ==
    /\ main = "reporting" /\ h \in unanswered /\ LockFree
    /\ unanswered' = unanswered \ {h}
    /\ AppendRow(h, "failed")
    /\ UNCHANGED <<main, current, submitted, pending, abandoned, pipeVars, readerVars,
                   responsive, newVersions, index>>

Closed ==
    /\ main = "reporting" /\ unanswered = {}
    /\ main' = "closed"
    /\ UNCHANGED <<current, submitted, pending, unanswered, abandoned, pipeVars, readerVars,
                   outcomeVars, index>>

(* the answered host stays in the pending set *)
MutKeepPending(l) ==
    /\ reader = "reading" /\ l \in stdout
    /\ l.result # "torn"
    /\ stdout' = stdout \ {l}
    /\ reader' = "recording" /\ line' = l
    /\ UNCHANGED <<mainVars, stdin, grabbing, zgrab, outcomeVars, index>>

(* the output is read only once the run closes *)
MutReadAtClose(l) ==
    /\ reader = "reading" /\ l \in stdout
    /\ l.result # "torn" /\ main \notin {"feeding", "writing"}
    /\ stdout' = stdout \ {l}
    /\ pending' = pending \ {l.ip}
    /\ reader' = "recording" /\ line' = l
    /\ UNCHANGED <<main, current, submitted, unanswered, abandoned, stdin, grabbing, zgrab,
                   outcomeVars, index>>

-----------------------------------------------------------------------------
(* The reader thread. *)

ReadLine(l) ==
    /\ reader = "reading" /\ l \in stdout
    /\ l.result # "torn"
    /\ stdout' = stdout \ {l}
    /\ pending' = pending \ {l.ip}
    /\ reader' = "recording" /\ line' = l
    /\ UNCHANGED <<main, current, submitted, unanswered, abandoned, stdin, grabbing, zgrab,
                   outcomeVars, index>>

(* A line that does not parse is skipped: its host stays pending. *)
SkipTorn(l) ==
    /\ reader = "reading" /\ l \in stdout
    /\ l.result = "torn"
    /\ stdout' = stdout \ {l}
    /\ UNCHANGED <<mainVars, stdin, grabbing, zgrab, readerVars, outcomeVars, index>>

RecordFailed ==
    /\ reader = "recording" /\ line.result = "failed"
    /\ AppendRow(line.ip, "failed")
    /\ reader' = "reading" /\ line' = None
    /\ UNCHANGED <<mainVars, pipeVars, responsive, newVersions, index>>

(* The grab succeeded: the host counts as responsive before anything else. *)
CountResponsive ==
    /\ reader = "recording" /\ line.result # "failed"
    /\ responsive' = responsive + 1
    /\ reader' = "normalizing"
    /\ UNCHANGED <<mainVars, pipeVars, line, rows, newVersions, index>>

(* the exception of a normalizer takes the host's row with it *)
MutRowVanishes ==
    /\ reader = "normalizing" /\ line.result = "unreadable"
    /\ reader' = "reading" /\ line' = None
    /\ UNCHANGED <<mainVars, pipeVars, outcomeVars, index>>

(* normalize() raised: the host still gets its row, without a fingerprint. *)
NormalizeRaises ==
    /\ reader = "normalizing" /\ line.result = "unreadable"
    /\ AppendRow(line.ip, "unreadable")
    /\ reader' = "reading" /\ line' = None
    /\ UNCHANGED <<mainVars, pipeVars, responsive, newVersions, index>>

RecordSuccess ==
    /\ reader = "normalizing" /\ line.result \in Fingerprints
    /\ AppendRow(line.ip, line.result)
    /\ reader' = "claiming"
    /\ UNCHANGED <<mainVars, pipeVars, line, responsive, newVersions, index>>

(* a payload already published is published again *)
MutPublishAgain ==
    /\ reader = "claiming" /\ index[line.result] # "nobody"
    /\ newVersions' = Append(newVersions, line.result)
    /\ reader' = "reading" /\ line' = None
    /\ UNCHANGED <<mainVars, pipeVars, rows, responsive, index>>

(* version_index.claim(fp_id) is True: this run publishes the payload. *)
ClaimWon ==
    /\ reader = "claiming" /\ index[line.result] = "nobody"
    /\ index' = [index EXCEPT ![line.result] = "us"]
    /\ newVersions' = Append(newVersions, line.result)
    /\ reader' = "reading" /\ line' = None
    /\ UNCHANGED <<mainVars, pipeVars, rows, responsive>>

ClaimLost ==
    /\ reader = "claiming" /\ index[line.result] # "nobody"
    /\ reader' = "reading" /\ line' = None
    /\ UNCHANGED <<mainVars, pipeVars, outcomeVars, index>>

(* claim raised, with its conditional write applied or not; _drain logs it *)
(* and goes on with the next line.                                         *)
ClaimRaises ==
    /\ StoreFails
    /\ reader = "claiming"
    /\ \/ UNCHANGED index
       \/ /\ index[line.result] = "nobody"
          /\ index' = [index EXCEPT ![line.result] = "us"]
    /\ reader' = "reading" /\ line' = None
    /\ UNCHANGED <<mainVars, pipeVars, outcomeVars>>

ReaderEof ==
    /\ reader = "reading" /\ stdout = {} /\ zgrab \in {"lingering", "exited"}
    /\ reader' = "exited"
    /\ UNCHANGED <<mainVars, pipeVars, line, outcomeVars, index>>

-----------------------------------------------------------------------------
(* The ZGrab2 process and the other runs: external. *)

StdinClosed == main \notin {"feeding", "writing"}

Take(h) ==
    /\ zgrab = "running" /\ h \in stdin
    /\ Cardinality(grabbing) < Senders
    /\ stdin' = stdin \ {h}
    /\ grabbing' = grabbing \union {h}
    /\ UNCHANGED <<mainVars, stdout, zgrab, readerVars, outcomeVars, index>>

(* ZGrab2 writes a line for every target, failures included (--flush). *)
Emit(h, r) ==
    /\ zgrab = "running" /\ h \in grabbing
    /\ Cardinality(stdout) < StdoutCap
    /\ grabbing' = grabbing \ {h}
    /\ stdout' = stdout \union {[ip |-> h, result |-> r]}
    /\ UNCHANGED <<mainVars, stdin, zgrab, readerVars, outcomeVars, index>>

(* Out of input: ZGrab2 closes its stdout, and is gone a moment later. *)
Finish ==
    /\ zgrab = "running" /\ StdinClosed /\ stdin = {} /\ grabbing = {}
    /\ zgrab' = "lingering"
    /\ UNCHANGED <<mainVars, stdin, grabbing, stdout, readerVars, outcomeVars, index>>

Exit ==
    /\ zgrab = "lingering"
    /\ zgrab' = "exited"
    /\ UNCHANGED <<mainVars, stdin, grabbing, stdout, readerVars, outcomeVars, index>>

Die ==
    /\ MayDie
    /\ zgrab \in {"running", "wedged"}
    /\ Death
    /\ UNCHANGED <<mainVars, stdin, readerVars, outcomeVars, index>>

Wedge ==
    /\ MayWedge
    /\ zgrab = "running"
    /\ zgrab' = "wedged"
    /\ UNCHANGED <<mainVars, stdin, grabbing, stdout, readerVars, outcomeVars, index>>

OtherRunClaims(f) ==
    /\ index[f] = "nobody"
    /\ index' = [index EXCEPT ![f] = "other"]
    /\ UNCHANGED <<mainVars, pipeVars, readerVars, outcomeVars>>

-----------------------------------------------------------------------------
(* What the caller chooses, and what each actor then does on its own. *)
Feed == \E h \in Hosts : Submit(h) \/ RecordClosed(h)

MainStep ==
    \/ WriteStdin \/ BrokenPipe
    \/ ReaderJoined \/ DrainGraceExpires \/ RejoinExpires \/ WaitOrKill
    \/ Reconcile \/ (\E h \in Hosts : ReportUnanswered(h)) \/ Closed

ReaderStep ==
    \/ \E l \in stdout : ReadLine(l) \/ SkipTorn(l)
    \/ RecordFailed \/ CountResponsive \/ NormalizeRaises \/ RecordSuccess
    \/ ClaimWon \/ ClaimLost \/ ClaimRaises \/ ReaderEof

ZGrabWork ==
    \/ \E h \in Hosts : Take(h) \/ \E r \in Results : Emit(h, r)
    \/ Finish \/ Exit

Environment == Die \/ Wedge \/ \E f \in Fingerprints : OtherRunClaims(f)

(* The run is over: nothing is left to do. *)
Terminated == main = "closed" /\ reader = "exited" /\ UNCHANGED vars

Next ==
    \/ Feed \/ CloseStdin \/ MainStep \/ ReaderStep
    \/ ZGrabWork \/ Environment \/ Terminated

(* The threads are scheduled, timeouts expire, store calls return, and a   *)
(* ZGrab2 that is neither wedged nor dead works: its targets are bounded   *)
(* by --target-timeout.  Nothing makes the caller feed or close, and       *)
(* nothing makes ZGrab2 wedge or die.                                      *)
Fairness == WF_vars(MainStep) /\ WF_vars(ReaderStep) /\ WF_vars(ZGrabWork)

Spec == Init /\ [][Next]_vars /\ Fairness

-----------------------------------------------------------------------------
(* Properties.  Those of the finished run hold until close() abandons the  *)
(* reader, and not after it: the reader then records lines whose hosts     *)
(* close() has reported.  FingerprintsPublished needs ~StoreFails besides. *)

Rowed == {h \in Hosts : rows[h] # <<>>}

(* Where a host is on its way from submit() to its row. *)
Recording == IF reader \in {"recording", "normalizing"} THEN {line.ip} ELSE {}
Answered == {l.ip : l \in stdout}

(* Every submitted host is in exactly one custody, whatever the three      *)
(* actors do to the sets they share: it waits for its result, or close()   *)
(* is about to report it, or the reader holds its line, or it has its row; *)
(* and only a host that waits is in ZGrab2's pipes, in one place of them.  *)
Custody == ~abandoned =>
    /\ submitted = pending \union unanswered \union Recording \union (Rowed \intersect submitted)
    /\ pending \intersect Recording = {}
    /\ unanswered \intersect (pending \union Recording) = {}
    /\ (pending \union unanswered \union Recording) \intersect Rowed = {}
    /\ main = "writing" => current \in pending \ (stdin \union grabbing \union Answered)
    /\ stdin \intersect (grabbing \union Answered) = {}
    /\ grabbing \intersect Answered = {}
    /\ \A l, m \in stdout : l.ip = m.ip => l = m
    /\ reader # "exited" => stdin \union grabbing \union Answered \subseteq pending

(* No host is lost: when close() returns, every address that was handed to *)
(* submit() has an observation row, whatever became of ZGrab2.             *)
NoHostLost == main = "closed" /\ ~abandoned => submitted \subseteq Rowed

(* No host is recorded twice: not once from its result line and once more  *)
(* from the reconciliation of the hosts that never came back.              *)
NoHostTwice == ~abandoned => \A h \in Hosts : Len(rows[h]) <= 1

(* close() returns only when the outcome is final: no observation, count   *)
(* or version row is added to it once the run may report it.               *)
ReportIsFinal == [][main = "closed" /\ ~abandoned => UNCHANGED outcomeVars]_vars

(* hosts_responsive says how many hosts have a row of a grab that worked;  *)
(* it may be ahead only by the host being normalized at this moment.       *)
ResponsiveCounted ==
    LET answered == {h \in Hosts : \E i \in DOMAIN rows[h] :
                         rows[h][i] \in Fingerprints \union {"unreadable"}}
    IN  responsive = Cardinality(answered) + (IF reader = "normalizing" THEN 1 ELSE 0)

(* An observation never points at a payload nobody publishes: when the run *)
(* is over, each fingerprint among its rows was claimed, and those this    *)
(* run claimed are in its version rows, each of them once.                 *)
FingerprintsPublished ==
    main = "closed" /\ ~abandoned =>
        \A f \in Fingerprints :
            /\ (\E h \in Hosts : \E i \in DOMAIN rows[h] : rows[h][i] = f)
                   => index[f] # "nobody"
            /\ Cardinality({i \in DOMAIN newVersions : newVersions[i] = f})
                   = IF index[f] = "us" THEN 1 ELSE 0

(* The two pipes never lock up: unless ZGrab2 hangs, a blocked write ends, *)
(* because the reader keeps emptying the other pipe.                       *)
SubmitReturns == main = "writing" ~> main # "writing" \/ zgrab = "wedged"

(* The run as a ledger of rows owed and settled, until it gives that up. *)
Ledger == INSTANCE RunLedger WITH
    owed <- submitted,
    tally <- [h \in Hosts |-> Len(rows[h])],
    reported <- (main = "closed"),
    waived <- abandoned
ImplementsLedger == Ledger!Spec
=============================================================================
