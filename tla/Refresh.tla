------------------------------ MODULE Refresh ------------------------------
(***************************************************************************)
(* One refresh run (run_refresh_scan, scanner.py): the main thread walks   *)
(* the known-responsive list from the top until the list or the time       *)
(* budget ends, skips the hosts that are blocked by now, waits for a token *)
(* and hands the host to the streaming grabber; then it closes the grabber *)
(* and reports how many hosts of the list it covered, which is what        *)
(* cmd_refresh rotates to the back of the list.  Composed with Grabber and *)
(* with TokenBucket, whose caller it is.                                   *)
(*                                                                         *)
(* A definition named Mut... is no part of the model: it is the definition *)
(* after it with a plausible bug, which the properties must notice.        *)
(***************************************************************************)
EXTENDS Naturals, Sequences, FiniteSets, TokenBucket

CONSTANTS
    Hosts, Fingerprints, None, StdinCap, StdoutCap, Senders,
    MayWedge, MayDie, StoreFails, SlowStore,
    KnownHosts,     \* known_hosts: the list, oldest-checked first
    Blocked,        \* the hosts that blocklist_cidrs covers
    Budgeted        \* there is a time budget

VARIABLES
    main, current, submitted, pending, unanswered, abandoned, stdin, grabbing, stdout,
    zgrab, reader, line, rows, responsive, index, newVersions,
    step,        \* where the loop is: see Steps
    late,        \* the clock has reached the deadline
    attempted,   \* metadata.targets_attempted
    fed          \* history: how long ago each of the last two addresses was
                 \* written to ZGrab2's stdin, counted up to Interval

G == INSTANCE Grabber

grabberVars == <<main, current, submitted, pending, unanswered, abandoned, stdin, grabbing,
                 stdout, zgrab, reader, line, rows, responsive, index, newVersions>>
runVars == <<step, late, attempted, fed>>
vars == <<grabberVars, bucketVars, runVars>>

Steps == {"checking", "waiting", "submitting", "closing", "done"}

ASSUME RefreshAssumption ==
    /\ KnownHosts \in Seq(Hosts)
    /\ \A i, j \in DOMAIN KnownHosts : KnownHosts[i] = KnownHosts[j] => i = j
    /\ Blocked \subseteq Hosts
    /\ Budgeted \in BOOLEAN

Init ==
    /\ G!Init /\ BucketInit
    /\ step = "checking" /\ late = FALSE /\ attempted = 0
    /\ fed = <<Interval, Interval>>

-----------------------------------------------------------------------------
(* The main thread. *)

AtTop == step = "checking" /\ main = "feeding"

(* the host the time was over for is counted *)
MutStop ==
    /\ AtTop
    /\ attempted = Len(KnownHosts) \/ late
    /\ G!CloseStdin
    /\ step' = "closing"
    /\ attempted' = IF attempted = Len(KnownHosts) THEN attempted ELSE attempted + 1
    /\ UNCHANGED <<bucketVars, late, fed>>

(* The list or the time is over; `finally` closes the grabber. *)
Stop ==
    /\ AtTop
    /\ attempted = Len(KnownHosts) \/ late
    /\ G!CloseStdin
    /\ step' = "closing"
    /\ UNCHANGED <<bucketVars, late, attempted, fed>>

TakeOn(h) ==
    /\ AtTop /\ ~late
    /\ attempted < Len(KnownHosts) /\ h = KnownHosts[attempted + 1]
    /\ attempted' = attempted + 1

(* a blocked host is not counted, and the next one taken is the same *)
MutSkip(h) ==
    /\ AtTop /\ ~late
    /\ attempted < Len(KnownHosts) /\ h = KnownHosts[attempted + 1]
    /\ h \in Blocked
    /\ UNCHANGED vars

(* A host that has been excluded since it was listed. *)
Skip(h) ==
    /\ TakeOn(h) /\ h \in Blocked
    /\ UNCHANGED <<grabberVars, bucketVars, step, late, fed>>

(* rate_limiter.wait() *)
StartWait(h) ==
    /\ TakeOn(h) /\ h \notin Blocked
    /\ BeginWait
    /\ step' = "waiting"
    /\ UNCHANGED <<grabberVars, late, fed>>

Wait ==
    /\ step = "waiting"
    /\ WaitStep
    /\ step' = IF waiter' = "out" THEN "submitting" ELSE "waiting"
    /\ UNCHANGED <<grabberVars, late, attempted, fed>>

(* grabber.submit(ip), up to the write to the pipe *)
Submit ==
    /\ step = "submitting"
    /\ G!Submit(KnownHosts[attempted])
    /\ step' = "checking"
    /\ UNCHANGED <<bucketVars, late, attempted, fed>>

(* What submit() and close() do on their own. *)
GrabberStep ==
    /\ G!MainStep
    /\ fed' = IF stdin' # stdin THEN <<0, fed[1]>> ELSE fed
    /\ UNCHANGED <<bucketVars, step, late, attempted>>

Report ==
    /\ step = "closing" /\ main = "closed"
    /\ step' = "done"
    /\ UNCHANGED <<grabberVars, bucketVars, late, attempted, fed>>

-----------------------------------------------------------------------------
MainStep ==
    \/ Stop \/ (\E h \in Hosts : Skip(h) \/ StartWait(h)) \/ Wait \/ Submit
    \/ GrabberStep \/ Report

ReaderStep == G!ReaderStep /\ UNCHANGED <<bucketVars, runVars>>
ZGrabWork == G!ZGrabWork /\ UNCHANGED <<bucketVars, runVars>>
Environment == G!Environment /\ UNCHANGED <<bucketVars, runVars>>

(* Time passes where the main thread is held up: at its other steps the    *)
(* clock would only run ahead of the next of these.                        *)
TimePasses ==
    /\ step = "waiting" \/ main = "writing"
    /\ Tick
    /\ fed' = [i \in {1, 2} |-> IF fed[i] < Interval THEN fed[i] + 1 ELSE fed[i]]
    /\ UNCHANGED <<grabberVars, step, late, attempted>>

(* Any budget, and any moment: the deadline is only looked at here. *)
DeadlinePasses ==
    /\ Budgeted /\ AtTop
    /\ ~late /\ late' = TRUE
    /\ UNCHANGED <<grabberVars, bucketVars, step, attempted, fed>>

Terminated == step = "done" /\ reader = "exited" /\ UNCHANGED vars

Next ==
    \/ MainStep \/ ReaderStep \/ ZGrabWork \/ Environment \/ TimePasses
    \/ DeadlinePasses \/ Terminated

(* The threads run, a ZGrab2 that can, works, and the clock goes on. *)
Fairness ==
    /\ WF_vars(MainStep) /\ WF_vars(ReaderStep) /\ WF_vars(ZGrabWork)
    /\ WF_vars(TimePasses)

Spec == Init /\ [][Next]_vars /\ Fairness

-----------------------------------------------------------------------------
(* Properties. *)

Covered == {KnownHosts[i] : i \in 1 .. attempted}

(* What the run reports as covered, and cmd_refresh therefore rotates to   *)
(* the back of the list, has been dealt with: a covered host was blocked,  *)
(* or has its one row (the reader may still hold it, if the store is slow),*)
(* and a host beyond the covered ones has none and keeps its turn.         *)
CoveredIsRecorded ==
    step = "done" =>
        /\ \A h \in Covered \ Blocked : rows[h] # <<>> \/ h \in G!Recording
        /\ \A h \in Hosts : rows[h] # <<>> => h \in Covered \ Blocked
        /\ Covered = {KnownHosts[i] : i \in DOMAIN KnownHosts} \/ late

(* A write that was held up by a full pipe is not followed by a burst: no  *)
(* three addresses reach ZGrab2's stdin within less than an interval.      *)
(* (Two can: one whose write was held up, and the next one's.)             *)
NoCatchUp ==
    [][Burst = 1 /\ stdin' \ stdin # {} => fed[2] = Interval]_vars

(* The two pipes never lock up: unless ZGrab2 hangs, a blocked write ends, *)
(* because the reader keeps emptying the other pipe.                       *)
SubmitReturns == G!SubmitReturns

(* The run reports, or its ZGrab2 has hung while its pipe was full: the    *)
(* waits for tokens end, and so does the list.                             *)
RunReports == <>(step = "done" \/ (zgrab = "wedged" /\ main = "writing"))

(* Refresh uses the grabber as Grabber allows.                             *)
UsesGrabber == G!Init /\ [][G!Next]_grabberVars
=============================================================================
