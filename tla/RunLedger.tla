----------------------------- MODULE RunLedger -----------------------------
(***************************************************************************)
(* What a scan run promises about its observations, apart from how it gets *)
(* them: a host the run has taken on (discovery handed it to the grabber)  *)
(* is owed exactly one observation row, a host that needs no grab may get  *)
(* its one row at once, and the run reports only when nothing is owed any  *)
(* more and never touches a row afterwards.  A run that cannot keep this   *)
(* up waives it, once and for all.                                         *)
(***************************************************************************)
EXTENDS Naturals

CONSTANT Hosts

VARIABLES
    owed,       \* the hosts the run has taken on
    tally,      \* how many observation rows each host has
    reported,   \* the outcome has been handed to the caller
    waived      \* the run has stopped vouching for its rows

ledgerVars == <<owed, tally, reported, waived>>

Init ==
    /\ owed = {}
    /\ tally = [h \in Hosts |-> 0]
    /\ reported = FALSE
    /\ waived = FALSE

(* The run takes on a host it has not met. *)
Owe(h) ==
    /\ ~reported
    /\ h \notin owed
    /\ tally[h] = 0
    /\ owed' = owed \union {h}
    /\ UNCHANGED <<tally, reported, waived>>

(* A host gets its row: an owed one by being answered for, one that is not *)
(* owed by needing no grab (its port is closed).                           *)
Settle(h) ==
    /\ ~reported
    /\ tally[h] = 0
    /\ tally' = [tally EXCEPT ![h] = 1]
    /\ UNCHANGED <<owed, reported, waived>>

Report ==
    /\ ~reported
    /\ \A h \in owed : tally[h] = 1
    /\ reported' = TRUE
    /\ UNCHANGED <<owed, tally, waived>>

Waive ==
    /\ ~waived /\ waived' = TRUE
    /\ UNCHANGED <<owed, tally, reported>>

Unvouched == waived /\ waived'

Next ==
    \/ Report \/ Waive \/ Unvouched
    \/ \E h \in Hosts : Owe(h) \/ Settle(h)

Spec == Init /\ [][Next]_ledgerVars
=============================================================================
