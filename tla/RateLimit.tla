----------------------------- MODULE RateLimit -----------------------------
(***************************************************************************)
(* What a rate limiter promises, apart from how it keeps time: a budget    *)
(* that grows with every tick of the clock up to what one burst may cost,  *)
(* and of which every request takes one interval.  Over any stretch of     *)
(* time it grants no more requests than one burst and one for each         *)
(* interval that passed.                                                   *)
(***************************************************************************)
EXTENDS Naturals

CONSTANTS Interval, Burst

VARIABLE budget

Init == budget = Burst * Interval

(* Time passes; a full budget grows no more. *)
Earn ==
    /\ budget < Burst * Interval
    /\ budget' = budget + 1

(* A request. *)
Spend ==
    /\ budget >= Interval
    /\ budget' = budget - Interval

Next == Earn \/ Spend

Spec == Init /\ [][Next]_budget
=============================================================================
