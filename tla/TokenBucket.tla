---------------------------- MODULE TokenBucket ----------------------------
(***************************************************************************)
(* The rate limiter (ratelimit.py): a token bucket and its one caller,     *)
(* which blocks in wait().  Time is a count of ticks of the monotonic      *)
(* clock, and the bucket's content is counted in ticks too: a token is     *)
(* worth Interval of them, `tokens` is the code's _tokens * _interval, and *)
(* the clock and _last_refill are known by their distance.  (The code      *)
(* divides in floating point; its rounding is not modelled.)               *)
(*                                                                         *)
(* The clock moves between any two steps: a thread that sleeps, or is not  *)
(* scheduled, goes on later than it wanted, but never earlier.             *)
(*                                                                         *)
(* A definition named Mut... is no part of the model: it is the definition *)
(* after it with a plausible bug, which the properties must notice.        *)
(***************************************************************************)
EXTENDS Naturals

CONSTANTS
    Interval,    \* interval_seconds, in ticks
    Burst,       \* burst
    IdleMost     \* bound: ticks after which a longer pause makes no difference

Capacity == Burst * Interval

(* The constructor raises on any other interval or burst. *)
ASSUME BucketAssumption ==
    /\ Interval \in Nat \ {0}
    /\ Burst \in Nat \ {0}
    /\ IdleMost \in Nat /\ IdleMost >= Capacity

VARIABLES
    tokens,      \* _tokens, in ticks
    idle,        \* how long ago _last_refill is
    waiter,      \* where the caller is in wait(): see WaiterStates
    nap          \* what is left of its sleep

bucketVars == <<tokens, idle, waiter, nap>>

WaiterStates == {"out", "trying", "refused", "asleep"}

BucketOK ==
    /\ tokens \in 0 .. Capacity
    /\ idle \in 0 .. IdleMost
    /\ waiter \in WaiterStates
    /\ nap \in 0 .. Interval

BucketInit == tokens = Capacity /\ idle = 0 /\ waiter = "out" /\ nap = 0

(* what accrued while nobody asked is not capped *)
MutRefilled == tokens + idle

(* _refill *)
Refilled == IF tokens + idle > Capacity THEN Capacity ELSE tokens + idle

(* wait() is called. *)
BeginWait ==
    /\ waiter = "out"
    /\ waiter' = "trying"
    /\ UNCHANGED <<tokens, idle, nap>>

(* what accrued is counted once more at the next call *)
MutAcquire ==
    /\ waiter = "trying" /\ Refilled >= Interval
    /\ tokens' = Refilled - Interval
    /\ waiter' = "out"
    /\ UNCHANGED <<idle, nap>>

(* try_acquire returns True, and so does wait(). *)
Acquire ==
    /\ waiter = "trying" /\ Refilled >= Interval
    /\ tokens' = Refilled - Interval /\ idle' = 0
    /\ waiter' = "out"
    /\ UNCHANGED nap

Refuse ==
    /\ waiter = "trying" /\ Refilled < Interval
    /\ tokens' = Refilled /\ idle' = 0
    /\ waiter' = "refused"
    /\ UNCHANGED nap

(* seconds_until_next_token, which refills a second time. *)
UntilNext == IF Refilled >= Interval THEN 0 ELSE Interval - Refilled

Sleep ==
    /\ waiter = "refused"
    /\ nap' = UntilNext
    /\ tokens' = Refilled /\ idle' = 0
    /\ waiter' = "asleep"

Awake ==
    /\ waiter = "asleep" /\ nap = 0
    /\ waiter' = "trying"
    /\ UNCHANGED <<tokens, idle, nap>>

(* One more tick of the clock. *)
Tick ==
    /\ idle' = IF idle < IdleMost THEN idle + 1 ELSE idle
    /\ nap' = IF nap > 0 THEN nap - 1 ELSE nap
    /\ UNCHANGED <<tokens, waiter>>

(* The rest of a call of wait(). *)
WaitStep == Acquire \/ Refuse \/ Sleep \/ Awake

BucketNext == BeginWait \/ WaitStep \/ Tick

BucketSpec == BucketInit /\ [][BucketNext]_bucketVars

-----------------------------------------------------------------------------
(* The bucket refills only when it is asked, and forgets what it asked     *)
(* before; it still grants what a budget that grows with every tick and    *)
(* never beyond one burst would grant: no catching up after a pause.       *)
Limit == INSTANCE RateLimit WITH budget <- Refilled
ImplementsLimit == Limit!Spec
=============================================================================
