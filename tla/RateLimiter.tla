------------------------------ MODULE RateLimiter ------------------------------
(***************************************************************************)
(* dex/rate_limiter.rs: UltraRateLimiter, the one gate every quote and     *)
(* every metadata read passes through (ALCHEMY_RATE_LIMITER).  Callers     *)
(* take `now' BEFORE they wait for the list's lock, so what they write may *)
(* already be old; who finds the list full sleeps, tries again, and after  *)
(* ForceAfter takes the place of the first request in the list.            *)
(*                                                                         *)
(* Instants are kept as ages, in ticks, and an age stops growing once it   *)
(* can no longer matter: the state stays finite while time does not end.   *)
(***************************************************************************)
EXTENDS Naturals, Sequences, FiniteSets, SequencesExt

CONSTANTS
    Callers,
    MaxRequests,    \* requests admitted per window
    Window,         \* ticks of time_window
    MaxRetries,     \* const MAX_RETRIES
    ForceAfter      \* ticks of the 2 s after which a caller forces its way

ASSUME LimiterAssumption ==
    /\ MaxRequests \in Nat \ {0} /\ Window \in Nat \ {0}
    /\ MaxRetries \in Nat /\ ForceAfter \in Nat

VARIABLES
    requests,       \* the list under the lock: ages of the admitted requests
    place,          \* caller -> where it is in acquire
    stamp,          \* caller -> age of the `now' of its current round
    began,          \* caller -> age of `start'
    tries,          \* caller -> retry_count
    admitted,       \* age -> how many callers really passed that many ticks ago
    excused         \* age -> of these, the old stamps and the places taken by force

limiterVars == <<requests, place, stamp, began, tries, admitted, excused>>

OldestAge == (IF ForceAfter > Window THEN ForceAfter ELSE Window) + 1
Older(age) == IF age = OldestAge THEN age ELSE age + 1

(***************************************************************************)
(* requests.retain(time >= now - window): `now' is `age' ticks old.        *)
(***************************************************************************)
Retained(age) ==
    LET kept[i \in 0..Len(requests)] ==
          IF i = 0 THEN <<>>
          ELSE IF requests[i] <= age + Window THEN Append(kept[i - 1], requests[i]) ELSE kept[i - 1]
    IN  kept[Len(requests)]

RoomForOneMore(list) == Len(list) <= MaxRequests
HasRoom(list) == Len(list) < MaxRequests

LimiterInit ==
    /\ requests = <<>>
    /\ place = [c \in Callers |-> "idle"]
    /\ stamp = [c \in Callers |-> 0] /\ began = [c \in Callers |-> 0]
    /\ tries = [c \in Callers |-> 0]
    /\ admitted = [a \in 0..Window |-> 0] /\ excused = admitted

(* acquire() is called: `start' and the first `now'. *)
Acquire(c) ==
    /\ place[c] = "idle"
    /\ place' = [place EXCEPT ![c] = "locking"]
    /\ stamp' = [stamp EXCEPT ![c] = 0] /\ began' = [began EXCEPT ![c] = 0]
    /\ tries' = [tries EXCEPT ![c] = 0]
    /\ UNCHANGED <<requests, admitted, excused>>

(* The admission itself; a caller is back at "idle", its ages are reset. *)
Pass(c, list, forced) ==
    /\ requests' = Append(list, stamp[c])
    /\ admitted' = [admitted EXCEPT ![0] = @ + 1]
    /\ excused' = [excused EXCEPT ![0] = @ + Cardinality({x \in {"forced"} : forced}
                                                     \cup {x \in {"late"} : stamp[c] > 0})]
    /\ place' = [place EXCEPT ![c] = "idle"]
    /\ stamp' = [stamp EXCEPT ![c] = 0] /\ began' = [began EXCEPT ![c] = 0]
    /\ tries' = [tries EXCEPT ![c] = 0]

MayForceByRound(c) == tries[c] + 1 > MaxRetries /\ stamp[c] > ForceAfter
MayForce(c) == tries[c] + 1 > MaxRetries /\ began[c] > ForceAfter

(* The body of the loop under the first lock. *)
Locked(c) ==
    /\ place[c] = "locking"
    /\ LET list == Retained(stamp[c]) IN
       IF HasRoom(list)
       THEN Pass(c, list, FALSE)
       ELSE /\ requests' = list
            /\ place' = [place EXCEPT ![c] = IF MayForce(c) THEN "forcing" ELSE "asleep"]
            /\ tries' = [tries EXCEPT ![c] = IF @ > MaxRetries THEN @ ELSE @ + 1]
            /\ UNCHANGED <<stamp, began, admitted, excused>>

(* The second lock: the first of the list makes room. *)
Forced(c) ==
    /\ place[c] = "forcing"
    /\ LET list == Retained(stamp[c]) IN
       Pass(c, IF HasRoom(list) THEN list ELSE Tail(list), ~HasRoom(list))

(* The sleep, at least 25 ms, is over: another round, with a new `now'. *)
Wake(c) ==
    /\ place[c] = "asleep" /\ stamp[c] > 0
    /\ place' = [place EXCEPT ![c] = "locking"]
    /\ stamp' = [stamp EXCEPT ![c] = 0]
    /\ UNCHANGED <<requests, began, tries, admitted, excused>>

(* cleanup(), which the radar calls at every block. *)
LimiterCleanup ==
    /\ requests' = Retained(0)
    /\ UNCHANGED <<place, stamp, began, tries, admitted, excused>>

Shifted(counts) == [a \in 0..Window |-> IF a = 0 THEN 0 ELSE counts[a - 1]]

LimiterTick ==
    /\ requests' = [i \in DOMAIN requests |-> Older(requests[i])]
    /\ stamp' = [c \in Callers |-> IF place[c] = "idle" THEN 0 ELSE Older(stamp[c])]
    /\ began' = [c \in Callers |-> IF place[c] = "idle" THEN 0 ELSE Older(began[c])]
    /\ admitted' = Shifted(admitted) /\ excused' = Shifted(excused)
    /\ UNCHANGED <<place, tries>>

LimiterStep(c) == Acquire(c) \/ Locked(c) \/ Forced(c) \/ Wake(c)
LimiterNext == (\E c \in Callers : LimiterStep(c)) \/ LimiterCleanup \/ LimiterTick
LimiterSpec == LimiterInit /\ [][LimiterNext]_limiterVars

(* Sleeps end, the lock is a fair queue, and time passes. *)
LimiterFairness ==
    /\ \A c \in Callers : WF_limiterVars(Locked(c) \/ Forced(c) \/ Wake(c))
    /\ WF_limiterVars(LimiterTick)

-------------------------------------------------------------------------------
(* Properties *)

Total(counts) == FoldFunction(+, 0, counts)

(* In any window no more requests pass than the limiter allows, but for    *)
(* those that forced their way and those that waited for the lock with an  *)
(* old stamp: order of arrival at the lock, cleanups and expiring stamps   *)
(* never let another one through (acquire).                                *)
RateIsKept == Total(admitted) <= MaxRequests + Total(excused)

(* However busy the others keep the limiter, whoever asks is let through   *)
(* in the end: the loop of acquire has no exit but an admission.           *)
AcquireEnds == \A c \in Callers : place[c] = "locking" ~> place[c] = "idle"
=============================================================================
