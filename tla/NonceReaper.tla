------------------------------ MODULE NonceReaper ------------------------------
(***************************************************************************)
(* The nonce reaper of src/core/nonce_reaper.rs: which nonces this process *)
(* believes in flight and since when, what it makes of them given the      *)
(* node's pending transaction count, and its count of failures.            *)
(*                                                                         *)
(* The age of a reservation matters only against nonce_stall_secs, so the  *)
(* Instant kept per nonce is "fresh" or "stalled"; Age lets it pass.       *)
(* The calls that surround the reaper (reap_stuck_nonces, reap_decide and  *)
(* the send path of core/flashloan.rs) are in SendAndConfirm.              *)
(***************************************************************************)
EXTENDS Integers, FiniteSets

CONSTANTS
  MaxNonce,       \* nonces are 0 .. MaxNonce (bound)
  KillThreshold   \* REAPER_KILL_SWITCH_THRESHOLD

ASSUME MaxNonceAssumption == MaxNonce \in Nat
ASSUME KillThresholdAssumption == KillThreshold \in Nat \ {0}

VARIABLES
  inFlight,             \* in_flight: the age of each reservation
  consecutiveFailures,  \* consecutive_failures, saturating at KillThreshold
  killSwitch            \* kill_switch

reaperVars == <<inFlight, consecutiveFailures, killSwitch>>

Nonce == 0 .. MaxNonce
Ages == {"absent", "fresh", "stalled"}

InFlight == {n \in Nonce : inFlight[n] # "absent"}

ReaperInit ==
  /\ inFlight = [n \in Nonce |-> "absent"]
  /\ consecutiveFailures = 0
  /\ killSwitch = FALSE

ReaperTypeOK ==
  /\ inFlight \in [Nonce -> Ages]
  /\ consecutiveFailures \in 0 .. KillThreshold
  /\ killSwitch \in BOOLEAN

(* note_broadcast: (re)starts the clock of a nonce.                        *)
NoteBroadcast(n) == inFlight' = [inFlight EXCEPT ![n] = "fresh"]

(* note_canceled                                                           *)
NoteCanceled(n) == inFlight' = [inFlight EXCEPT ![n] = "absent"]

(* verdict, with the pending_local its only caller passes: the node's      *)
(* pending count plus the number of reservations.  Only the nonce at the   *)
(* pending count itself is ever looked at.                                 *)
Verdict(onChainPending) ==
  IF InFlight = {} THEN "NoGap"
  ELSE IF onChainPending \in Nonce /\ inFlight[onChainPending] = "stalled"
  THEN "Reap"
  ELSE "GapStalling"

(* record_failure: the switch is thrown at the threshold and stays so      *)
(* until a success.                                                        *)
RecordFailure ==
  /\ consecutiveFailures' = IF consecutiveFailures < KillThreshold
                            THEN consecutiveFailures + 1 ELSE consecutiveFailures
  /\ killSwitch' = (killSwitch \/ consecutiveFailures' >= KillThreshold)

(* record_success                                                          *)
RecordSuccess ==
  /\ consecutiveFailures' = 0
  /\ killSwitch' = FALSE

(* nonce_stall_secs go by for one reservation.                             *)
Age(n) ==
  /\ inFlight[n] = "fresh"
  /\ inFlight' = [inFlight EXCEPT ![n] = "stalled"]
  /\ UNCHANGED <<consecutiveFailures, killSwitch>>
===============================================================================
