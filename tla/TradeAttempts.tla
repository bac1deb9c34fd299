---------------------------- MODULE TradeAttempts ----------------------------
(***************************************************************************)
(* What the executor owes to whoever reads its results (the batch that goes*)
(* on or ends with them, the profit ledger that books them): a trade is    *)
(* made at most once, what is said of it is true when it is said, and what *)
(* is said to have been left alone stays so.  No nonce, no fee, no retry,  *)
(* no mempool and no approval appears here; SendAndConfirm implements this *)
(* (BundleResult and its outcomes, src/core/types.rs).                     *)
(***************************************************************************)
CONSTANT Attempts   \* the opportunities handed to the executor

VARIABLES
  fate,     \* what the chain made of the trade of each attempt
  outcome,  \* how the executor says that each attempt ended, "None" before
  booked    \* the attempts handed to the profit ledger

vars == <<fate, outcome, booked>>

(* The trade was not made, and will not be.                                *)
LeftAlone == {"AbortedPreBroadcast", "Skipped", "SameBlockRejected", "Err"}
(* Sent perhaps, and perhaps mined later.                                  *)
Undecided == {"TimeoutStuck", "Dropped", "Expired"}
Results == LeftAlone \cup Undecided \cup {"Confirmed", "Reverted"}

Init ==
  /\ fate = [a \in Attempts |-> "unmined"]
  /\ outcome = [a \in Attempts |-> "None"]
  /\ booked = {}

(* The trade is mined, before or after the executor has given it up.       *)
Mine(a) ==
  /\ outcome[a] \notin LeftAlone /\ fate[a] = "unmined"
  /\ \E f \in {"executed", "failed"} : fate' = [fate EXCEPT ![a] = f]
  /\ UNCHANGED <<outcome, booked>>

True(a, result) ==
  /\ result \in LeftAlone => fate[a] = "unmined"
  /\ result = "Confirmed" => fate[a] = "executed"
  /\ result = "Reverted" => fate[a] = "failed"

(* The executor's result, which is its last word.                          *)
Conclude(a) ==
  /\ outcome[a] = "None" /\ outcome'[a] \in Results
  /\ outcome' = [outcome EXCEPT ![a] = outcome'[a]]
  /\ True(a, outcome'[a])
  /\ booked' = IF outcome'[a] = "Confirmed" THEN booked \cup {a} ELSE booked
  /\ UNCHANGED fate

Next == \E a \in Attempts : Conclude(a) \/ Mine(a)

Spec == Init /\ [][Next]_vars
===============================================================================
