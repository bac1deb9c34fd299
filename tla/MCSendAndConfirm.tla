--------------------------- MODULE MCSendAndConfirm ---------------------------
(* Values for the model checker: the settings the process is started with. *)
EXTENDS SendAndConfirm

(* The degraded mode: no relay, public mempool allowed.  With own capital  *)
(* an allowance may be needed or not, so that this also does all that flash*)
(* loans do.                                                               *)
OpenConfig ==
  [sendsForbidden |-> FALSE, mevEnabled |-> FALSE, defaultRelay |-> TRUE,
   privateRelayRequired |-> FALSE, allowPublicMempool |-> TRUE, direct |-> TRUE]

(* Every setting under which a gate is closed, and one that leaves them open.*)
Closed(c) ==
  \/ c.sendsForbidden \/ c.privateRelayRequired
  \/ c.mevEnabled /\ c.defaultRelay
  \/ ~c.mevEnabled /\ ~c.allowPublicMempool
MCOpenOrClosed == {OpenConfig} \cup {c \in Config : Closed(c)}
MCFees == {1, 2}
===============================================================================
