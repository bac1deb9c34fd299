------------------------------ MODULE MCTransport ------------------------------
(* Three endpoints and two requests that share `current'.                  *)
EXTENDS Transport, TLC

CONSTANTS r1, r2

MCRequests == {r1, r2}
(* One caller waits for two endpoints to hang, the other gives up sooner.  *)
MCDeadline(r) == IF r = r1 THEN 5 ELSE 4
===============================================================================
