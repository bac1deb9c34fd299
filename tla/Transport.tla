------------------------------- MODULE Transport -------------------------------
(***************************************************************************)
(* How the bot reaches the chain: RotatingHttpClient                       *)
(* (src/infra/rotating_http_client.rs), whose concurrent requests share one*)
(* index into the list of endpoints.                                       *)
(*                                                                         *)
(* Endpoints 0 .. N-1 are the usable entries of the configured list: blank *)
(* ones, placeholders and what does not parse have been dropped.  What an  *)
(* endpoint replies is one of a few kinds, named for how the client takes  *)
(* it.  Only a hanging endpoint costs time (RequestTimeout); the 150 ms    *)
(* between two attempts are too short to count.                            *)
(***************************************************************************)
EXTENDS Naturals, FiniteSets

CONSTANTS
  N,              \* usable endpoints
  Requests,       \* calls of JsonRpcClient::request, concurrent
  RequestTimeout, \* [network].timeout_ms, in seconds
  Deadline(_)     \* the time limit of a request's caller, in seconds (5 at start-up)

ASSUME TransportAssumption ==
  /\ N \in Nat \ {0} /\ IsFiniteSet(Requests) /\ RequestTimeout \in Nat
  /\ \A r \in Requests : Deadline(r) \in Nat \ {0}

VARIABLES
  up,       \* external: the endpoint answers what it is asked
  current,  \* RotatingHttpClient::current
  req,      \* the requests in flight
  counters, \* RotatingClientCounters; rate_limit_events is left out
  steady    \* ghost: the endpoints that were up since a request started

transportVars == <<up, current, req, counters, steady>>

HttpEndpoints == 0 .. N - 1

(* What a call is worth when an endpoint is there: a result, or an error of*)
(* the method.  Geth gives most of those the code -32000, which the client *)
(* takes for the provider's.                                               *)
Answers == {"result", "methodError", "error32000"}
DownReplies ==
  {"refused",   \* no connection, a bad gateway, a body that breaks off with 5xx
   "hung",      \* nothing within request_timeout
   "barred",    \* 429, 401, 403, a disabled key, in whatever shape
   "garbled"}   \* neither JSON-RPC nor a text that names the provider
(* is_recoverable_transport, is_recoverable_status, is_provider_error,     *)
(* is_rate_limit: go on with the next endpoint.                            *)
Rotating == {"refused", "hung", "barred", "error32000"}
Results == {"none", "ok", "methodError", "failed", "exhausted", "cancelled"}

(* A request that has not failed at any endpoint.                          *)
FreshRequest(at, start, answer, result) ==
  [at |-> at, start |-> start, offset |-> 0, spent |-> 0, answer |-> answer, result |-> result]
IdleRequest == FreshRequest("idle", 0, "result", "none")

TransportInit ==
  /\ up \in [HttpEndpoints -> BOOLEAN]
  /\ current = 0
  /\ req = [r \in Requests |-> IdleRequest]
  /\ counters = [retry |-> 0, failover |-> 0]
  /\ steady = [r \in Requests |-> {}]

UpNow == {e \in HttpEndpoints : up[e]}

-------------------------------------------------------------------------------
(* External: an endpoint goes down or comes back.                          *)
Flip(e) ==
  /\ up' = [up EXCEPT ![e] = ~@]
  /\ steady' = [r \in DOMAIN steady |-> steady[r] \ {e}]
  /\ UNCHANGED <<current, req, counters>>

-------------------------------------------------------------------------------
(* RotatingHttpClient::request                                             *)

StartRequest(r) ==
  /\ req[r].at = "idle"
  /\ \E a \in Answers :
       req' = [req EXCEPT ![r] = FreshRequest("sent", current, a, "none")]
  /\ steady' = [steady EXCEPT ![r] = UpNow]
  /\ UNCHANGED <<up, current, counters>>

(* The endpoint a request is at: counted from where it started, whatever   *)
(* the others have done to `current' since.                                *)
FromCurrent(r) == current \* a mutant: read again at every attempt
Target(r) == (req[r].start + req[r].offset) % N

Waiting(r) == req[r].at = "sent" /\ req[r].spent < Deadline(r)
Replies(r) == IF up[Target(r)] THEN {req[r].answer} ELSE DownReplies
End(r, result) ==
  req' = [req EXCEPT ![r] = FreshRequest("done", 0, req[r].answer, result)]

Succeeds(r) ==
  /\ Waiting(r) /\ "result" \in Replies(r)
  /\ End(r, "ok")
  /\ UNCHANGED <<up, current, counters, steady>>

(* RotatingClientError::JsonRpc, Serde and Reqwest                         *)
FailsHard(r) ==
  /\ Waiting(r)
  /\ \/ "methodError" \in Replies(r) /\ End(r, "methodError")
     \/ "garbled" \in Replies(r) /\ End(r, "failed")
  /\ UNCHANGED <<up, current, counters, steady>>

LastEndpoint(r) == req[r].offset + 1 = N
CountFailover(r, reply) ==
  counters' = [retry |-> counters.retry + (IF LastEndpoint(r) THEN 0 ELSE 1), failover |-> counters.failover + 1]

NextOffset(r) == req[r].offset + 1
After(r) == (Target(r) + 1) % N
Rotates(r) ==
  /\ Waiting(r)
  /\ \E reply \in Replies(r) \cap Rotating :
       LET spent == req[r].spent + (IF reply = "hung" THEN RequestTimeout ELSE 0) IN
       /\ IF LastEndpoint(r)
          THEN End(r, "exhausted")
          ELSE req' = [req EXCEPT ![r].offset = NextOffset(r), ![r].spent = spent]
       /\ current' = After(r)
       /\ CountFailover(r, reply)
  /\ UNCHANGED <<up, steady>>

(* The caller's time is over and the request is dropped where it stands.   *)
Cancelled(r) ==
  /\ req[r].at = "sent" /\ ~Waiting(r)
  /\ End(r, "cancelled")
  /\ UNCHANGED <<up, current, counters, steady>>

-------------------------------------------------------------------------------
RequestStep(r) == StartRequest(r) \/ Succeeds(r) \/ FailsHard(r) \/ Rotates(r) \/ Cancelled(r)
TransportNext ==
  \/ \E e \in HttpEndpoints : Flip(e)
  \/ \E r \in Requests : RequestStep(r)

TransportSpec == TransportInit /\ [][TransportNext]_transportVars

-------------------------------------------------------------------------------
Requesting == [at : {"idle", "sent", "done"}, start : HttpEndpoints, offset : HttpEndpoints,
               spent : Nat, answer : Answers, result : Results]

(* Shapes, and: a request has a result when it is done, and only then.     *)
TransportInv ==
  /\ up \in [HttpEndpoints -> BOOLEAN] /\ current \in HttpEndpoints
  /\ req \in [Requests -> Requesting]
  /\ counters \in [retry : Nat, failover : Nat]
  /\ steady \in [Requests -> SUBSET HttpEndpoints]
  /\ \A r \in Requests : req[r].at = "done" <=> req[r].result # "none"

GaveUp(r) == req[r].result \in {"exhausted", "cancelled"}

(* The caller waits while all endpoints but one hang, one after another.   *)
OthersFit(r) == RequestTimeout * (N - 1) < Deadline(r)

(* One endpoint that is up while a request lasts is enough for it: the     *)
(* request is never given up, whatever the other endpoints do and however  *)
(* the other requests move `current' meanwhile, as long as its caller waits*)
(* for the others.  (A call whose answer is an error with the code -32000  *)
(* is asked of every endpoint and then given up.)                          *)
OneGoodEndpointIsEnough ==
  \A r \in Requests :
    OthersFit(r) /\ GaveUp(r) /\ req[r].answer # "error32000" => steady[r] = {}
===============================================================================
