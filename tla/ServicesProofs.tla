---------------------------- MODULE ServicesProofs -----------------------------
(***************************************************************************)
(* Proofs about what runs beside the trading path, component by component: *)
(* the transport's requests, the process and its tasks, the caches of fees *)
(* and prices, the nonces of the MEV engine, the paper hub, the limiter of *)
(* the RPC, the cooldowns, the fork a candidate is executed on, the        *)
(* replay of past blocks, and what receipts teach of gas.                  *)
(***************************************************************************)
EXTENDS ForkValidation, Runtime, Transport, GasPricing, Paper, ExecutionEngine, RateLimiter,
        Cooldowns, ReplayScan, GasCalibration, SumTheorems, SequenceTheorems

-------------------------------------------------------------------------------
(* Transport: an endpoint that is up while a request lasts is enough for   *)
(* it, for any number of endpoints and of concurrent requests.             *)

(* The endpoint a request that started at s is at after k failures.        *)
Nth(s, k) == (s + k) % N

(* While a request lasts, the endpoints it was at before are no longer     *)
(* steady ones, and each has cost RequestTimeout at most.                  *)
TriedAreUnsteady(r) ==
  \A k \in 0 .. req[r].offset - 1 : Nth(req[r].start, k) \notin steady[r]
Sent(r) ==
  /\ req[r].result = "none"
  /\ steady[r] \subseteq UpNow
  /\ req[r].spent <= RequestTimeout * req[r].offset
  /\ req[r].answer # "error32000" => TriedAreUnsteady(r)

EnoughInv ==
  /\ TransportInv
  /\ \A r \in Requests : req[r].at = "idle" => req[r] = IdleRequest
  /\ \A r \in Requests : req[r].at = "sent" => Sent(r)
  /\ OneGoodEndpointIsEnough

-------------------------------------------------------------------------------
(* Arithmetic.                                                             *)

LEMMA Wraps ==
  ASSUME NEW a \in 0 .. N - 1
  PROVE  a % N = a /\ (a + N) % N = a
  BY TransportAssumption

LEMMA NthIsEndpoint ==
  ASSUME NEW s \in HttpEndpoints, NEW k \in Nat
  PROVE  Nth(s, k) \in HttpEndpoints
  BY TransportAssumption DEF Nth, HttpEndpoints

(* N steps from any endpoint meet them all.                                *)
LEMMA AllAreMet ==
  ASSUME NEW s \in HttpEndpoints, NEW e \in HttpEndpoints
  PROVE  \E k \in 0 .. N - 1 : Nth(s, k) = e
<1>1. CASE e >= s
  <2>1. e - s \in 0 .. N - 1 /\ s + (e - s) = e
    BY <1>1, TransportAssumption DEF HttpEndpoints
  <2>2. Nth(s, e - s) = e
    BY <2>1, Wraps DEF Nth, HttpEndpoints
  <2> QED BY <2>1, <2>2
<1>2. CASE e < s
  <2>1. e + N - s \in 0 .. N - 1 /\ s + (e + N - s) = e + N
    BY <1>2, TransportAssumption DEF HttpEndpoints
  <2>2. Nth(s, e + N - s) = e
    BY <2>1, Wraps DEF Nth, HttpEndpoints
  <2> QED BY <2>1, <2>2
<1> QED BY <1>1, <1>2, TransportAssumption DEF HttpEndpoints

LEMMA Product ==
  ASSUME NEW k \in Nat, NEW m \in Nat, k <= m
  PROVE  /\ RequestTimeout * k <= RequestTimeout * m
         /\ RequestTimeout * (k + 1) = RequestTimeout * k + RequestTimeout
         /\ RequestTimeout * k \in Nat
  BY TransportAssumption

-------------------------------------------------------------------------------
(* The steps.                                                              *)

LEMMA EnoughInit == TransportInit => EnoughInv
<1> SUFFICES ASSUME TransportInit PROVE EnoughInv
  OBVIOUS
<1>1. IdleRequest \in Requesting
  BY TransportAssumption DEF IdleRequest, FreshRequest, Requesting, Answers, Results, HttpEndpoints
<1>2. TransportInv
  BY <1>1, TransportAssumption DEF TransportInit, TransportInv, HttpEndpoints, IdleRequest, FreshRequest
<1>3. \A r \in Requests : req[r] = IdleRequest
  BY DEF TransportInit
<1> QED BY <1>2, <1>3 DEF EnoughInv, IdleRequest, FreshRequest, OneGoodEndpointIsEnough, GaveUp

(* What becomes of one request is told by its record and its steady        *)
(* endpoints; the others keep theirs.                                      *)
LEMMA OneRequestMoves ==
  ASSUME EnoughInv, NEW r \in Requests, NEW new \in Requesting,
         req' = [req EXCEPT ![r] = new],
         up' = up, steady' = steady,
         current' \in HttpEndpoints, counters' \in [retry : Nat, failover : Nat],
         new.at # "idle", new.at = "done" <=> new.result # "none",
         new.at = "sent" => Sent(r)',
         OthersFit(r) /\ new.result \in {"exhausted", "cancelled"} /\ new.answer # "error32000" => steady[r] = {}
  PROVE  EnoughInv'
<1>1. req'[r] = new /\ \A q \in Requests \ {r} : req'[q] = req[q]
  BY DEF EnoughInv, TransportInv
<1>2. TransportInv'
  BY <1>1 DEF EnoughInv, TransportInv
<1>3. ASSUME NEW q \in Requests PROVE (req[q].at = "idle" => req[q] = IdleRequest)'
  BY <1>1 DEF EnoughInv, IdleRequest, FreshRequest
<1>4. ASSUME NEW q \in Requests, q # r, (req[q].at = "sent")' PROVE Sent(q)'
  BY <1>1, <1>4 DEF EnoughInv, Sent, TriedAreUnsteady, UpNow
<1>5. OneGoodEndpointIsEnough'
  BY <1>1 DEF EnoughInv, OneGoodEndpointIsEnough, GaveUp, OthersFit
<1> QED BY <1>1, <1>2, <1>3, <1>4, <1>5 DEF EnoughInv

(* A request that is up at its target gets its answer from there; one that *)
(* rotates in spite of that asks a method whose errors look like the       *)
(* provider's.                                                             *)
LEMMA RotatesFromADownEndpoint ==
  ASSUME EnoughInv, NEW r \in Requests, NEW reply \in Replies(r) \cap Rotating,
         req[r].at = "sent", req[r].answer # "error32000"
  PROVE  Target(r) \notin steady[r] /\ Target(r) \in HttpEndpoints
<1>1. req[r] \in Requesting
  BY DEF EnoughInv, TransportInv
<1>2. Target(r) \in HttpEndpoints
  BY <1>1, NthIsEndpoint DEF Target, Nth, Requesting, HttpEndpoints
<1>3. ~up[Target(r)]
  BY <1>1 DEF Replies, Rotating, Requesting, Answers
<1>4. steady[r] \subseteq UpNow
  BY DEF EnoughInv, Sent
<1> QED BY <1>2, <1>3, <1>4 DEF UpNow

LEMMA FlipKeeps ==
  ASSUME EnoughInv, NEW e \in HttpEndpoints, Flip(e)
  PROVE  EnoughInv'
<1> USE DEF Flip
<1>1. steady' \in [Requests -> SUBSET HttpEndpoints] /\ \A r \in Requests : steady'[r] = steady[r] \ {e}
  BY DEF EnoughInv, TransportInv
<1>2. up' \in [HttpEndpoints -> BOOLEAN] /\ \A f \in HttpEndpoints \ {e} : up'[f] = up[f]
  BY DEF EnoughInv, TransportInv
<1>3. TransportInv'
  BY <1>1, <1>2 DEF EnoughInv, TransportInv
<1>4. ASSUME NEW r \in Requests, req[r].at = "sent" PROVE Sent(r)'
  <2>1. Sent(r)
    BY <1>4 DEF EnoughInv
  <2>2. (steady[r] \subseteq UpNow)'
    BY <2>1, <1>1, <1>2 DEF Sent, UpNow
  <2>3. TriedAreUnsteady(r) => TriedAreUnsteady(r)'
    BY <1>1 DEF TriedAreUnsteady
  <2> QED BY <2>1, <2>2, <2>3 DEF Sent
<1>5. OneGoodEndpointIsEnough'
  BY <1>1 DEF EnoughInv, OneGoodEndpointIsEnough, GaveUp, OthersFit
<1> QED BY <1>3, <1>4, <1>5 DEF EnoughInv

LEMMA StartKeeps ==
  ASSUME EnoughInv, NEW r \in Requests, StartRequest(r)
  PROVE  EnoughInv'
<1>1. PICK a \in Answers :
        req' = [req EXCEPT ![r] = FreshRequest("sent", current, a, "none")]
  BY DEF StartRequest
<1> DEFINE new == [at |-> "sent", start |-> current, offset |-> 0, spent |-> 0, answer |-> a, result |-> "none"]
<1>2. req' = [req EXCEPT ![r] = new]
  BY <1>1 DEF FreshRequest
<1>3. req'[r] = new /\ \A q \in Requests \ {r} : req'[q] = req[q] /\ steady'[q] = steady[q]
  BY <1>2 DEF EnoughInv, TransportInv, StartRequest
<1>4. steady'[r] = UpNow /\ UpNow \subseteq HttpEndpoints
  BY DEF StartRequest, EnoughInv, TransportInv, UpNow
<1>5. new \in Requesting
  BY TransportAssumption DEF EnoughInv, TransportInv, Requesting, HttpEndpoints, Results
<1>6. TransportInv'
  BY <1>3, <1>4, <1>5 DEF EnoughInv, TransportInv, StartRequest
<1>7. Sent(r)'
  <2>1. (steady[r] \subseteq UpNow)'
    BY <1>4 DEF UpNow, StartRequest
  <2>2. RequestTimeout * 0 \in Nat /\ RequestTimeout * 0 >= 0
    BY Product
  <2>3. req'[r].spent = 0 /\ req'[r].offset = 0 /\ req'[r].result = "none"
    BY <1>3
  <2> QED BY <2>1, <2>2, <2>3 DEF Sent, TriedAreUnsteady
<1>8. ASSUME NEW q \in Requests, q # r, (req[q].at = "sent")' PROVE Sent(q)'
  BY <1>3, <1>8 DEF EnoughInv, Sent, TriedAreUnsteady, UpNow, StartRequest
<1>9. OneGoodEndpointIsEnough'
  BY <1>3 DEF EnoughInv, OneGoodEndpointIsEnough, GaveUp, OthersFit
<1>10. ASSUME NEW q \in Requests PROVE (req[q].at = "idle" => req[q] = IdleRequest)'
  BY <1>3 DEF EnoughInv
<1> QED BY <1>3, <1>6, <1>7, <1>8, <1>9, <1>10 DEF EnoughInv

(* What End writes.                                                        *)
LEMMA EndIsRequesting ==
  ASSUME EnoughInv, NEW r \in Requests, NEW result \in Results \ {"none"}, End(r, result),
         up' = up, steady' = steady,
         current' \in HttpEndpoints, counters' \in [retry : Nat, failover : Nat],
         OthersFit(r) /\ result \in {"exhausted", "cancelled"} /\ req[r].answer # "error32000" => steady[r] = {}
  PROVE  EnoughInv'
<1> DEFINE new == [at |-> "done", start |-> 0, offset |-> 0, spent |-> 0, answer |-> req[r].answer, result |-> result]
<1>1. req' = [req EXCEPT ![r] = new]
  BY DEF End, FreshRequest
<1>2. new \in Requesting
  BY TransportAssumption DEF EnoughInv, TransportInv, Requesting, HttpEndpoints
<1> HIDE DEF new
<1>3. new.at = "done" /\ new.result = result /\ new.answer = req[r].answer /\ result # "none"
  BY DEF new
<1> QED BY <1>1, <1>2, <1>3, OneRequestMoves

LEMMA RotatesKeeps ==
  ASSUME EnoughInv, NEW r \in Requests, Rotates(r)
  PROVE  EnoughInv'
<1>1. PICK reply \in Replies(r) \cap Rotating :
        LET spent == req[r].spent + (IF reply = "hung" THEN RequestTimeout ELSE 0) IN
        /\ IF LastEndpoint(r)
           THEN End(r, "exhausted")
           ELSE req' = [req EXCEPT ![r].offset = NextOffset(r), ![r].spent = spent]
        /\ current' = After(r)
        /\ CountFailover(r, reply)
  BY DEF Rotates
<1> DEFINE spent == req[r].spent + (IF reply = "hung" THEN RequestTimeout ELSE 0)
<1>2. req[r] \in Requesting /\ req[r].at = "sent" /\ Sent(r)
  BY DEF EnoughInv, TransportInv, Rotates, Waiting
<1>3. current' \in HttpEndpoints /\ counters' \in [retry : Nat, failover : Nat] /\ up' = up /\ steady' = steady
  <2>1. Target(r) \in Nat
    BY <1>2, NthIsEndpoint DEF Target, Nth, Requesting, HttpEndpoints
  <2>2. After(r) \in HttpEndpoints
    BY <2>1, TransportAssumption DEF After, HttpEndpoints
  <2> QED BY <1>1, <2>2 DEF EnoughInv, TransportInv, CountFailover, Rotates
<1>4. req[r].answer # "error32000" => Target(r) \notin steady[r]
  BY <1>2, RotatesFromADownEndpoint
<1>5. CASE LastEndpoint(r)
  <2>1. ASSUME req[r].answer # "error32000" PROVE steady[r] = {}
    <3>1. ASSUME NEW k \in 0 .. N - 1 PROVE Nth(req[r].start, k) \notin steady[r]
      <4>1. CASE k = req[r].offset
        BY <4>1, <1>4, <2>1 DEF Target, Nth
      <4>2. CASE k # req[r].offset
        <5>1. k \in 0 .. req[r].offset - 1
          BY <4>2, <1>5, <1>2, TransportAssumption DEF LastEndpoint, Requesting, HttpEndpoints
        <5> QED BY <5>1, <1>2, <2>1 DEF Sent, TriedAreUnsteady
      <4> QED BY <4>1, <4>2
    <3>2. steady[r] \subseteq HttpEndpoints
      BY DEF EnoughInv, TransportInv
    <3> QED BY <3>1, <3>2, <1>2, AllAreMet DEF Requesting
  <2>2. End(r, "exhausted")
    BY <1>1, <1>5
  <2> QED BY <1>3, <2>1, <2>2, EndIsRequesting DEF Results
<1>6. CASE ~LastEndpoint(r)
  <2> DEFINE new == [at |-> "sent", start |-> req[r].start, offset |-> req[r].offset + 1,
                     spent |-> spent, answer |-> req[r].answer, result |-> "none"]
  <2>1. req' = [req EXCEPT ![r] = new]
    <3>1. req' = [req EXCEPT ![r].offset = NextOffset(r), ![r].spent = spent]
      BY <1>1, <1>6
    <3>2. req'[r] = new
      BY <3>1, <1>2 DEF EnoughInv, TransportInv, NextOffset, Requesting, Sent
    <3> QED BY <3>1, <3>2 DEF EnoughInv, TransportInv
  <2>2. new \in Requesting
    BY <1>2, <1>6, TransportAssumption DEF LastEndpoint, Requesting, HttpEndpoints, Results
  <2>3. req'[r] = new
    BY <2>1 DEF EnoughInv, TransportInv
  <2>4. req'[r].spent <= RequestTimeout * req'[r].offset
    <3>1. spent <= req[r].spent + RequestTimeout
      BY <1>2, TransportAssumption DEF Requesting
    <3>2. req[r].spent <= RequestTimeout * req[r].offset
      BY <1>2 DEF Sent
    <3>3. RequestTimeout * (req[r].offset + 1) = RequestTimeout * req[r].offset + RequestTimeout
      <4>1. req[r].offset \in Nat /\ req[r].offset <= req[r].offset
        BY <1>2, TransportAssumption DEF Requesting, HttpEndpoints
      <4> QED BY <4>1, Product
    <3>4. RequestTimeout * req[r].offset \in Nat /\ spent \in Nat /\ req[r].spent \in Nat
      <4>1. req[r].spent \in Nat /\ req[r].offset \in Nat /\ RequestTimeout \in Nat
        BY <1>2, TransportAssumption DEF Requesting, HttpEndpoints
      <4>2. spent \in Nat
        BY <4>1
      <4> HIDE DEF spent
      <4>3. RequestTimeout * req[r].offset \in Nat
        BY <4>1, Product
      <4> QED BY <4>1, <4>2, <4>3
    <3>5. RequestTimeout \in Nat
      BY TransportAssumption
    <3>6. new.spent = spent /\ new.offset = req[r].offset + 1
      OBVIOUS
    <3>7. req'[r].spent = spent /\ req'[r].offset = req[r].offset + 1
      <4> HIDE DEF new
      <4> QED BY <2>3, <3>6
    <3> HIDE DEF spent
    <3> HIDE DEF new
    <3> QED BY <3>1, <3>2, <3>3, <3>4, <3>5, <3>7
  <2>5. (req[r].answer # "error32000" => TriedAreUnsteady(r))'
    <3> SUFFICES ASSUME req[r].answer # "error32000", NEW k \in 0 .. req[r].offset
                 PROVE  Nth(req[r].start, k) \notin steady[r]
      BY <2>3, <1>3, <1>2 DEF TriedAreUnsteady, Nth, Requesting, HttpEndpoints
    <3>1. CASE k = req[r].offset
      BY <3>1, <1>4 DEF Target, Nth
    <3>2. CASE k # req[r].offset
      <4>1. k \in 0 .. req[r].offset - 1
        BY <3>2, <1>2 DEF Requesting, HttpEndpoints
      <4> QED BY <4>1, <1>2 DEF Sent, TriedAreUnsteady
    <3> QED BY <3>1, <3>2
  <2>6. Sent(r)'
    BY <2>3, <2>4, <2>5, <1>2, <1>3 DEF Sent, UpNow
  <2> HIDE DEF new
  <2>7. new.at = "sent" /\ new.result = "none"
    BY DEF new
  <2> QED BY <2>1, <2>2, <2>6, <2>7, <1>3, OneRequestMoves
<1> QED BY <1>5, <1>6

(* The caller's limit is not reached: at most N - 1 endpoints have hung.   *)
LEMMA NobodyIsCancelled ==
  ASSUME EnoughInv, NEW r \in Requests, OthersFit(r)
  PROVE  ~Cancelled(r)
<1> SUFFICES ASSUME Cancelled(r) PROVE FALSE
  OBVIOUS
<1>1. req[r] \in Requesting /\ Sent(r) /\ req[r].spent >= Deadline(r)
  BY TransportAssumption DEF EnoughInv, TransportInv, Cancelled, Waiting, Requesting
<1>2. req[r].offset \in Nat /\ N - 1 \in Nat /\ req[r].offset <= N - 1
  BY <1>1, TransportAssumption DEF Requesting, HttpEndpoints
<1>3. RequestTimeout * req[r].offset <= RequestTimeout * (N - 1)
  BY <1>2, Product
<1>4. RequestTimeout * req[r].offset \in Nat /\ RequestTimeout * (N - 1) \in Nat
  BY <1>2, Product
<1> QED BY <1>1, <1>2, <1>3, <1>4, TransportAssumption DEF Sent, OthersFit, Requesting

LEMMA EnoughNext ==
  ASSUME EnoughInv, [TransportNext]_transportVars
  PROVE  EnoughInv'
<1>1. CASE UNCHANGED transportVars
  BY <1>1 DEF transportVars, EnoughInv, TransportInv, Sent, TriedAreUnsteady, UpNow, OneGoodEndpointIsEnough, GaveUp, OthersFit
<1>2. ASSUME NEW e \in HttpEndpoints, Flip(e) PROVE EnoughInv'
  BY <1>2, FlipKeeps
<1>3. ASSUME NEW r \in Requests, RequestStep(r) PROVE EnoughInv'
  <2>1. CASE StartRequest(r)
    BY <2>1, StartKeeps
  <2>2. CASE Succeeds(r)
    BY <2>2, EndIsRequesting DEF Succeeds, Results, EnoughInv, TransportInv
  <2>3. CASE FailsHard(r)
    BY <2>3, EndIsRequesting DEF FailsHard, Results, EnoughInv, TransportInv
  <2>4. CASE Rotates(r)
    BY <2>4, RotatesKeeps
  <2>5. CASE Cancelled(r)
    BY <2>5, NobodyIsCancelled, EndIsRequesting DEF Cancelled, Results, EnoughInv, TransportInv
  <2> QED BY <1>3, <2>1, <2>2, <2>3, <2>4, <2>5 DEF RequestStep
<1> QED BY <1>1, <1>2, <1>3 DEF TransportNext

-------------------------------------------------------------------------------
(* One endpoint that is up while a request lasts is enough for it, for any *)
(* number of endpoints and requests, as long as the others may hang one    *)
(* after another within the caller's limit (request in                     *)
(* src/infra/rotating_http_client.rs).                                     *)
THEOREM OneIsEnough == TransportSpec => []OneGoodEndpointIsEnough
<1>1. EnoughInv => OneGoodEndpointIsEnough
  BY DEF EnoughInv
<1> QED BY EnoughInit, EnoughNext, <1>1, PTL DEF TransportSpec

(* The shape of the client's state, and: a request has a result when it is *)
(* done and only then, whatever the time limits.                           *)
THEOREM TransportShape == TransportSpec => []TransportInv
<1>1. EnoughInv => TransportInv
  BY DEF EnoughInv
<1> QED BY EnoughInit, EnoughNext, <1>1, PTL DEF TransportSpec

-------------------------------------------------------------------------------
(* Runtime: no failure of a stream, a connection or a batch ends a task or *)
(* asks for a shutdown; only the operator does.                            *)

(* Who has heard a shutdown acts on one that was sent, and shutdown_task   *)
(* on a signal.                                                            *)
HeardWasSent ==
  /\ main = "drain" => sent > 0
  /\ bot = "goodbye" => sent > 0
  /\ sigtask = "alert" => stopsAsked # {}

LifeInv == RuntimeInv /\ TasksOutliveFailures /\ HeardWasSent

StartupPlaces == {"metrics", "http", "chainId", "ws", "manager", "health", "bot"}

LEMMA StartupIs ==
  /\ InStartup <=> main \in StartupPlaces
  /\ \A i \in 1 .. 7 : Startup[i] \in StartupPlaces
  /\ MainPlaces = StartupPlaces \cup {"replay", "ready", "listen", "drain", "farewell", "return", "gone"}
  BY DEF InStartup, Startup, StartupPlaces, MainPlaces

LEMMA IndexIs ==
  ASSUME main \in StartupPlaces
  PROVE  Index(main) \in 1 .. 7 /\ Startup[Index(main)] = main
  BY DEF Index, Startup, StartupPlaces

(* The terminal is raw as long as its thread runs.                         *)
RawWhileRunning == ending # "forced" => (raw <=> tui = "run")

LEMMA LifeInit == Init => LifeInv
<1> SUFFICES ASSUME Init PROVE LifeInv
  OBVIOUS
<1>1. raw \in BOOLEAN /\ tui \in {"run", "ended"} /\ (raw <=> tui = "run")
  <2>1. CASE Tui
    BY <2>1 DEF Init
  <2>2. CASE ~Tui
    BY <2>2, RuntimeAssumption DEF Init
  <2> QED BY <2>1, <2>2
<1>2. main \in MainPlaces /\ InStartup
  BY StartupIs DEF Init, StartupPlaces
<1>3. since \in [Receivers -> Nat] /\ \A r \in Receivers : since[r] <= sent
  BY DEF Init
<1>4. radar = "off" /\ bot = "off" /\ sigtask = "off" /\ early = "wait" /\ armed = FALSE /\ sent = 0
      /\ ending = "none" /\ stopsAsked = {} /\ main = "metrics"
  BY DEF Init
<1>5. RuntimeInv
  <2>1. RawWhileRunning
    BY <1>1 DEF RawWhileRunning
  <2>2. ~armed /\ armed \in BOOLEAN
    BY <1>4
  <2>3. radar \in RadarPlaces /\ bot \in BotPlaces /\ sigtask \in SigPlaces
    BY <1>4 DEF RadarPlaces, BotPlaces, SigPlaces
  <2> QED BY <1>1, <1>2, <1>3, <1>4, <2>1, <2>2, <2>3 DEF RuntimeInv, RawWhileRunning
<1> QED BY <1>4, <1>5 DEF LifeInv, TasksOutliveFailures, HeardWasSent

-------------------------------------------------------------------------------
LEMMA StartupKeeps ==
  ASSUME LifeInv, StartupStep \/ StartTasks \/ StartupAborted \/ StartupFails \/ ReplayBegins \/ ReplayEnds
  PROVE  LifeInv'
<1> USE DEF LifeInv, RuntimeInv, TasksOutliveFailures, HeardWasSent, taskVars, threadVars
<1>1. CASE StartupStep
  <2>1. main \in StartupPlaces /\ radar = "off" /\ bot = "off"
    BY <1>1, StartupIs DEF StartupStep
  <2>2. main' \in StartupPlaces
    <3>1. Len(Startup) = 7
      BY DEF Startup
    <3> QED BY <1>1, <2>1, <3>1, IndexIs, StartupIs DEF StartupStep
  <2>3. InStartup' /\ main' \in MainPlaces /\ main' # "drain" /\ main' # "gone" /\ main # "gone"
    BY <2>1, <2>2, StartupIs DEF InStartup, StartupPlaces, Startup
  <2>4. since' \in [Receivers -> Nat] /\ \A r \in Receivers : since'[r] <= sent'
    BY <1>1 DEF StartupStep, Listen, Receivers
  <2> QED BY <1>1, <2>1, <2>3, <2>4 DEF StartupStep, Listen, InStartup
<1>2. CASE StartTasks
  <2>1. main' = "ready" /\ radar' = "subscribe" /\ bot' = "select" /\ sigtask' = "wait" /\ main = "bot"
    BY <1>2 DEF StartTasks
  <2>2. ~InStartup' /\ main' \in MainPlaces
    BY <2>1 DEF InStartup, Startup, MainPlaces
  <2>3. since' \in [Receivers -> Nat] /\ \A r \in Receivers : since'[r] <= sent'
    BY <1>2 DEF StartTasks, Receivers
  <2> QED BY <1>2, <2>1, <2>2, <2>3 DEF StartTasks, RadarPlaces, BotPlaces, SigPlaces
<1>3. CASE StartupAborted \/ StartupFails \/ ReplayBegins \/ ReplayEnds
  <2>1. main' \in {"return", "replay"} /\ main # "gone"
        /\ UNCHANGED <<taskVars, threadVars, armed, sent, since, ending, stopsAsked>>
    BY <1>3 DEF StartupAborted, StartupFails, ReplayBegins, ReplayEnds, Heeding, Fallible
  <2>2. ~InStartup' /\ main' \in MainPlaces
    BY <2>1 DEF InStartup, Startup, MainPlaces
  <2> QED BY <2>1, <2>2
<1> QED BY <1>1, <1>2, <1>3

LEMMA MainKeeps ==
  ASSUME LifeInv, Ready \/ ShutdownRequested \/ Drained \/ DrainTimeout \/ Farewell \/ Return \/ Exit
  PROVE  LifeInv'
<1> USE DEF LifeInv, RuntimeInv, TasksOutliveFailures, HeardWasSent, taskVars, threadVars
<1>1. CASE Ready
  <2>1. main' = "listen" /\ ~InStartup' /\ main' \in MainPlaces
    BY <1>1 DEF Ready, InStartup, Startup, MainPlaces
  <2>2. since' \in [Receivers -> Nat] /\ \A r \in Receivers : since'[r] <= sent'
    BY <1>1 DEF Ready, Listen, Receivers
  <2> QED BY <1>1, <2>1, <2>2 DEF Ready
<1>2. CASE ShutdownRequested
  <2>1. main' = "drain" /\ ~InStartup' /\ main' \in MainPlaces
    BY <1>2 DEF ShutdownRequested, InStartup, Startup, MainPlaces
  <2>2. sent > 0
    BY <1>2 DEF ShutdownRequested, Heard, Receivers
  <2> QED BY <1>2, <2>1, <2>2 DEF ShutdownRequested
<1>3. CASE Drained \/ DrainTimeout
  <2>1. main = "drain" /\ main' = "farewell" /\ ~InStartup' /\ main' \in MainPlaces
    BY <1>3 DEF Drained, DrainTimeout, InStartup, Startup, MainPlaces
  <2>2. radar' = "ended" /\ bot' = "ended" /\ sigtask' = "ended" /\ UNCHANGED <<threadVars, armed, sent, since, ending, stopsAsked>>
    BY <1>3 DEF Drained, DrainTimeout
  <2> QED BY <2>1, <2>2 DEF RadarPlaces, BotPlaces, SigPlaces
<1>4. CASE Farewell
  <2>1. main' = "return" /\ ~InStartup' /\ main' \in MainPlaces
    BY <1>4 DEF Farewell, InStartup, Startup, MainPlaces
  <2> QED BY <1>4, <2>1 DEF Farewell
<1>5. CASE Return
  <2>1. main' = "gone" /\ sent' = sent + 1 /\ ~InStartup' /\ main' \in MainPlaces
    BY <1>5 DEF Return, Tell, InStartup, Startup, MainPlaces
  <2> QED BY <1>5, <2>1 DEF Return, Tell
<1>6. CASE Exit
  <2>1. RawWhileRunning'
    BY <1>6 DEF Exit, Alive, RawWhileRunning
  <2>2. InStartup' <=> InStartup
    BY <1>6 DEF Exit, InStartup
  <2> QED BY <1>6, <2>1, <2>2 DEF Exit, RawWhileRunning
<1> QED BY <1>1, <1>2, <1>3, <1>4, <1>5, <1>6

LEMMA RadarKeeps ==
  ASSUME LifeInv, RadarTask
  PROVE  LifeInv'
<1> USE DEF LifeInv, RuntimeInv, TasksOutliveFailures, HeardWasSent, threadVars
<1>1. /\ radar # "off" /\ radar' \in RadarPlaces \ {"off"}
      /\ radar' = "ended" => sent > 0
      /\ UNCHANGED <<main, bot, sigtask, threadVars, armed, sent, ending, stopsAsked>>
  BY DEF RadarTask, RadarSubscribed, RadarBlock, RadarCycleDone, RadarHears, RadarFails, RadarAlerted,
     RadarBackoffHears, RadarBackoffOver, RadarConnected, AfterConnect, RadarStep, RadarOnly, RadarPlaces,
     Heard, Receivers
<1>2. since' = since \/ since' = [since EXCEPT !["radar"] = sent]
  BY DEF RadarTask, RadarSubscribed, RadarBlock, RadarCycleDone, RadarHears, RadarFails, RadarAlerted,
     RadarBackoffHears, RadarBackoffOver, RadarConnected, RadarOnly, Listen
<1>3. since' \in [Receivers -> Nat] /\ \A r \in Receivers : since'[r] <= sent'
  BY <1>1, <1>2 DEF Receivers
<1>4. InStartup' <=> InStartup
  BY <1>1 DEF InStartup
<1> QED BY <1>1, <1>3, <1>4

LEMMA BotKeeps ==
  ASSUME LifeInv, BotTask
  PROVE  LifeInv'
<1> USE DEF LifeInv, RuntimeInv, TasksOutliveFailures, HeardWasSent, threadVars
<1>1. /\ bot # "off" /\ bot' \in BotPlaces \ {"off"}
      /\ bot' \in {"goodbye", "ended"} => sent > 0
      /\ UNCHANGED <<main, radar, sigtask, threadVars, armed, sent, since, ending, stopsAsked>>
  BY DEF BotTask, BotPrices, BotDone, BotFails, BotAlerted, BotHears, BotEnds, BotStep, BotOnly, BotPlaces,
     Heard, Receivers
<1>2. InStartup' <=> InStartup
  BY <1>1 DEF InStartup
<1> QED BY <1>1, <1>2

LEMMA AskingKeeps ==
  ASSUME LifeInv, Interrupt \/ Terminate \/ SignalTaskSends \/ QuitKey \/ TuiHears \/ Watchdog
  PROVE  LifeInv'
<1> USE DEF LifeInv, RuntimeInv, TasksOutliveFailures, HeardWasSent, taskVars, threadVars
<1>0. InStartup' <=> InStartup
  BY DEF InStartup, Interrupt, Terminate, SignalTaskSends, QuitKey, TuiHears, Watchdog
<1>1. CASE Interrupt
  BY <1>0, <1>1 DEF Interrupt, SignalArrives, Tell, EarlyHandles, SigPlaces
<1>2. CASE Terminate
  BY <1>0, <1>2 DEF Terminate, SignalArrives, SigPlaces, Alive
<1>3. CASE SignalTaskSends
  BY <1>0, <1>3 DEF SignalTaskSends, Tell, SigPlaces
<1>4. CASE QuitKey
  <2>1. RawWhileRunning' /\ raw' \in BOOLEAN
    BY <1>4 DEF QuitKey, RawWhileRunning
  <2>2. stopsAsked' \subseteq {"SIGINT", "SIGTERM", "key"} /\ "key" \in stopsAsked'
    BY <1>4 DEF QuitKey, SignalArrives
  <2>3. since' \in [Receivers -> Nat] /\ (\A r \in Receivers : since'[r] <= sent') /\ sent' > 0 /\ sent' \in Nat
    BY <1>4 DEF QuitKey, Tell, Receivers
  <2> QED BY <1>0, <1>4, <2>1, <2>2, <2>3 DEF QuitKey, RawWhileRunning
<1>5. CASE TuiHears
  BY <1>0, <1>5 DEF TuiHears
<1>6. CASE Watchdog
  BY <1>0, <1>6 DEF Watchdog
<1> QED BY <1>1, <1>2, <1>3, <1>4, <1>5, <1>6

LEMMA LifeNext ==
  ASSUME LifeInv, [Next]_vars
  PROVE  LifeInv'
<1>1. CASE UNCHANGED vars \/ Stopped
  <2>1. UNCHANGED <<main, radar, bot, sigtask, early, tui, raw, armed, sent, since, ending, stopsAsked>>
    BY <1>1 DEF Stopped, vars, taskVars, threadVars
  <2>2. RuntimeInv => RuntimeInv'
    BY <2>1 DEF RuntimeInv, InStartup
  <2> QED BY <2>1, <2>2 DEF LifeInv, TasksOutliveFailures, HeardWasSent
<1>2. CASE MainStep \/ StartupFails \/ DrainTimeout
  BY <1>2, StartupKeeps, MainKeeps DEF MainStep
<1>3. CASE RadarTask \/ BotTask
  BY <1>3, RadarKeeps, BotKeeps
<1>4. CASE Interrupt \/ Terminate \/ SignalTaskSends \/ QuitKey \/ TuiHears \/ Watchdog
  BY <1>4, AskingKeeps
<1> QED BY <1>1, <1>2, <1>3, <1>4 DEF Next

-------------------------------------------------------------------------------
(* radar_task and bot_task of main end only after a shutdown was sent,     *)
(* whatever fails in them and however often.                               *)
THEOREM TasksLive == Spec => []TasksOutliveFailures
<1>1. LifeInv => TasksOutliveFailures
  BY DEF LifeInv
<1> QED BY LifeInit, LifeNext, <1>1, PTL DEF Spec

(* The module's invariant; above all: as long as main has not returned, a  *)
(* shutdown was sent only if the operator asked for one.                   *)
THEOREM RuntimeInvariant == Spec => []RuntimeInv
<1>1. LifeInv => RuntimeInv
  BY DEF LifeInv
<1> QED BY LifeInit, LifeNext, <1>1, PTL DEF Spec

-------------------------------------------------------------------------------
(* ExecutionEngine: a nonce is taken in one step, so whoever holds one that*)
(* was not taken before the counter was last set holds one below it.       *)

Stages == {"idle", "asking", "taking", "preparing", "sending", "confirming", "failed",
           "waiting", "resyncing", "setting"}
InOrder(c) == stage[c] \in Holding /\ c \notin outrun

NonceInv ==
  /\ local \in Nat /\ mined \in Nat /\ stage \in [Calls -> Stages] /\ nonce \in [Calls -> Nat]
  /\ \A c \in Calls : InOrder(c) => nonce[c] < local
  /\ \A c, d \in Calls : c # d /\ InOrder(c) /\ InOrder(d) => nonce[c] # nonce[d]

LEMMA NonceInit == EngineInit => NonceInv
  BY DEF EngineInit, NonceInv, InOrder, Holding, Stages

(* A step that neither counts, takes a nonce nor starts to hold one.       *)
LEMMA NonceRests ==
  ASSUME NonceInv, UNCHANGED <<local, nonce, outrun>>, mined' \in Nat, stage' \in [Calls -> Stages],
         \A c \in Calls : stage'[c] \in Holding => stage[c] \in Holding
  PROVE  NonceInv'
  BY DEF NonceInv, InOrder

LEMMA TakeKeeps ==
  ASSUME NonceInv, NEW c \in Calls, TakeNonce(c)
  PROVE  NonceInv'
<1>1. /\ local' = local + 1 /\ nonce' = [nonce EXCEPT ![c] = local] /\ outrun' = outrun \ {c}
      /\ stage' = [stage EXCEPT ![c] = "preparing"] /\ mined' = mined
  BY DEF TakeNonce, FetchAdd, To
<1>2. \A d \in Calls \ {c} : InOrder(d)' => InOrder(d) /\ nonce'[d] = nonce[d]
  BY <1>1 DEF NonceInv, InOrder
<1>3. nonce'[c] = local /\ local < local'
  BY <1>1 DEF NonceInv
<1>4. \A d \in Calls \ {c} : InOrder(d)' => nonce'[d] < local
  BY <1>2 DEF NonceInv
<1>5. /\ local' \in Nat /\ mined' \in Nat /\ stage' \in [Calls -> Stages]
      /\ nonce' \in [Calls -> Nat]
  BY <1>1 DEF NonceInv, Stages
<1>6. \A d \in Calls : InOrder(d)' => nonce'[d] < local'
  BY <1>1, <1>3, <1>4, <1>5 DEF NonceInv
<1>7. \A d, e \in Calls : d # e /\ InOrder(d)' /\ InOrder(e)' => nonce'[d] # nonce'[e]
  BY <1>2, <1>3, <1>4, <1>5 DEF NonceInv
<1> QED BY <1>5, <1>6, <1>7 DEF NonceInv, InOrder

(* What is in order after the counter was set was so before.               *)
LEMMA ResyncKeeps ==
  ASSUME NonceInv, NEW c \in Calls, Resynced(c)
  PROVE  NonceInv'
<1>1. stage' = [stage EXCEPT ![c] = "idle"] /\ UNCHANGED <<nonce, mined>>
  BY DEF Resynced, To
<1>2. stage' \in [Calls -> Stages]
  BY <1>1 DEF NonceInv, Stages
<1>3. \A d \in Calls : stage'[d] \in Holding => stage[d] \in Holding
  BY <1>1 DEF NonceInv, Holding
<1>4. CASE local' = local /\ outrun' = outrun
  BY <1>1, <1>2, <1>3, <1>4, NonceRests DEF NonceInv
<1>5. CASE local' = nonce[c] /\ outrun' = {d \in Calls : stage[d] \in Holding}
  <2>1. \A d \in Calls : ~InOrder(d)'
    BY <1>3, <1>5 DEF InOrder
  <2> QED BY <2>1, <1>1, <1>2, <1>5 DEF NonceInv, InOrder
<1> QED BY <1>4, <1>5 DEF Resynced

LEMMA NonceNext ==
  ASSUME NonceInv, [EngineNext]_engineVars
  PROVE  NonceInv'
<1>1. CASE UNCHANGED engineVars
  BY <1>1 DEF engineVars, NonceInv, InOrder
<1>2. ASSUME NEW c \in Calls, NEW l \in Labels, StartCooldown(c, l) PROVE NonceInv'
  BY <1>2, NonceRests DEF NonceInv, StartCooldown, To, Stages, Holding
<1>3. ASSUME NEW c \in Calls, ReadFlag(c) PROVE NonceInv'
  BY <1>3, NonceRests DEF NonceInv, ReadFlag, To, Stages, Holding
<1>4. ASSUME NEW c \in Calls, Prepare(c) PROVE NonceInv'
  BY <1>4, NonceRests DEF NonceInv, Prepare, Stages, Holding
<1>5. ASSUME NEW c \in Calls, SendBundle(c) PROVE NonceInv'
  BY <1>5, NonceRests DEF NonceInv, SendBundle, To, Stages, Holding
<1>6. ASSUME NEW c \in Calls, Confirm(c) PROVE NonceInv'
  BY <1>6, NonceRests DEF NonceInv, Confirm, To, Stages, Holding
<1>7. ASSUME NEW c \in Calls, TriggerResync(c) PROVE NonceInv'
  BY <1>7, NonceRests DEF NonceInv, TriggerResync, To, Stages, Holding
<1>8. ASSUME NEW c \in Calls, CountRead(c) PROVE NonceInv'
  BY <1>8 DEF NonceInv, InOrder, CountRead, To, Stages, Holding
<1>9. ASSUME NEW c \in Calls, WaitedForResync(c) PROVE NonceInv'
  BY <1>9, NonceRests DEF NonceInv, WaitedForResync, To, Stages, Holding
<1>10. CASE BundleIncluded \/ BundleExpires \/ EngineTick
  BY <1>10, NonceRests DEF NonceInv, BundleIncluded, BundleExpires, EngineTick
<1> QED BY <1>1, <1>2, <1>3, <1>4, <1>5, <1>6, <1>7, <1>8, <1>9, <1>10, TakeKeeps, ResyncKeeps
        DEF EngineNext

(* Two calls never hold the same nonce unless the counter was set back     *)
(* between their turns, for any number of calls and pairs (get_next_nonce, *)
(* trigger_resync of execution/execution_engine.rs).                       *)
THEOREM NoncesStayUnique == EngineSpec => []NoncesAreUnique
<1>1. NonceInv => NoncesAreUnique
  BY DEF NonceInv, InOrder, NoncesAreUnique
<1> QED BY NonceInit, NonceNext, <1>1, PTL DEF EngineSpec

-------------------------------------------------------------------------------
(* PriceFeed and GasPricing: the caches of prices and of fees.             *)

Entries == [from : {"market", "table"}, age : Nat, ttl : Nat]

(* The lock's holder is who asks; nobody else writes a price, and time     *)
(* makes none fresh again.                                                 *)
FeedInv ==
  /\ price \in [Symbols -> Entries \cup {Absent}]
  /\ lookup \in [PriceTasks -> {"idle", "queueing", "asking"}]
  /\ asked \in [PriceTasks -> Symbols]
  /\ fetching \in PriceTasks \cup {NoReader}
  /\ \A r \in PriceTasks : lookup[r] = "asking" <=> fetching = r
  /\ fetching # NoReader => ~Fresh(asked[fetching])

LEMMA NobodyIsNoReader == NoReader \notin PriceTasks
  BY PriceFeedAssumption, PricingAssumption DEF PriceTasks

LEMMA FeedStarts ==
  ASSUME FeedInit(PriceTasks)
  PROVE  FeedInv
<1>1. (CHOOSE s \in Symbols : TRUE) \in Symbols
  BY PricingAssumption
<1> QED BY <1>1, NobodyIsNoReader DEF FeedInit, FeedInv

LEMMA MissKeeps ==
  ASSUME FeedInv, NEW r \in PriceTasks, NEW s \in Symbols, Miss(r, s)
  PROVE  FeedInv'
<1>1. /\ lookup[r] = "idle" /\ UNCHANGED <<price, fetching>>
      /\ lookup' = [lookup EXCEPT ![r] = "queueing"] /\ asked' = [asked EXCEPT ![r] = s]
  BY DEF Miss
<1>2. fetching # r
  BY <1>1 DEF FeedInv
<1>3. \A q \in PriceTasks : lookup'[q] = "asking" <=> fetching' = q
  BY <1>1, <1>2 DEF FeedInv
<1>4. fetching' # NoReader => ~Fresh(asked[fetching])'
  BY <1>1, <1>2 DEF FeedInv, Fresh
<1> QED BY <1>1, <1>3, <1>4 DEF FeedInv

LEMMA RecheckKeeps ==
  ASSUME FeedInv, NEW r \in PriceTasks, Recheck(r)
  PROVE  FeedInv'
<1>1. lookup[r] = "queueing" /\ fetching = NoReader /\ UNCHANGED <<price, asked>>
  BY DEF Recheck
<1>2. CASE ~Fresh(asked[r]) /\ lookup' = [lookup EXCEPT ![r] = "asking"] /\ fetching' = r
  <2>1. \A q \in PriceTasks : lookup'[q] = "asking" <=> fetching' = q
    BY <1>1, <1>2, NobodyIsNoReader DEF FeedInv
  <2>2. ~Fresh(asked[fetching])'
    BY <1>1, <1>2 DEF Fresh
  <2> QED BY <1>1, <1>2, <2>1, <2>2 DEF FeedInv
<1>3. CASE lookup' = [lookup EXCEPT ![r] = "idle"] /\ fetching' = fetching
  BY <1>1, <1>3, NobodyIsNoReader DEF FeedInv
<1> QED BY <1>2, <1>3 DEF Recheck, StillMissing

LEMMA AnswerKeeps ==
  ASSUME FeedInv, NEW r \in PriceTasks, PriceAnswered(r)
  PROVE  FeedInv'
<1>1. PICK entry \in PriceAnswers : price' = [price EXCEPT ![asked[r]] = entry]
  BY DEF PriceAnswered
<1>2. entry \in Entries
  BY PriceFeedAssumption DEF PriceAnswers, Entries
<1>3. /\ lookup[r] = "asking" /\ lookup' = [lookup EXCEPT ![r] = "idle"]
      /\ fetching' = NoReader /\ asked' = asked
  BY DEF PriceAnswered
<1>4. price' \in [Symbols -> Entries \cup {Absent}]
  BY <1>1, <1>2 DEF FeedInv
<1> QED BY <1>3, <1>4, NobodyIsNoReader DEF FeedInv

(* No price becomes fresh by waiting.                                      *)
LEMMA AgeingKeeps ==
  ASSUME FeedInv, FeedTick, UNCHANGED <<lookup, asked, fetching>>
  PROVE  FeedInv'
<1>1. ASSUME NEW s \in Symbols
      PROVE  /\ price'[s] \in Entries \cup {Absent}
             /\ ~Fresh(s) => ~Fresh(s)'
  <2>1. /\ price[s] \in Entries \cup {Absent}
        /\ price'[s] = IF price[s] = Absent \/ price[s].age > OldestPrice THEN price[s]
                       ELSE [price[s] EXCEPT !.age = @ + 1]
    BY DEF FeedInv, FeedTick
  <2>2. CASE price'[s] = price[s]
    BY <2>1, <2>2 DEF Fresh
  <2>3. CASE price[s] \in Entries /\ price'[s] = [price[s] EXCEPT !.age = @ + 1]
    <3>1. /\ price'[s] \in Entries /\ price'[s].ttl = price[s].ttl
          /\ price'[s].age = price[s].age + 1
      BY <2>3 DEF Entries
    <3>2. price[s].age \in Nat /\ price[s].ttl \in Nat
      BY <2>3 DEF Entries
    <3>3. price[s] # Absent
      BY <2>3 DEF Entries, Absent
    <3> QED BY <3>1, <3>2, <3>3 DEF Fresh
  <2> QED BY <2>1, <2>2, <2>3
<1>2. price' \in [Symbols -> Entries \cup {Absent}]
  BY <1>1 DEF FeedTick
<1>3. fetching # NoReader => asked[fetching] \in Symbols
  BY DEF FeedInv
<1>4. fetching' # NoReader => ~Fresh(asked[fetching])'
  BY <1>1, <1>3 DEF FeedInv, Fresh
<1> QED BY <1>2, <1>4 DEF FeedInv

LEMMA FeedNext ==
  ASSUME FeedInv, [PricingNext]_gasVars
  PROVE  FeedInv'
<1>1. CASE UNCHANGED feedVars
  BY <1>1 DEF feedVars, FeedInv, Fresh
<1>2. ASSUME NEW r \in Readers, FeedStep(r) PROVE FeedInv'
  BY <1>2, MissKeeps, RecheckKeeps, AnswerKeeps DEF FeedStep, PriceTasks
<1>3. CASE Recheck(Executor) \/ PriceAnswered(Executor)
  BY <1>3, RecheckKeeps, AnswerKeeps DEF PriceTasks
<1>4. CASE AnyPrice
  BY <1>1, <1>4, MissKeeps, PricingAssumption DEF AnyPrice, PriceTasks
<1>5. CASE GasTick
  BY <1>5, AgeingKeeps DEF GasTick
<1>6. ASSUME NEW e \in Estimators, EstimatorStep(e) PROVE UNCHANGED feedVars
  BY <1>6 DEF EstimatorStep, Begin, OracleAnswers, OracleFails, NodeAnswers
<1>7. CASE BaseFee \/ BaseAnswers \/ StrictPrice \/ GasReload \/ UNCHANGED gasVars
  BY <1>1, <1>7 DEF BaseFee, BaseAnswers, StrictPrice, GasReload, gasVars
<1> QED BY <1>1, <1>2, <1>3, <1>4, <1>5, <1>6, <1>7 DEF PricingNext

(* At most one price is asked for at a time, and not while the cache holds *)
(* a fresh one, for any number of tasks, symbols and lifetimes (get_price  *)
(* in infra/price_feed.rs).                                                *)
THEOREM OneFlight == PricingSpec => []SingleFlight
<1>1. PricingInit => FeedInv
  BY FeedStarts DEF PricingInit
<1>2. FeedInv => SingleFlight
  BY NobodyIsNoReader DEF FeedInv, SingleFlight
<1> QED BY <1>1, <1>2, FeedNext, PTL DEF PricingSpec

-------------------------------------------------------------------------------
Caches == [fee : Nat \cup {Default}, age : 0 .. Ttl]

(* A fee in the oracle's or the base fee's cache is as old as its reading; *)
(* the oracle's answer never outlives the fees that were made of it, so it *)
(* is only a base fee that is cached a second time.                        *)
FeesInv ==
  /\ gas \in Caches /\ base \in Caches /\ oracle \in Caches
  /\ gas.age <= oracle.age
  /\ Valid(base) => base.fee = base.age
  /\ Valid(gas) => gas.fee = Default \/ gas.fee <= gas.age + (Ttl - 1)

LEMMA FeesInit == PricingInit => FeesInv
  BY PricingAssumption DEF PricingInit, FeesInv, EmptyCache, Caches, Valid

LEMMA ReadingIs ==
  ASSUME NEW fee \in Nat \cup {Default}
  PROVE  /\ Reading(fee) \in Caches /\ Valid(Reading(fee))
         /\ Reading(fee).fee = fee /\ Reading(fee).age = 0
  BY PricingAssumption DEF Reading, Caches, Valid

LEMMA LaterIs ==
  ASSUME NEW cache \in Caches
  PROVE  /\ Later(cache) \in Caches
         /\ Later(cache).age = IF cache.age = Ttl THEN Ttl ELSE cache.age + 1
         /\ Valid(Later(cache)) => /\ Valid(cache)
                                   /\ Later(cache).fee = Grown(cache.fee)
<1>1. cache.age \in 0 .. Ttl /\ cache.fee \in Nat \cup {Default}
  BY DEF Caches
<1>2. Grown(cache.fee) \in Nat \cup {Default}
  BY <1>1 DEF Grown
<1>3. EmptyCache \in Caches /\ EmptyCache.age = Ttl /\ ~Valid(EmptyCache)
  BY PricingAssumption DEF EmptyCache, Caches, Valid
<1>4. CASE ~Valid(cache) \/ cache.age + 1 = Ttl
  BY <1>1, <1>3, <1>4, PricingAssumption DEF Later, Valid
<1>5. CASE Valid(cache) /\ cache.age + 1 # Ttl
  <2>1. Later(cache) = [fee |-> Grown(cache.fee), age |-> cache.age + 1]
    BY <1>5 DEF Later
  <2> QED BY <1>1, <1>2, <1>5, <2>1, PricingAssumption DEF Caches, Valid
<1> QED BY <1>4, <1>5

(* What a step may write to the caches.                                    *)
CacheSteps ==
  \/ UNCHANGED <<gas, base, oracle>>
  \/ gas' = Reading(0) /\ base' = Reading(0) /\ oracle' \in {oracle, Reading(0)}
  \/ Valid(base) /\ gas' = Reading(base.fee) /\ UNCHANGED <<base, oracle>>
  \/ gas' = Reading(Default) /\ UNCHANGED <<base, oracle>>
  \/ base' = Reading(0) /\ UNCHANGED <<gas, oracle>>

LEMMA CacheStepsKeep ==
  ASSUME FeesInv, CacheSteps
  PROVE  FeesInv'
<1> USE PricingAssumption
<1>1. /\ gas.age \in Nat /\ base.age \in Nat /\ oracle.age \in Nat
      /\ Valid(base) => base.fee \in Nat /\ base.fee <= Ttl - 1
  BY DEF FeesInv, Caches, Valid
<1>2. /\ Reading(0) \in Caches /\ Valid(Reading(0)) /\ Reading(0).fee = 0 /\ Reading(0).age = 0
  BY ReadingIs
<1>3. /\ Reading(Default) \in Caches /\ Reading(Default).fee = Default
      /\ Reading(Default).age = 0
  BY ReadingIs
<1>4. CASE UNCHANGED <<gas, base, oracle>>
  BY <1>4 DEF FeesInv, Valid
<1>5. CASE gas' = Reading(0) /\ base' = Reading(0) /\ oracle' \in {oracle, Reading(0)}
  BY <1>1, <1>2, <1>5 DEF FeesInv
<1>6. CASE Valid(base) /\ gas' = Reading(base.fee) /\ UNCHANGED <<base, oracle>>
  <2>1. /\ Reading(base.fee) \in Caches /\ Reading(base.fee).age = 0
        /\ Reading(base.fee).fee = base.fee
    BY <1>1, <1>6, ReadingIs
  <2> QED BY <1>1, <1>6, <2>1 DEF FeesInv, Valid
<1>7. CASE gas' = Reading(Default) /\ UNCHANGED <<base, oracle>>
  BY <1>1, <1>3, <1>7 DEF FeesInv, Valid
<1>8. CASE base' = Reading(0) /\ UNCHANGED <<gas, oracle>>
  BY <1>2, <1>8 DEF FeesInv, Valid
<1> QED BY <1>4, <1>5, <1>6, <1>7, <1>8 DEF CacheSteps

LEMMA FeesAge ==
  ASSUME FeesInv, GasTick
  PROVE  FeesInv'
<1>1. gas' = Later(gas) /\ base' = Later(base) /\ oracle' = Later(oracle)
  BY DEF GasTick
<1>2. gas' \in Caches /\ base' \in Caches /\ oracle' \in Caches
  BY <1>1, LaterIs DEF FeesInv
<1>3. gas.age \in 0 .. Ttl /\ oracle.age \in 0 .. Ttl /\ base.age \in 0 .. Ttl
  BY DEF FeesInv, Caches
<1>4. gas'.age <= oracle'.age
  BY <1>1, <1>3, LaterIs, PricingAssumption DEF FeesInv
<1>5. Valid(base)' => base'.fee = base'.age
  <2> SUFFICES ASSUME Valid(base)' PROVE base'.fee = base'.age
    OBVIOUS
  <2>1. Valid(base) /\ base'.fee = Grown(base.fee)
    BY <1>1, LaterIs DEF FeesInv, Valid
  <2>2. base.fee = base.age /\ base.fee # Default
    BY <1>3, <2>1, PricingAssumption DEF FeesInv
  <2>3. base'.age = base.age + 1
    BY <1>1, <1>3, <2>1, LaterIs, PricingAssumption DEF FeesInv, Valid
  <2> QED BY <2>1, <2>2, <2>3 DEF Grown
<1>6. Valid(gas)' => gas'.fee = Default \/ gas'.fee <= gas'.age + (Ttl - 1)
  <2> SUFFICES ASSUME Valid(gas)', gas'.fee # Default PROVE gas'.fee <= gas'.age + (Ttl - 1)
    OBVIOUS
  <2>1. Valid(gas) /\ gas'.fee = Grown(gas.fee)
    BY <1>1, LaterIs DEF FeesInv, Valid
  <2>2. gas.fee \in Nat /\ gas.fee <= gas.age + (Ttl - 1) /\ gas'.fee = gas.fee + 1
    BY <2>1 DEF FeesInv, Caches, Grown
  <2>3. gas'.age = gas.age + 1
    BY <1>1, <1>3, <2>1, LaterIs, PricingAssumption DEF FeesInv, Valid
  <2> QED BY <1>3, <2>2, <2>3, PricingAssumption
<1> QED BY <1>2, <1>4, <1>5, <1>6 DEF FeesInv

(* The oracle's cache is only read when the gas cache has run out, and then*)
(* it has run out too: that branch writes nothing.                         *)
LEMMA PopulateIs ==
  ASSUME FeesInv, NEW e, NEW p, Populate(e, p)
  PROVE  CacheSteps
<1>1. ~Valid(gas) => ~Valid(oracle)
  BY PricingAssumption DEF FeesInv, Valid, Caches
<1> QED BY <1>1 DEF Populate, CacheSteps, BaseHit

LEMMA FeesNext ==
  ASSUME FeesInv, [PricingNext]_gasVars
  PROVE  FeesInv'
<1>1. ASSUME NEW e \in Estimators, EstimatorStep(e) PROVE CacheSteps
  BY <1>1, PopulateIs
     DEF EstimatorStep, Begin, OracleAnswers, OracleFails, NodeAnswers, BaseHit, CacheSteps
<1>2. BaseAnswers => CacheSteps
  BY DEF BaseAnswers, CacheSteps
<1>3. BaseFee \/ StrictPrice \/ AnyPrice \/ GasReload => CacheSteps
  BY DEF BaseFee, StrictPrice, AnyPrice, GasReload, CacheSteps
<1>4. UNCHANGED gasVars \/ UNCHANGED pricingVars => CacheSteps
  BY DEF gasVars, pricingVars, CacheSteps
<1> QED BY <1>1, <1>2, <1>3, <1>4, CacheStepsKeep, FeesAge DEF PricingNext

(* No fee that is served was read longer than two lifetimes ago, through   *)
(* failures, reloads and the reaper's calls, for any lifetime: a cached    *)
(* base fee may be cached once more as a gas fee, and never a third time   *)
(* (populate_dynamic_gas and its caches in core/gas.rs).                   *)
THEOREM FeesStayRecent == PricingSpec => []FeesAreRecent
<1>1. FeesInv => FeesAreRecent
  BY PricingAssumption DEF FeesInv, FeesAreRecent, Caches, Valid
<1> QED BY <1>1, FeesInit, FeesNext, PTL DEF PricingSpec

-------------------------------------------------------------------------------
(* Paper: samples go one way, from the executor over the channel and the   *)
(* writer into the aggregate, in the order of their numbers; the file's    *)
(* rows are older than what has not been written yet.                      *)

AllSamples == {Sample(id, o) : id \in Nat \ {0}, o \in AllOutcomes}
Way == aggregate \o writing \o queue

(* The number of a route whose sample was made, in this process or before. *)
Told(id) == id <= seen /\ (executor.at = "calling" => id < seen)

PaperTypes ==
  /\ seen \in Nat /\ (executor.at = "calling" => seen # 0)
  /\ aggregate \in Seq(AllSamples) /\ queue \in Seq(AllSamples) /\ file \in Seq(Int)
  /\ writing = <<>> \/ \E s \in AllSamples : writing = <<s>>
InTurn ==
  /\ \A i \in 1 .. Len(Way) : Told(Way[i].id) /\ Way[i].id \notin dropped
  /\ \A i, j \in 1 .. Len(Way) : i < j => Way[i].id < Way[j].id
  /\ submitted = {Way[i].id : i \in 1 .. Len(Way)} \cup dropped
  /\ \A d \in dropped : d \in Int /\ Told(d)
Rows ==
  /\ \A i \in 1 .. Len(file) :
       /\ Told(file[i])
       /\ \A j \in Len(aggregate) + 1 .. Len(Way) : file[i] < Way[j].id
  /\ \A i, j \in 1 .. Len(file) : i < j => file[i] < file[j]
Missing ==
  unwritten = {aggregate[i].id : i \in 1 .. Len(aggregate)} \ {file[i] : i \in 1 .. Len(file)}

PaperInv == PaperTypes /\ InTurn /\ Rows /\ Missing

LEMMA SampleIs ==
  ASSUME NEW id \in Nat \ {0}, NEW o \in AllOutcomes
  PROVE  Sample(id, o) \in AllSamples /\ Sample(id, o).id = id
<1>1. Sample(id, o) \in AllSamples
  BY DEF AllSamples
<1>2. Sample(id, o).id = id
  BY DEF Sample
<1> QED BY <1>1, <1>2

LEMMA SampleHasId ==
  ASSUME NEW s \in AllSamples
  PROVE  s.id \in Nat \ {0}
<1>1. PICK id \in Nat \ {0}, o \in AllOutcomes : s = Sample(id, o)
  BY DEF AllSamples
<1> QED BY <1>1, SampleIs

LEMMA OneIsASeq ==
  ASSUME NEW S, NEW s \in S
  PROVE  <<s>> \in Seq(S) /\ Len(<<s>>) = 1 /\ <<s>>[1] = s
  OBVIOUS

(* The way is a sequence of samples, which begins with those counted.      *)
LEMMA WayIs ==
  ASSUME PaperTypes
  PROVE  /\ writing \in Seq(AllSamples) /\ Way \in Seq(AllSamples)
         /\ Len(Way) = Len(aggregate) + Len(writing) + Len(queue)
         /\ \A i \in 1 .. Len(aggregate) : Way[i] = aggregate[i]
         /\ \A i \in 1 .. Len(Way) : Way[i] \in AllSamples
<1>1. aggregate \in Seq(AllSamples) /\ queue \in Seq(AllSamples)
  BY DEF PaperTypes
<1>2. writing \in Seq(AllSamples)
  BY OneIsASeq, EmptySeq DEF PaperTypes
<1>3. /\ aggregate \o writing \in Seq(AllSamples)
      /\ Len(aggregate \o writing) = Len(aggregate) + Len(writing)
      /\ \A i \in 1 .. Len(aggregate) + Len(writing) : (aggregate \o writing)[i] =
           IF i <= Len(aggregate) THEN aggregate[i] ELSE writing[i - Len(aggregate)]
  BY <1>1, <1>2, ConcatProperties
<1>4. /\ Way \in Seq(AllSamples)
      /\ Len(Way) = Len(aggregate \o writing) + Len(queue)
      /\ \A i \in 1 .. Len(aggregate \o writing) + Len(queue) : Way[i] =
           IF i <= Len(aggregate \o writing) THEN (aggregate \o writing)[i]
           ELSE queue[i - Len(aggregate \o writing)]
  BY <1>1, <1>3, ConcatProperties DEF Way
<1>5. Len(aggregate) \in Nat /\ Len(writing) \in Nat /\ Len(queue) \in Nat
  BY <1>1, <1>2, LenProperties
<1>6. \A i \in 1 .. Len(aggregate) : Way[i] = aggregate[i]
  BY <1>3, <1>4, <1>5
<1> QED BY <1>2, <1>3, <1>4, <1>5, <1>6, ElementOfSeq

LEMMA PaperStarts == PaperInit => PaperInv
<1> SUFFICES ASSUME PaperInit PROVE PaperInv
  OBVIOUS
<1>1. /\ aggregate = <<>> /\ writing = <<>> /\ queue = <<>> /\ file = <<>> /\ seen = 0
      /\ dropped = {} /\ unwritten = {} /\ submitted = {} /\ executor.at # "calling"
  BY DEF PaperInit, Resting
<1>2. PaperTypes
  BY <1>1 DEF PaperTypes
<1>3. Len(Way) = 0
  BY <1>1, <1>2, WayIs
<1> QED BY <1>1, <1>2, <1>3 DEF PaperInv, InTurn, Rows, Missing

(* Whatever leaves the way, the file and the sets alone keeps what is said *)
(* of them, when who was told stays told.                                  *)
LEMMA TurnStays ==
  ASSUME PaperInv, Way' = Way, UNCHANGED <<dropped, submitted>>, \A id \in Int : Told(id) => Told(id)'
  PROVE  InTurn'
<1>1. \A i \in 1 .. Len(Way) : Way[i].id \in Int
  BY WayIs, SampleHasId DEF PaperInv
<1> QED BY <1>1 DEF PaperInv, InTurn

LEMMA RowsStay ==
  ASSUME PaperInv, Way' = Way, UNCHANGED <<file, aggregate>>, \A id \in Int : Told(id) => Told(id)'
  PROVE  Rows'
<1>1. \A i \in 1 .. Len(file) : file[i] \in Int
  BY ElementOfSeq DEF PaperInv, PaperTypes
<1> QED BY <1>1 DEF PaperInv, Rows

LEMMA RouteSeen ==
  ASSUME PaperInv, ObserveRoute
  PROVE  PaperInv'
<1>1. /\ executor'.at = "calling" /\ seen' = seen + 1
      /\ UNCHANGED <<queue, writing, aggregate, file, dropped, unwritten, submitted>>
  BY DEF ObserveRoute
<1>2. PaperTypes'
  BY <1>1 DEF PaperInv, PaperTypes
<1>3. Way' = Way
  BY <1>1 DEF Way
<1>4. \A id \in Int : Told(id) => Told(id)'
  BY <1>1 DEF Told, PaperInv, PaperTypes
<1> QED BY <1>1, <1>2, <1>3, <1>4, TurnStays, RowsStay DEF PaperInv, Missing

(* A sample that joins the way is younger than those on it and those in    *)
(* the file.                                                               *)
LEMMA SampleJoins ==
  ASSUME PaperInv, executor.at = "calling", executor'.at # "calling",
         NEW s \in AllSamples, s.id = seen, queue' = Append(queue, s), submitted' = submitted \cup {s.id},
         UNCHANGED <<seen, aggregate, writing, file, dropped, unwritten>>
  PROVE  PaperInv'
<1>1. PaperTypes' /\ PaperTypes
  BY AppendProperties DEF PaperInv, PaperTypes
<1>2. Way' = Append(Way, s)
  <2>1. /\ aggregate \in Seq(AllSamples) /\ writing \in Seq(AllSamples)
        /\ queue \in Seq(AllSamples) /\ Way \in Seq(AllSamples)
    BY <1>1, WayIs DEF PaperTypes
  <2>2. aggregate \o writing \in Seq(AllSamples) /\ <<s>> \in Seq(AllSamples)
    BY <2>1, ConcatProperties, OneIsASeq
  <2>3. Append(queue, s) = queue \o <<s>> /\ Append(Way, s) = Way \o <<s>>
    BY <2>1, AppendIsConcat
  <2>4. ((aggregate \o writing) \o queue) \o <<s>> = (aggregate \o writing) \o (queue \o <<s>>)
    BY <2>1, <2>2, ConcatAssociative
  <2> QED BY <2>3, <2>4 DEF Way
<1>3. /\ Len(Way) \in Nat /\ Len(Way') = Len(Way) + 1 /\ Way'[Len(Way) + 1] = s
      /\ \A i \in 1 .. Len(Way) : Way'[i] = Way[i] /\ Way[i].id \in Int /\ Way[i].id < seen
  <2>1. Way \in Seq(AllSamples) /\ \A i \in 1 .. Len(Way) : Way[i] \in AllSamples
    BY <1>1, WayIs
  <2>2. \A i \in 1 .. Len(Way) : Way[i].id < seen
    BY DEF PaperInv, InTurn, Told
  <2> QED BY <1>2, <2>1, <2>2, AppendProperties, LenProperties, SampleHasId
<1>4. seen \in Nat /\ \A id \in Int : Told(id)' <=> id <= seen
  BY DEF Told, PaperInv, PaperTypes
<1>5. \A d \in dropped : d \in Int /\ d < seen
  BY DEF PaperInv, InTurn, Told
<1>6. ASSUME NEW i \in 1 .. Len(Way')
      PROVE  (Told(Way[i].id) /\ Way[i].id \notin dropped)'
  <2>1. CASE i \in 1 .. Len(Way)
    <3>1. Way'[i].id \in Int /\ Way'[i].id < seen /\ Way'[i].id = Way[i].id
      BY <1>3, <2>1
    <3>2. Told(Way[i].id)'
      BY <1>4, <3>1
    <3> QED BY <2>1, <3>1, <3>2 DEF PaperInv, InTurn
  <2>2. CASE i = Len(Way) + 1
    <3>1. Way'[i].id = seen /\ seen \in Int
      BY <1>3, <1>4, <2>2
    <3>2. Told(Way[i].id)'
      BY <1>4, <3>1
    <3> QED BY <1>5, <3>1, <3>2 DEF PaperInv, PaperTypes
  <2> QED BY <1>3, <2>1, <2>2
<1>7. \A i, j \in 1 .. Len(Way') : i < j => Way'[i].id < Way'[j].id
  BY <1>3 DEF PaperInv, InTurn
<1>8. {Way'[i].id : i \in 1 .. Len(Way')} = {Way[i].id : i \in 1 .. Len(Way)} \cup {s.id}
  BY <1>3
<1>9. InTurn'
  <2>1. submitted' = {Way'[i].id : i \in 1 .. Len(Way')} \cup dropped'
    BY <1>8 DEF PaperInv, InTurn
  <2>2. \A d \in dropped' : d \in Int /\ Told(d)'
    BY <1>4, <1>5
  <2> QED BY <1>6, <1>7, <2>1, <2>2 DEF InTurn
<1>10. \A i \in 1 .. Len(file) : file[i] \in Int /\ file[i] < seen
  BY ElementOfSeq DEF PaperInv, PaperTypes, Rows, Told
<1>11. Len(aggregate) \in Nat
  BY LenProperties DEF PaperInv, PaperTypes
<1>12. Rows'
  <2>1. \A i \in 1 .. Len(file') : Told(file[i])'
    BY <1>4, <1>10
  <2>2. ASSUME NEW i \in 1 .. Len(file'), NEW j \in Len(aggregate') + 1 .. Len(Way')
        PROVE  file'[i] < Way'[j].id
    BY <1>3, <1>10, <1>11 DEF PaperInv, Rows
  <2>3. \A i, j \in 1 .. Len(file') : i < j => file'[i] < file'[j]
    BY DEF PaperInv, Rows
  <2> QED BY <2>1, <2>2, <2>3 DEF Rows
<1> QED BY <1>1, <1>9, <1>12 DEF PaperInv, Missing

LEMMA SampleAnswered ==
  ASSUME PaperInv, Validated
  PROVE  PaperInv'
<1>1. PICK outcome \in Outcomes :
        LET s == Sample(seen, outcome) IN
        TrySubmit(s) \/ UNCHANGED <<queue, dropped, submitted>>
  BY DEF Validated
<1> DEFINE s == Sample(seen, outcome)
<1>2. /\ executor.at = "calling" /\ executor'.at # "calling"
      /\ UNCHANGED <<seen, writing, aggregate, file, unwritten>>
  BY DEF Validated, Resting
<1>3. s \in AllSamples /\ s.id = seen
  BY <1>2, SampleIs, PaperAssumption DEF PaperInv, PaperTypes
<1> HIDE DEF s
<1>4. \A id \in Int : Told(id) => Told(id)'
  BY <1>2 DEF Told, PaperInv, PaperTypes
<1>5. CASE TrySubmit(s) /\ queue' = Append(queue, s) /\ UNCHANGED dropped
  BY <1>2, <1>3, <1>5, SampleJoins DEF TrySubmit
<1>6. CASE TrySubmit(s) /\ dropped' = dropped \cup {s.id} /\ UNCHANGED queue
  <2>1. submitted' = submitted \cup {seen} /\ dropped' = dropped \cup {seen}
    BY <1>3, <1>6 DEF TrySubmit
  <2>2. Way' = Way /\ PaperTypes'
    BY <1>2, <1>6 DEF Way, PaperInv, PaperTypes
  <2>3. \A i \in 1 .. Len(Way) : Way[i].id \in Int /\ Way[i].id < seen
    BY <1>2, WayIs, SampleHasId DEF PaperInv, InTurn, Told
  <2>4. seen \in Int /\ Told(seen)'
    BY <1>2 DEF Told, PaperInv, PaperTypes
  <2>5. InTurn'
    <3>1. ASSUME NEW i \in 1 .. Len(Way')
          PROVE  (Told(Way[i].id) /\ Way[i].id \notin dropped)'
      <4>1. /\ Way'[i] = Way[i] /\ Way[i].id \in Int /\ Way[i].id < seen
            /\ Told(Way[i].id) /\ Way[i].id \notin dropped
        BY <2>2, <2>3 DEF PaperInv, InTurn
      <4>2. Told(Way[i].id)'
        BY <1>2, <4>1 DEF Told, PaperInv, PaperTypes
      <4> QED BY <2>1, <4>1, <4>2, PaperAssumption DEF PaperInv, PaperTypes
    <3>2. \A i, j \in 1 .. Len(Way') : i < j => Way'[i].id < Way'[j].id
      BY <2>2 DEF PaperInv, InTurn
    <3>3. submitted' = {Way'[i].id : i \in 1 .. Len(Way')} \cup dropped'
      BY <2>1, <2>2 DEF PaperInv, InTurn
    <3>4. \A d \in dropped' : d \in Int /\ Told(d)'
      BY <1>2, <1>4, <2>1, <2>4 DEF PaperInv, InTurn, Told
    <3> QED BY <3>1, <3>2, <3>3, <3>4 DEF InTurn
  <2> QED BY <1>2, <1>4, <2>2, <2>5, RowsStay DEF PaperInv, Missing
<1>7. CASE UNCHANGED <<queue, dropped, submitted>>
  <2>1. Way' = Way /\ PaperTypes'
    BY <1>2, <1>7 DEF Way, PaperInv, PaperTypes
  <2> QED BY <1>2, <1>4, <1>7, <2>1, TurnStays, RowsStay DEF PaperInv, Missing
<1> QED BY <1>1, <1>5, <1>6, <1>7 DEF TrySubmit, s

LEMMA SampleTaken ==
  ASSUME PaperInv, TakeSample
  PROVE  PaperInv'
<1>1. /\ writing = <<>> /\ queue # <<>> /\ writing' = <<Head(queue)>> /\ queue' = Tail(queue)
      /\ UNCHANGED <<seen, executor, aggregate, file, dropped, unwritten, submitted>>
  BY DEF TakeSample
<1>2. /\ queue \in Seq(AllSamples) /\ aggregate \in Seq(AllSamples)
      /\ Head(queue) \in AllSamples /\ Tail(queue) \in Seq(AllSamples)
      /\ <<Head(queue)>> \in Seq(AllSamples)
  BY <1>1, HeadTailProperties, OneIsASeq DEF PaperInv, PaperTypes
<1>3. PaperTypes'
  BY <1>1, <1>2 DEF PaperInv, PaperTypes
<1>4. <<Head(queue)>> \o Tail(queue) = queue
  BY <1>1, <1>2
<1>5. (aggregate \o <<Head(queue)>>) \o Tail(queue) = aggregate \o queue
  BY <1>2, <1>4, ConcatAssociative
<1>6. aggregate \o <<>> = aggregate
  BY <1>2, ConcatEmptySeq
<1>7. Way' = Way
  BY <1>1, <1>5, <1>6 DEF Way
<1>8. \A id \in Int : Told(id) => Told(id)'
  BY <1>1 DEF Told
<1> QED BY <1>1, <1>3, <1>7, <1>8, TurnStays, RowsStay DEF PaperInv, Missing

(* What a write leaves in the file.                                        *)
LEMMA WrittenIs ==
  ASSUME file \in Seq(Int), NEW row \in Nat \ {0}, file' \in Written(row),
         \A i, j \in 1 .. Len(file) : i < j => file[i] < file[j],
         \A i \in 1 .. Len(file) : file[i] < row
  PROVE  /\ file' \in Seq(Int)
         /\ \A i, j \in 1 .. Len(file') : i < j => file'[i] < file'[j]
         /\ \A i \in 1 .. Len(file') : file'[i] <= row
         /\ \A i \in 1 .. Len(file) : \E j \in 1 .. Len(file') : file'[j] = file[i]
         /\ \A j \in 1 .. Len(file') : file'[j] \in {Created, HeaderLine, row}
                                       \/ \E i \in 1 .. Len(file) : file'[j] = file[i]
<1>1. CASE file = <<>>
  <2>1. \/ file' = <<>> \/ file' = <<Created>> \/ file' = <<Created, HeaderLine>>
        \/ file' = <<Created, HeaderLine, row>>
    BY <1>1 DEF Written
  <2>2. CASE file' = <<>>
    BY <1>1, <2>2
  <2>3. CASE file' = <<Created>>
    BY <1>1, <2>3 DEF Created
  <2>4. CASE file' = <<Created, HeaderLine>>
    BY <1>1, <2>4 DEF Created, HeaderLine
  <2>5. CASE file' = <<Created, HeaderLine, row>>
    BY <1>1, <2>5 DEF Created, HeaderLine
  <2> QED BY <2>1, <2>2, <2>3, <2>4, <2>5
<1>2. CASE file # <<>> /\ file' = file
  BY <1>2, ElementOfSeq, LenProperties
<1>3. CASE file # <<>> /\ file' = Append(file, row)
  <2>1. /\ Len(file) \in Nat /\ Len(file') = Len(file) + 1 /\ file'[Len(file) + 1] = row
        /\ file' \in Seq(Int) /\ \A i \in 1 .. Len(file) : file'[i] = file[i] /\ file[i] \in Int
    BY <1>3, AppendProperties, LenProperties, ElementOfSeq
  <2>2. \A j \in 1 .. Len(file') : j \in 1 .. Len(file) \/ j = Len(file) + 1
    BY <2>1
  <2>3. ASSUME NEW i \in 1 .. Len(file'), NEW j \in 1 .. Len(file'), i < j
        PROVE  file'[i] < file'[j]
    <3>1. i \in 1 .. Len(file)
      BY <2>1, <2>3
    <3>2. CASE j \in 1 .. Len(file)
      BY <2>1, <2>3, <3>1, <3>2
    <3>3. CASE j = Len(file) + 1
      BY <2>1, <3>1, <3>3
    <3> QED BY <2>2, <3>2, <3>3
  <2>4. \A i \in 1 .. Len(file') : file'[i] <= row
    BY <2>1, <2>2
  <2>5. \A i \in 1 .. Len(file) : i \in 1 .. Len(file') /\ file'[i] = file[i]
    BY <2>1
  <2>6. \A j \in 1 .. Len(file') : file'[j] = row \/ \E i \in 1 .. Len(file) : file'[j] = file[i]
    BY <2>1, <2>2
  <2> QED BY <2>1, <2>3, <2>4, <2>5, <2>6
<1> QED BY <1>1, <1>2, <1>3 DEF Written

LEMMA RowWritten ==
  ASSUME PaperInv, WriteSample
  PROVE  PaperInv'
<1>1. PICK s \in AllSamples : writing = <<s>>
  BY DEF WriteSample, PaperInv, PaperTypes
<1>2. writing[1] = s
  BY <1>1
<1>3. /\ file' \in Written(s.id) /\ writing' = <<>> /\ aggregate' = Append(aggregate, s)
      /\ unwritten' = IF Contains(file', s.id) THEN unwritten ELSE unwritten \cup {s.id}
      /\ UNCHANGED <<seen, executor, queue, dropped, submitted>>
  BY <1>2 DEF WriteSample, Count
<1>4. aggregate \in Seq(AllSamples) /\ queue \in Seq(AllSamples) /\ file \in Seq(Int)
  BY DEF PaperInv, PaperTypes
<1>5. Way' = Way
  <2>1. Append(aggregate, s) = aggregate \o <<s>> /\ aggregate' \in Seq(AllSamples)
    BY <1>3, <1>4, AppendIsConcat, AppendProperties
  <2>2. aggregate' \o <<>> = aggregate'
    BY <2>1, ConcatEmptySeq
  <2> QED BY <1>1, <1>3, <2>1, <2>2 DEF Way
<1>6. /\ Len(aggregate) \in Nat /\ Len(aggregate') = Len(aggregate) + 1
      /\ aggregate' \in Seq(AllSamples) /\ aggregate'[Len(aggregate) + 1] = s
      /\ \A i \in 1 .. Len(aggregate) : aggregate'[i] = aggregate[i]
  BY <1>3, <1>4, AppendProperties, LenProperties
<1>7. Len(Way) \in Nat /\ Len(aggregate) + 1 \in 1 .. Len(Way) /\ Way[Len(aggregate) + 1] = s
  <2>1. /\ aggregate' \in Seq(AllSamples) /\ queue \in Seq(AllSamples)
        /\ Way = aggregate' \o queue
    <3>1. aggregate' \o <<>> = aggregate'
      BY <1>6, ConcatEmptySeq
    <3> QED BY <1>3, <1>4, <1>5, <1>6, <3>1 DEF Way
  <2>2. /\ Len(aggregate' \o queue) = Len(aggregate') + Len(queue)
        /\ \A i \in 1 .. Len(aggregate') + Len(queue) : (aggregate' \o queue)[i] =
             IF i <= Len(aggregate') THEN aggregate'[i] ELSE queue[i - Len(aggregate')]
    BY <2>1, ConcatProperties
  <2>3. Len(queue) \in Nat
    BY <2>1, LenProperties
  <2> QED BY <1>6, <2>1, <2>2, <2>3
<1>8. s.id \in Nat \ {0} /\ Told(s.id)
  BY <1>1, <1>7, SampleHasId DEF PaperInv, InTurn
<1>9. /\ \A i, j \in 1 .. Len(file) : i < j => file[i] < file[j]
      /\ \A i \in 1 .. Len(file) : file[i] < s.id
  <2>1. Len(aggregate) + 1 \in Len(aggregate) + 1 .. Len(Way)
    BY <1>6, <1>7
  <2>2. \A i \in 1 .. Len(file) : file[i] < Way[Len(aggregate) + 1].id
    BY <2>1 DEF PaperInv, Rows
  <2> QED BY <1>7, <2>2 DEF PaperInv, Rows
<1> DEFINE row == s.id
<1>10. row = s.id /\ row \in Nat \ {0}
  BY <1>8
<1> HIDE DEF row
<1>11. /\ file' \in Seq(Int)
       /\ \A i, j \in 1 .. Len(file') : i < j => file'[i] < file'[j]
       /\ \A i \in 1 .. Len(file') : file'[i] <= row
       /\ \A i \in 1 .. Len(file) : \E j \in 1 .. Len(file') : file'[j] = file[i]
       /\ \A j \in 1 .. Len(file') : file'[j] \in {Created, HeaderLine, row}
                                     \/ \E i \in 1 .. Len(file) : file'[j] = file[i]
  BY <1>3, <1>4, <1>9, <1>10, WrittenIs
<1>12. \A id \in Int : Told(id) <=> Told(id)'
  BY <1>3 DEF Told
<1>13. PaperTypes'
  BY <1>3, <1>6, <1>11 DEF PaperInv, PaperTypes
<1>14. InTurn'
  BY <1>3, <1>5, <1>12, TurnStays
<1>15. Rows'
  <2>1. \A i \in 1 .. Len(file') : Told(file[i])'
    <3> SUFFICES ASSUME NEW i \in 1 .. Len(file') PROVE Told(file[i])'
      OBVIOUS
    <3>1. file'[i] \in Int /\ file'[i] <= row
      BY <1>11, ElementOfSeq
    <3> QED BY <1>3, <1>8, <1>10, <3>1 DEF Told, PaperInv, PaperTypes
  <2>2. ASSUME NEW i \in 1 .. Len(file'), NEW j \in Len(aggregate') + 1 .. Len(Way')
        PROVE  file'[i] < Way'[j].id
    <3>1. file'[i] \in Int /\ file'[i] <= row
      BY <1>11, ElementOfSeq
    <3>2. j \in 1 .. Len(Way) /\ Len(aggregate) + 1 < j
      BY <1>5, <1>6, <1>7
    <3>3. Way[j].id \in Int /\ row < Way[j].id
      BY <1>7, <1>10, <3>2, WayIs, SampleHasId DEF PaperInv, InTurn
    <3> QED BY <1>5, <1>10, <3>1, <3>3
  <2> QED BY <1>11, <2>1, <2>2 DEF Rows
<1>16. Missing'
  <2>1. {aggregate'[i].id : i \in 1 .. Len(aggregate')}
          = {aggregate[i].id : i \in 1 .. Len(aggregate)} \cup {row}
    BY <1>6, <1>10
  <2>2. Contains(file', row) <=> row \in {file'[i] : i \in 1 .. Len(file')}
    BY DEF Contains
  <2>3. ASSUME NEW i \in 1 .. Len(aggregate)
        PROVE  aggregate[i].id \in Nat \ {0} /\ aggregate[i].id < row
    <3>1. i \in 1 .. Len(Way) /\ i < Len(aggregate) + 1 /\ Way[i] = aggregate[i]
      BY <1>6, <1>7, WayIs DEF PaperInv
    <3> QED BY <1>4, <1>7, <1>10, <3>1, ElementOfSeq, SampleHasId DEF PaperInv, InTurn
  <2>4. ASSUME NEW i \in 1 .. Len(aggregate)
        PROVE  aggregate[i].id \in {file'[j] : j \in 1 .. Len(file')}
                 <=> aggregate[i].id \in {file[j] : j \in 1 .. Len(file)}
    <3>1. \A j \in 1 .. Len(file') : aggregate[i].id = file'[j] =>
            \E k \in 1 .. Len(file) : aggregate[i].id = file[k]
      <4>1. aggregate[i].id \notin {Created, HeaderLine, row}
        BY <1>10, <2>3 DEF Created, HeaderLine
      <4> QED BY <1>11, <4>1
    <3>2. \A k \in 1 .. Len(file) : aggregate[i].id = file[k] =>
            \E j \in 1 .. Len(file') : aggregate[i].id = file'[j]
      BY <1>11
    <3> QED BY <3>1, <3>2
  <2>5. row \notin {file[j] : j \in 1 .. Len(file)}
    <3>1. \A j \in 1 .. Len(file) : file[j] \in Int /\ file[j] < row
      BY <1>4, <1>9, <1>10, ElementOfSeq
    <3> QED BY <1>10, <3>1
  <2>6. unwritten' = IF row \in {file'[i] : i \in 1 .. Len(file')} THEN unwritten
                     ELSE unwritten \cup {row}
    BY <1>3, <1>10, <2>2
  <2> DEFINE counted == {aggregate[i].id : i \in 1 .. Len(aggregate)}
             old == {file[i] : i \in 1 .. Len(file)}
             new == {file'[i] : i \in 1 .. Len(file')}
  <2>7. \A id \in counted : id \in new <=> id \in old
    BY <2>4
  <2>8. unwritten = counted \ old
    BY DEF PaperInv, Missing
  <2>9. unwritten' = (counted \cup {row}) \ new
    <3> HIDE DEF counted, old, new
    <3> QED BY <2>5, <2>6, <2>7, <2>8 DEF new, old
  <2> QED BY <2>1, <2>9 DEF Missing
<1> QED BY <1>13, <1>14, <1>15, <1>16 DEF PaperInv

LEMMA PaperStartsAnew ==
  ASSUME PaperInv, PaperRestart
  PROVE  PaperInv'
<1>1. /\ aggregate' = <<>> /\ writing' = <<>> /\ queue' = <<>> /\ file' = file /\ seen' = seen
      /\ dropped' = {} /\ unwritten' = {} /\ submitted' = {} /\ executor'.at # "calling"
  BY DEF PaperRestart, Resting
<1>2. PaperTypes'
  BY <1>1 DEF PaperInv, PaperTypes
<1>3. Way' = <<>>
  <2>1. <<>> \o <<>> = <<>>
    BY ConcatEmptySeq, EmptySeq
  <2> QED BY <1>1, <2>1 DEF Way
<1>4. Len(Way') = 0
  BY <1>3
<1>5. \A i \in 1 .. Len(file) : file[i] \in Int
  BY ElementOfSeq DEF PaperInv, PaperTypes
<1>6. \A id \in Int : Told(id) => Told(id)'
  BY <1>1 DEF Told, PaperInv, PaperTypes
<1>7. Rows'
  BY <1>1, <1>4, <1>5, <1>6 DEF PaperInv, Rows
<1>8. InTurn'
  BY <1>1, <1>4 DEF InTurn
<1>9. Missing'
  BY <1>1 DEF Missing
<1> QED BY <1>2, <1>7, <1>8, <1>9 DEF PaperInv

LEMMA PaperStays ==
  ASSUME PaperInv,
         UNCHANGED <<seen, executor, queue, writing, aggregate, file, dropped, unwritten, submitted>>
  PROVE  PaperInv'
  BY DEF PaperInv, PaperTypes, InTurn, Rows, Missing, Way, Told

LEMMA PaperStep == PaperInv /\ [PaperNext]_paperVars => PaperInv'
<1>1. Discard \/ PaperReload \/ UNCHANGED paperVars =>
        UNCHANGED <<seen, executor, queue, writing, aggregate, file, dropped, unwritten, submitted>>
  BY DEF Discard, PaperReload, paperVars
<1> QED BY <1>1, PaperStays, RouteSeen, SampleAnswered, SampleTaken, RowWritten, PaperStartsAnew
        DEF PaperNext

LEMMA PaperInvTells == PaperInv => SamplesAreKept
<1> SUFFICES ASSUME PaperInv PROVE SamplesAreKept
  OBVIOUS
<1>1. DOMAIN aggregate = 1 .. Len(aggregate) /\ DOMAIN file = 1 .. Len(file)
  BY LenProperties DEF PaperInv, PaperTypes
<1>2. DOMAIN Way = 1 .. Len(Way)
  BY WayIs, LenProperties DEF PaperInv
<1>3. Increasing(Ids(Way)) /\ Range(Ids(Way)) = {Way[i].id : i \in 1 .. Len(Way)}
  BY <1>2 DEF Increasing, Ids, Range, PaperInv, InTurn
<1>4. Range(Ids(aggregate)) = {aggregate[i].id : i \in 1 .. Len(aggregate)}
  BY <1>1 DEF Ids, Range
<1>5. Increasing(file) /\ Range(file) = {file[i] : i \in 1 .. Len(file)}
  BY <1>1 DEF Increasing, Range, PaperInv, Rows
<1>6. Range(Ids(Way)) \cup dropped = submitted /\ Range(Ids(Way)) \cap dropped = {}
  BY <1>3 DEF PaperInv, InTurn
<1>7. Range(Ids(aggregate)) \ Range(file) = unwritten
  BY <1>4, <1>5 DEF PaperInv, Missing
<1> QED BY <1>3, <1>5, <1>6, <1>7 DEF SamplesAreKept, Way

(* What was handed to the hub was refused by a full channel, waits in it,  *)
(* is being written or is counted, once and in order, in memory and in the *)
(* file that outlives restarts, for any channel and any number of routes   *)
(* (PaperValidationHub::spawn, try_submit, append_csv_row).                *)
THEOREM SamplesStayKept == PaperSpec => []SamplesAreKept
  BY PaperStarts, PaperStep, PaperInvTells, PTL DEF PaperSpec

-------------------------------------------------------------------------------
(* RateLimiter: of the callers that passed within a ticks, as many are     *)
(* excused or still in the list, for every age a of the window.            *)
RateInv ==
  /\ requests \in Seq(Nat) /\ Len(requests) <= MaxRequests
  /\ stamp \in [Callers -> Nat]
  /\ admitted \in [0..Window -> Nat] /\ excused \in [0..Window -> Nat]
  /\ \A a \in 0..Window :
       SumOf(admitted, 0..a) <= SumOf(excused, 0..a) + Occur(requests, 0..a)

LEMMA RetainedIs ==
  ASSUME requests \in Seq(Nat), NEW age \in Nat
  PROVE  Retained(age) = Filtered(requests, 0 .. age + Window)
<1> DEFINE S == 0 .. age + Window
           LimitStep(g) == [i \in 0..Len(requests) |-> IF i = 0 THEN <<>>
                         ELSE IF requests[i] <= age + Window
                              THEN Append(g[i - 1], requests[i]) ELSE g[i - 1]]
           SetStep(g) == [i \in 0..Len(requests) |-> IF i = 0 THEN <<>>
                            ELSE IF requests[i] \in S
                                 THEN Append(g[i - 1], requests[i]) ELSE g[i - 1]]
<1>1. \A i \in 0..Len(requests) : i # 0 => (requests[i] <= age + Window <=> requests[i] \in S)
  BY LimiterAssumption
<1>2. ASSUME NEW g PROVE LimitStep(g) = SetStep(g)
  <2> HIDE DEF S
  <2> QED BY <1>1
<1>3. Retained(age) = (CHOOSE g : g = LimitStep(g))[Len(requests)]
  BY DEF Retained
<1>4. Filtered(requests, S) = (CHOOSE g : g = SetStep(g))[Len(requests)]
  BY DEF Filtered
<1> HIDE DEF LimitStep, SetStep
<1>5. (CHOOSE g : g = LimitStep(g)) = (CHOOSE g : g = SetStep(g))
  BY <1>2
<1> QED BY <1>3, <1>4, <1>5

(* What retain drops is older than the window.                             *)
LEMMA RetainedKeeps ==
  ASSUME RateInv, NEW age \in Nat
  PROVE  /\ Retained(age) \in Seq(Nat) /\ Len(Retained(age)) <= MaxRequests
         /\ \A a \in 0..Window : Occur(Retained(age), 0..a) = Occur(requests, 0..a)
<1> DEFINE list == Retained(age)
<1>1. list = Filtered(requests, 0 .. age + Window)
  BY RetainedIs DEF RateInv
<1>2. /\ list \in Seq(Nat)
      /\ \A T : Occur(list, T) = Occur(requests, T \cap (0 .. age + Window))
  <2> HIDE DEF list
  <2> QED BY <1>1, FilterKeeps DEF RateInv
<1> HIDE DEF list
<1>3. Len(list) <= MaxRequests
  <2>1. \A i \in DOMAIN list : list[i] \in Nat
    BY <1>2
  <2>2. Occur(list, Nat) = Len(list)
    BY <1>2, <2>1, OccurInAll
  <2>3. Occur(list, Nat) <= Len(requests)
    BY <1>2, PlacesAreFinite DEF RateInv
  <2>4. Len(list) \in Nat /\ Len(requests) \in Nat
    BY <1>2 DEF RateInv
  <2> QED BY <2>2, <2>3, <2>4, LimiterAssumption DEF RateInv
<1>4. ASSUME NEW a \in 0..Window PROVE Occur(list, 0..a) = Occur(requests, 0..a)
  <2>1. (0..a) \cap (0 .. age + Window) = 0..a
    BY LimiterAssumption
  <2>2. Occur(list, 0..a) = Occur(requests, (0..a) \cap (0 .. age + Window))
    BY <1>2
  <2> QED BY <2>1, <2>2, Zenon
<1> QED BY <1>2, <1>3, <1>4 DEF list

LEMMA LimiterStarts == LimiterInit => RateInv
<1> SUFFICES ASSUME LimiterInit PROVE RateInv
  OBVIOUS
<1>1. /\ requests = <<>> /\ requests \in Seq(Nat) /\ Len(requests) = 0
      /\ admitted \in [0..Window -> Nat] /\ excused \in [0..Window -> Nat]
      /\ stamp \in [Callers -> Nat]
      /\ \A b \in 0..Window : admitted[b] = 0 /\ excused[b] = 0
  BY DEF LimiterInit
<1>2. ASSUME NEW a \in 0..Window
      PROVE  SumOf(admitted, 0..a) <= SumOf(excused, 0..a) + Occur(requests, 0..a)
  <2>1. IsFiniteSet(0..a) /\ \A b \in 0..a : admitted[b] = 0 /\ excused[b] = 0
    <3>1. a \in Int /\ 0..a \subseteq 0..Window
      BY LimiterAssumption
    <3>2. IsFiniteSet(0..a)
      BY <3>1, FS_Interval
    <3> QED BY <1>1, <3>1, <3>2
  <2>2. SumOf(admitted, 0..a) = 0 /\ SumOf(excused, 0..a) = 0
    BY <2>1, SumOfZeros
  <2>3. Occur(requests, 0..a) \in Nat
    BY <1>1, PlacesAreFinite
  <2> QED BY <2>2, <2>3
<1> QED BY <1>1, <1>2, LimiterAssumption DEF RateInv

(* A list that has room, or whose first was taken out by force, lets one   *)
(* more pass.                                                              *)
LEMMA PassKeeps ==
  ASSUME RateInv, NEW c \in Callers, NEW list, NEW forced \in BOOLEAN, Pass(c, list, forced),
         list \in Seq(Nat), Len(list) < MaxRequests,
         \A a \in 0..Window : Occur(requests, 0..a) <= Occur(list, 0..a) + IF forced THEN 1 ELSE 0
  PROVE  RateInv'
<1> DEFINE extra == Cardinality({x \in {"forced"} : forced} \cup {x \in {"late"} : stamp[c] > 0})
<1>1. stamp[c] \in Nat
  BY DEF RateInv
<1>2. /\ extra \in Nat
      /\ extra >= (IF forced THEN 1 ELSE 0) + (IF stamp[c] > 0 THEN 1 ELSE 0)
  <2>1. /\ Cardinality({}) = 0 /\ Cardinality({"forced"}) = 1 /\ Cardinality({"late"}) = 1
        /\ Cardinality({"forced", "late"}) = 2
    <3>1. Cardinality({}) = 0
      BY FS_EmptySet
    <3>2. IsFiniteSet({"forced"}) /\ Cardinality({"forced"}) = 1 /\ Cardinality({"late"}) = 1
      BY FS_Singleton
    <3>3. "late" \notin {"forced"} /\ {"forced"} \cup {"late"} = {"forced", "late"}
      OBVIOUS
    <3>4. Cardinality({"forced"} \cup {"late"}) = Cardinality({"forced"}) + 1
      BY <3>2, <3>3, FS_AddElement
    <3>5. Cardinality({"forced", "late"}) = Cardinality({"forced"}) + 1
      BY <3>3, <3>4, Zenon
    <3> QED BY <3>1, <3>2, <3>5
  <2>2. CASE forced /\ stamp[c] > 0
    <3>1. {x \in {"forced"} : forced} \cup {x \in {"late"} : stamp[c] > 0} = {"forced", "late"}
      BY <2>2
    <3>2. extra = 2
      BY <2>1, <3>1, Zenon
    <3> HIDE DEF extra
    <3> QED BY <2>2, <3>2
  <2>3. CASE forced /\ ~(stamp[c] > 0)
    <3>1. {x \in {"forced"} : forced} \cup {x \in {"late"} : stamp[c] > 0} = {"forced"}
      BY <2>3
    <3>2. extra = 1
      BY <2>1, <3>1, Zenon
    <3> HIDE DEF extra
    <3> QED BY <2>3, <3>2
  <2>4. CASE ~forced /\ stamp[c] > 0
    <3>1. {x \in {"forced"} : forced} \cup {x \in {"late"} : stamp[c] > 0} = {"late"}
      BY <2>4
    <3>2. extra = 1
      BY <2>1, <3>1, Zenon
    <3> HIDE DEF extra
    <3> QED BY <2>4, <3>2
  <2>5. CASE ~forced /\ ~(stamp[c] > 0)
    <3>1. {x \in {"forced"} : forced} \cup {x \in {"late"} : stamp[c] > 0} = {}
      BY <2>5
    <3>2. extra = 0
      BY <2>1, <3>1, Zenon
    <3> HIDE DEF extra
    <3> QED BY <2>5, <3>2
  <2> HIDE DEF extra
  <2> QED BY <2>2, <2>3, <2>4, <2>5
<1>3. /\ requests' = Append(list, stamp[c])
      /\ admitted' = [admitted EXCEPT ![0] = admitted[0] + 1]
      /\ excused' = [excused EXCEPT ![0] = excused[0] + extra]
      /\ stamp' = [stamp EXCEPT ![c] = 0]
  BY DEF Pass
<1> HIDE DEF extra
<1>4. 0 \in 0..Window
  BY LimiterAssumption
<1>5. /\ requests' \in Seq(Nat) /\ Len(requests') <= MaxRequests
      /\ stamp' \in [Callers -> Nat]
      /\ admitted' \in [0..Window -> Nat] /\ excused' \in [0..Window -> Nat]
  <2>1. requests' \in Seq(Nat) /\ Len(requests') = Len(list) + 1 /\ Len(list) \in Nat
    BY <1>1, <1>3
  <2>2. stamp' \in [Callers -> Nat]
    BY <1>3 DEF RateInv
  <2>3. admitted' \in [0..Window -> Nat] /\ excused' \in [0..Window -> Nat]
    <3>1. /\ admitted \in [0..Window -> Nat] /\ excused \in [0..Window -> Nat]
          /\ admitted[0] + 1 \in Nat /\ excused[0] + extra \in Nat
      BY <1>2, <1>4 DEF RateInv
    <3> QED BY <1>3, <3>1
  <2> QED BY <2>1, <2>2, <2>3, LimiterAssumption
<1>6. ASSUME NEW a \in 0..Window
      PROVE  SumOf(admitted', 0..a) <= SumOf(excused', 0..a) + Occur(requests', 0..a)
  <2>1. /\ IsFiniteSet(0..a) /\ 0 \in 0..a /\ a \in Nat
        /\ \A b \in 0..a : admitted[b] \in Int /\ excused[b] \in Int
    <3>1. a \in Nat /\ 0 \in 0..a /\ 0..a \subseteq 0..Window
      BY LimiterAssumption
    <3>2. IsFiniteSet(0..a)
      BY <3>1, FS_Interval
    <3> QED BY <3>1, <3>2 DEF RateInv
  <2>2. /\ \A b \in 0..a : admitted'[b] = IF b = 0 THEN admitted[b] + 1 ELSE admitted[b]
        /\ \A b \in 0..a : excused'[b] = IF b = 0 THEN excused[b] + extra ELSE excused[b]
    <3>1. DOMAIN admitted = 0..Window /\ DOMAIN excused = 0..Window /\ 0..a \subseteq 0..Window
      BY LimiterAssumption DEF RateInv
    <3> QED BY <1>3, <3>1
  <2>3. SumOf(admitted', 0..a) = SumOf(admitted, 0..a) + 1
    <3>1. PICK one \in Int : one = 1
      OBVIOUS
    <3>2. /\ \A b \in 0..a : admitted[b] \in Int
          /\ \A b \in 0..a : admitted'[b] = IF b = 0 THEN admitted[b] + one ELSE admitted[b]
      BY <2>1, <2>2, <3>1
    <3>3. SumOf(admitted', 0..a) = SumOf(admitted, 0..a) + one
      BY <2>1, <3>2, SumMovesAt
    <3> QED BY <3>1, <3>3
  <2>4. SumOf(excused', 0..a) = SumOf(excused, 0..a) + extra
    <3>1. extra \in Int
      BY <1>2
    <3>2. /\ \A b \in 0..a : excused[b] \in Int
          /\ \A b \in 0..a : excused'[b] = IF b = 0 THEN excused[b] + extra ELSE excused[b]
      BY <2>1, <2>2
    <3> QED BY <2>1, <3>1, <3>2, SumMovesAt
  <2>5. Occur(requests', 0..a) = Occur(list, 0..a) + IF stamp[c] \in 0..a THEN 1 ELSE 0
    BY <1>1, <1>3, OccurAppend
  <2>6. /\ SumOf(admitted, 0..a) \in Int /\ SumOf(excused, 0..a) \in Int
        /\ Occur(requests, 0..a) \in Nat /\ Occur(list, 0..a) \in Nat
    BY <2>1, SumType, PlacesAreFinite DEF RateInv
  <2>7. SumOf(admitted, 0..a) <= SumOf(excused, 0..a) + Occur(requests, 0..a)
    BY DEF RateInv
  <2>8. (IF stamp[c] > 0 THEN 1 ELSE 0) + (IF stamp[c] \in 0..a THEN 1 ELSE 0) >= 1
    BY <1>1, <2>1
  <2>9. Occur(requests, 0..a) <= Occur(list, 0..a) + IF forced THEN 1 ELSE 0
    OBVIOUS
  <2> HIDE DEF RateInv
  <2> QED BY <1>2, <2>3, <2>4, <2>5, <2>6, <2>7, <2>8, <2>9
<1> QED BY <1>5, <1>6 DEF RateInv

LEMMA LockedKeeps ==
  ASSUME RateInv, NEW c \in Callers, Locked(c)
  PROVE  RateInv'
<1> DEFINE list == Retained(stamp[c])
<1>1. stamp[c] \in Nat
  BY DEF RateInv
<1>2. /\ list \in Seq(Nat) /\ Len(list) <= MaxRequests
      /\ \A a \in 0..Window : Occur(list, 0..a) = Occur(requests, 0..a)
  BY <1>1, RetainedKeeps
<1>3. \A a \in 0..Window : Occur(list, 0..a) \in Nat
  <2> HIDE DEF list
  <2> QED BY <1>2, PlacesAreFinite
<1>4. CASE HasRoom(list)
  <2>1. Pass(c, list, FALSE)
    BY <1>4 DEF Locked
  <2> HIDE DEF list
  <2>2. Len(list) < MaxRequests
    BY <1>4 DEF HasRoom
  <2>3. \A a \in 0..Window : Occur(requests, 0..a) <= Occur(list, 0..a) + IF FALSE THEN 1 ELSE 0
    BY <1>2, <1>3
  <2> QED BY <1>2, <2>1, <2>2, <2>3, PassKeeps
<1>5. CASE ~HasRoom(list)
  <2>1. requests' = list /\ UNCHANGED <<stamp, admitted, excused>>
    BY <1>5 DEF Locked
  <2> HIDE DEF list
  <2> QED BY <1>2, <2>1 DEF RateInv
<1> QED BY <1>4, <1>5

LEMMA ForcedKeeps ==
  ASSUME RateInv, NEW c \in Callers, Forced(c)
  PROVE  RateInv'
<1> DEFINE list == Retained(stamp[c])
<1>1. stamp[c] \in Nat
  BY DEF RateInv
<1>2. /\ list \in Seq(Nat) /\ Len(list) <= MaxRequests
      /\ \A a \in 0..Window : Occur(list, 0..a) = Occur(requests, 0..a)
  BY <1>1, RetainedKeeps
<1>3. Pass(c, IF HasRoom(list) THEN list ELSE Tail(list), ~HasRoom(list))
  BY DEF Forced
<1> HIDE DEF list
<1>4. \A a \in 0..Window : Occur(list, 0..a) \in Nat
  BY <1>2, PlacesAreFinite
<1>5. CASE HasRoom(list)
  <2>1. Pass(c, list, FALSE)
    BY <1>3, <1>5
  <2>2. Len(list) < MaxRequests
    BY <1>5 DEF HasRoom
  <2>3. \A a \in 0..Window : Occur(requests, 0..a) <= Occur(list, 0..a) + IF FALSE THEN 1 ELSE 0
    BY <1>2, <1>4
  <2> QED BY <1>2, <2>1, <2>2, <2>3, PassKeeps
<1>6. CASE ~HasRoom(list)
  <2>1. Pass(c, Tail(list), TRUE)
    BY <1>3, <1>6
  <2>2. Len(list) > 0 /\ Len(list) \in Nat
    BY <1>2, <1>6, LimiterAssumption DEF HasRoom
  <2>3. /\ Tail(list) \in Seq(Nat) /\ Len(Tail(list)) = Len(list) - 1
        /\ \A a \in 0..Window : Occur(list, 0..a) <= Occur(Tail(list), 0..a) + 1
    BY <1>2, <2>2, OccurTail
  <2>4. Len(Tail(list)) < MaxRequests
    BY <1>2, <2>2, <2>3, LimiterAssumption
  <2>5. \A a \in 0..Window : Occur(requests, 0..a) <= Occur(Tail(list), 0..a) + IF TRUE THEN 1 ELSE 0
    BY <1>2, <2>3
  <2> QED BY <2>1, <2>3, <2>4, <2>5, PassKeeps
<1> QED BY <1>5, <1>6

(* A tick moves every age alike, until it no longer matters.               *)
LEMMA LimiterAges ==
  ASSUME RateInv, LimiterTick
  PROVE  RateInv'
<1>1. \A r \in Nat : Older(r) \in Nat
  BY LimiterAssumption DEF Older, OldestAge
<1>2. /\ requests' = [i \in DOMAIN requests |-> Older(requests[i])]
      /\ stamp' = [c \in Callers |-> IF place[c] = "idle" THEN 0 ELSE Older(stamp[c])]
      /\ admitted' = Shifted(admitted) /\ excused' = Shifted(excused)
  BY DEF LimiterTick
<1>3. requests' \in Seq(Nat) /\ Len(requests') = Len(requests) /\ DOMAIN requests' = DOMAIN requests
  <2>1. requests \in Seq(Nat) /\ DOMAIN requests = 1..Len(requests) /\ Len(requests) \in Nat
    BY DEF RateInv
  <2>2. \A i \in 1..Len(requests) : Older(requests[i]) \in Nat
    BY <1>1, <2>1
  <2>3. requests' \in [1..Len(requests) -> Nat]
    BY <1>2, <2>1, <2>2
  <2>4. requests' \in Seq(Nat)
    BY <2>1, <2>3
  <2> QED BY <2>1, <2>3, <2>4
<1>4. stamp' \in [Callers -> Nat]
  BY <1>1, <1>2 DEF RateInv
<1>5. /\ admitted' \in [0..Window -> Nat] /\ excused' \in [0..Window -> Nat]
      /\ admitted'[0] = 0 /\ excused'[0] = 0
      /\ \A b \in 0 .. Window - 1 : admitted'[b + 1] = admitted[b] /\ excused'[b + 1] = excused[b]
  BY <1>2, LimiterAssumption DEF RateInv, Shifted
<1>6. ASSUME NEW a \in 0..Window
      PROVE  SumOf(admitted', 0..a) <= SumOf(excused', 0..a) + Occur(requests', 0..a)
  <2>1. Occur(requests', 0..a) \in Nat
    BY <1>3, PlacesAreFinite
  <2>2. CASE a = 0
    <3>1. 0..a = {0}
      BY <2>2
    <3>2. SumOf(admitted', {0}) = 0 /\ SumOf(excused', {0}) = 0
      <4>1. IsFiniteSet({0})
        BY FS_Singleton
      <4>2. \A b \in {0} : admitted'[b] = 0 /\ excused'[b] = 0
        BY <1>5
      <4> QED BY <4>1, <4>2, SumOfZeros, Zenon
    <3>3. SumOf(admitted', 0..a) = 0 /\ SumOf(excused', 0..a) = 0
      BY <3>1, <3>2, Zenon
    <3> QED BY <2>1, <3>3
  <2>3. CASE a # 0
    <3>1. PICK b \in Nat : b + 1 = a
      <4>1. a - 1 \in Nat /\ (a - 1) + 1 = a
        BY <2>3
      <4> QED BY <4>1
    <3>2. b \in 0..Window /\ b + 1 <= Window /\ Window \in Nat
      BY <3>1, LimiterAssumption
    <3>3. \A k \in 0..Window : admitted[k] \in Int /\ excused[k] \in Int
      BY DEF RateInv
    <3>4. SumOf(admitted', 0 .. b + 1) = SumOf(admitted, 0..b)
      <4>1. /\ \A k \in 0..b : admitted[k] \in Int
            /\ admitted'[0] = 0 /\ \A k \in 0..b : admitted'[k + 1] = admitted[k]
        BY <1>5, <3>2, <3>3
      <4> QED BY <4>1, SumShifts
    <3>5. SumOf(excused', 0 .. b + 1) = SumOf(excused, 0..b)
      <4>1. /\ \A k \in 0..b : excused[k] \in Int
            /\ excused'[0] = 0 /\ \A k \in 0..b : excused'[k + 1] = excused[k]
        BY <1>5, <3>2, <3>3
      <4> QED BY <4>1, SumShifts
    <3>6. \A i \in DOMAIN requests : requests'[i] \in 0 .. b + 1 <=> requests[i] \in 0..b
      <4> SUFFICES ASSUME NEW i \in DOMAIN requests
                   PROVE  requests'[i] \in 0 .. b + 1 <=> requests[i] \in 0..b
        OBVIOUS
      <4>1. requests'[i] = Older(requests[i]) /\ requests[i] \in Nat
        BY <1>2 DEF RateInv
      <4>2. \A r \in Nat : Older(r) \in 0 .. b + 1 <=> r \in 0..b
        BY <3>2, LimiterAssumption DEF Older, OldestAge
      <4> QED BY <4>1, <4>2
    <3>7. Occur(requests', 0 .. b + 1) = Occur(requests, 0..b)
      <4>1. requests \in Seq(Nat)
        BY DEF RateInv
      <4>2. requests' \in Seq(Nat) /\ DOMAIN requests' = DOMAIN requests
        BY <1>3
      <4>3. {i \in DOMAIN requests' : requests'[i] \in 0 .. b + 1} = {i \in DOMAIN requests : requests[i] \in 0..b}
        BY <3>6, <4>2
      <4> QED BY <4>3 DEF Occur
    <3>8. SumOf(admitted, 0..b) <= SumOf(excused, 0..b) + Occur(requests, 0..b)
      BY <3>2 DEF RateInv
    <3>9. SumOf(admitted', 0 .. b + 1) <= SumOf(excused', 0 .. b + 1) + Occur(requests', 0 .. b + 1)
      BY <3>4, <3>5, <3>7, <3>8
    <3> QED BY <3>1, <3>9
  <2> QED BY <2>2, <2>3
<1> QED BY <1>3, <1>4, <1>5, <1>6 DEF RateInv

LEMMA LimiterKeeps == RateInv /\ [LimiterNext]_limiterVars => RateInv'
<1> SUFFICES ASSUME RateInv, [LimiterNext]_limiterVars PROVE RateInv'
  OBVIOUS
<1>1. CASE UNCHANGED limiterVars
  BY <1>1 DEF RateInv, limiterVars
<1>2. ASSUME NEW c \in Callers, Acquire(c) PROVE RateInv'
  <2>1. UNCHANGED <<requests, admitted, excused>> /\ stamp' = [stamp EXCEPT ![c] = 0]
    BY <1>2 DEF Acquire
  <2>2. stamp' \in [Callers -> Nat]
    BY <2>1 DEF RateInv
  <2> QED BY <2>1, <2>2 DEF RateInv
<1>3. ASSUME NEW c \in Callers, Wake(c) PROVE RateInv'
  <2>1. UNCHANGED <<requests, admitted, excused>> /\ stamp' = [stamp EXCEPT ![c] = 0]
    BY <1>3 DEF Wake
  <2>2. stamp' \in [Callers -> Nat]
    BY <2>1 DEF RateInv
  <2> QED BY <2>1, <2>2 DEF RateInv
<1>4. CASE LimiterCleanup
  <2>1. requests' = Retained(0) /\ UNCHANGED <<stamp, admitted, excused>>
    BY <1>4 DEF LimiterCleanup
  <2>2. /\ Retained(0) \in Seq(Nat) /\ Len(Retained(0)) <= MaxRequests
        /\ \A a \in 0..Window : Occur(Retained(0), 0..a) = Occur(requests, 0..a)
    BY RetainedKeeps
  <2> QED BY <2>1, <2>2 DEF RateInv
<1> QED BY <1>1, <1>2, <1>3, <1>4, LockedKeeps, ForcedKeeps, LimiterAges DEF LimiterNext, LimiterStep

LEMMA RateInvTells == RateInv => RateIsKept
<1> SUFFICES ASSUME RateInv PROVE RateIsKept
  OBVIOUS
<1>1. Total(admitted) = SumOf(admitted, DOMAIN admitted) /\ Total(excused) = SumOf(excused, DOMAIN excused)
  BY DEF Total, FoldFunction, FoldFunctionOnSet, MapThenFoldSet, SumOf
<1>2. DOMAIN admitted = 0..Window /\ DOMAIN excused = 0..Window
  BY DEF RateInv
<1>3. Window \in 0..Window /\ IsFiniteSet(0..Window)
  BY FS_Interval, LimiterAssumption
<1>4. SumOf(admitted, 0..Window) <= SumOf(excused, 0..Window) + Occur(requests, 0..Window)
  BY <1>3 DEF RateInv
<1>5. Occur(requests, 0..Window) \in Nat /\ Occur(requests, 0..Window) <= MaxRequests
  <2>1. requests \in Seq(Nat) /\ Len(requests) \in Nat /\ Len(requests) <= MaxRequests
    BY DEF RateInv
  <2>2. Occur(requests, 0..Window) \in Nat /\ Occur(requests, 0..Window) <= Len(requests)
    BY <2>1, PlacesAreFinite
  <2> QED BY <2>1, <2>2, LimiterAssumption
<1>6. SumOf(admitted, 0..Window) \in Int /\ SumOf(excused, 0..Window) \in Int
  <2>1. \A b \in 0..Window : admitted[b] \in Int /\ excused[b] \in Int
    BY DEF RateInv
  <2> QED BY <1>3, <2>1, SumType
<1>7. Total(admitted) = SumOf(admitted, 0..Window) /\ Total(excused) = SumOf(excused, 0..Window)
  BY <1>1, <1>2
<1>8. Total(admitted) <= MaxRequests + Total(excused)
  BY <1>4, <1>5, <1>6, <1>7, LimiterAssumption
<1> QED BY <1>8 DEF RateIsKept

(* Whoever waits for the lock, however old its stamp, and whatever cleans  *)
(* the list meanwhile: no window has more than its requests, but for those *)
(* the code excuses (UltraRateLimiter::acquire).                           *)
THEOREM RateStaysKept == LimiterSpec => []RateIsKept
  BY LimiterStarts, LimiterKeeps, RateInvTells, PTL DEF LimiterSpec

-------------------------------------------------------------------------------
(* Cooldowns: an execution of the last minute is in the records, at its    *)
(* age; who passed the check found fewer of them than the limit.           *)
Pending == {t \in Tasks : asking[t] # Idle}

MinuteInv ==
  /\ head \in Nat /\ timestamps \in Seq(Nat) /\ executions \in Seq(Nat)
  /\ asking \in [Tasks -> {Idle} \cup [pair : Pairs, strategy : Strategies, block : Nat]]
  /\ \A i \in DOMAIN executions : executions[i] < Minute
  /\ \A m \in 0..Minute : Occur(executions, 0 .. m - 1) <= Occur(timestamps, 0 .. m - 1)
  /\ Len(executions) + Cardinality(Pending) < MaxPerMinute + Cardinality(Tasks)

LEMMA Limits ==
  /\ Minute \in Nat \ {0} /\ Minute <= Keep /\ 2 * Minute \in Nat /\ 2 * Minute <= Keep
  /\ Keep \in Nat /\ MaxPerMinute \in Nat \ {0}
  BY CooldownAssumption

LEMMA TasksAreFinite ==
  ASSUME NEW S \in SUBSET Tasks
  PROVE  /\ IsFiniteSet(S) /\ Cardinality(S) \in Nat /\ Cardinality(Tasks) \in Nat
         /\ Cardinality(S) <= Cardinality(Tasks)
<1>1. IsFiniteSet(Tasks)
  BY CooldownAssumption
<1> QED BY <1>1, FS_Subset, FS_CardinalityType

LEMMA WithinIs ==
  ASSUME NEW ages \in Seq(Nat), NEW w \in Nat
  PROVE  Within(ages, w) = Filtered(ages, 0 .. w - 1)
<1> DEFINE S == 0 .. w - 1
           LimitStep(g) == [i \in 0..Len(ages) |-> IF i = 0 THEN <<>>
                         ELSE IF ages[i] < w THEN Append(g[i - 1], ages[i]) ELSE g[i - 1]]
           SetStep(g) == [i \in 0..Len(ages) |-> IF i = 0 THEN <<>>
                            ELSE IF ages[i] \in S THEN Append(g[i - 1], ages[i]) ELSE g[i - 1]]
<1>1. \A i \in 0..Len(ages) : i # 0 => (ages[i] < w <=> ages[i] \in S)
  OBVIOUS
<1>2. ASSUME NEW g PROVE LimitStep(g) = SetStep(g)
  <2> HIDE DEF S
  <2> QED BY <1>1
<1>3. Within(ages, w) = (CHOOSE g : g = LimitStep(g))[Len(ages)]
  BY DEF Within
<1>4. Filtered(ages, S) = (CHOOSE g : g = SetStep(g))[Len(ages)]
  BY DEF Filtered
<1> HIDE DEF LimitStep, SetStep
<1>5. (CHOOSE g : g = LimitStep(g)) = (CHOOSE g : g = SetStep(g))
  BY <1>2
<1> QED BY <1>3, <1>4, <1>5

(* What is younger than the bound stays, and nothing else.                 *)
LEMMA WithinKeeps ==
  ASSUME NEW ages \in Seq(Nat), NEW w \in Nat
  PROVE  /\ Within(ages, w) \in Seq(Nat)
         /\ \A i \in DOMAIN Within(ages, w) : Within(ages, w)[i] < w
         /\ Len(Within(ages, w)) <= Len(ages)
         /\ \A m \in 0..w : Occur(Within(ages, w), 0 .. m - 1) = Occur(ages, 0 .. m - 1)
<1>1. PICK kept : kept = Filtered(ages, 0 .. w - 1)
  OBVIOUS
<1>2. /\ kept \in Seq(Nat) /\ \A i \in DOMAIN kept : kept[i] \in 0 .. w - 1
      /\ \A T : Occur(kept, T) = Occur(ages, T \cap (0 .. w - 1))
  BY <1>1, FilterKeeps
<1>3. Len(kept) <= Len(ages)
  <2>1. \A i \in DOMAIN kept : kept[i] \in Nat
    BY <1>2
  <2>2. Occur(kept, Nat) = Len(kept)
    BY <1>2, <2>1, OccurInAll
  <2>3. Occur(kept, Nat) <= Len(ages)
    BY <1>2, PlacesAreFinite
  <2> QED BY <2>2, <2>3
<1>4. ASSUME NEW m \in 0..w PROVE Occur(kept, 0 .. m - 1) = Occur(ages, 0 .. m - 1)
  <2>1. (0 .. m - 1) \cap (0 .. w - 1) = 0 .. m - 1
    OBVIOUS
  <2>2. Occur(kept, 0 .. m - 1) = Occur(ages, (0 .. m - 1) \cap (0 .. w - 1))
    BY <1>2
  <2> QED BY <2>1, <2>2, Zenon
<1>5. \A i \in DOMAIN kept : kept[i] < w
  BY <1>2
<1>6. Within(ages, w) = kept
  BY <1>1, WithinIs
<1> QED BY <1>2, <1>3, <1>4, <1>5, <1>6

LEMMA CooldownStarts == CooldownInit => MinuteInv
<1> SUFFICES ASSUME CooldownInit PROVE MinuteInv
  OBVIOUS
<1>1. /\ head \in Nat /\ timestamps = <<>> /\ executions = <<>>
      /\ timestamps \in Seq(Nat) /\ executions \in Seq(Nat) /\ Len(executions) = 0
      /\ asking \in [Tasks -> {Idle} \cup [pair : Pairs, strategy : Strategies, block : Nat]]
      /\ \A t \in Tasks : asking[t] = Idle
  BY DEF CooldownInit
<1>2. Pending = {} /\ Cardinality({}) = 0
  BY <1>1, FS_EmptySet DEF Pending
<1>3. Cardinality(Tasks) \in Nat
  BY TasksAreFinite
<1>4. Len(executions) + Cardinality(Pending) < MaxPerMinute + Cardinality(Tasks)
  BY <1>1, <1>2, <1>3, Limits
<1>5. ASSUME NEW m \in 0..Minute
      PROVE  Occur(executions, 0 .. m - 1) <= Occur(timestamps, 0 .. m - 1)
  <2>1. Occur(executions, 0 .. m - 1) \in Nat
    BY <1>1, PlacesAreFinite
  <2> QED BY <1>1, <2>1
<1>6. \A i \in DOMAIN executions : executions[i] < Minute
  BY <1>1
<1> QED BY <1>1, <1>4, <1>5, <1>6 DEF MinuteInv

(* Who is told to go found room for one more.                              *)
LEMMA CheckKeeps ==
  ASSUME MinuteInv, NEW t \in Tasks, NEW p \in Pairs, NEW s \in Strategies, CheckExecution(t, p, s)
  PROVE  MinuteInv'
<1>1. /\ UNCHANGED <<head, timestamps, executions>> /\ asking[t] = Idle
      /\ \/ asking' = asking
         \/ /\ asking' = [asking EXCEPT ![t] = [pair |-> p, strategy |-> s, block |-> head]]
            /\ Len(Within(timestamps, Minute)) < MaxPerMinute
  BY DEF CheckExecution, CanExecute, BeforePenalty
<1>2. CASE asking' = asking
  BY <1>1, <1>2 DEF MinuteInv, Pending
<1>3. CASE /\ asking' = [asking EXCEPT ![t] = [pair |-> p, strategy |-> s, block |-> head]]
           /\ Len(Within(timestamps, Minute)) < MaxPerMinute
  <2>1. asking' \in [Tasks -> {Idle} \cup [pair : Pairs, strategy : Strategies, block : Nat]]
    BY <1>3 DEF MinuteInv
  <2>2. Len(executions) < MaxPerMinute
    <3>1. PICK kept : kept = Within(timestamps, Minute)
      OBVIOUS
    <3>2. timestamps \in Seq(Nat) /\ executions \in Seq(Nat)
      BY DEF MinuteInv
    <3>3. /\ kept \in Seq(Nat)
          /\ Occur(kept, 0 .. Minute - 1) = Occur(timestamps, 0 .. Minute - 1)
      <4>1. Minute \in 0..Minute
        BY Limits
      <4> QED BY <3>1, <3>2, <4>1, WithinKeeps, Limits
    <3>4. Occur(executions, 0 .. Minute - 1) = Len(executions)
      <4>1. \A i \in DOMAIN executions : executions[i] \in 0 .. Minute - 1
        BY <3>2, Limits DEF MinuteInv
      <4> QED BY <3>2, <4>1, OccurInAll
    <3>5. Occur(executions, 0 .. Minute - 1) <= Occur(timestamps, 0 .. Minute - 1)
      BY Limits DEF MinuteInv
    <3>6. Occur(kept, 0 .. Minute - 1) <= Len(kept) /\ Occur(kept, 0 .. Minute - 1) \in Nat
      BY <3>3, PlacesAreFinite
    <3>7. Len(kept) < MaxPerMinute /\ Len(kept) \in Nat /\ Len(executions) \in Nat
      BY <1>3, <3>1, <3>2, <3>3
    <3> QED BY <3>3, <3>4, <3>5, <3>6, <3>7, Limits
  <2>3. Cardinality(Pending') <= Cardinality(Tasks) /\ Cardinality(Pending') \in Nat /\ Cardinality(Tasks) \in Nat
    <3>1. Pending' \in SUBSET Tasks
      BY DEF Pending
    <3> QED BY <3>1, TasksAreFinite
  <2>4. Len(executions) \in Nat
    BY DEF MinuteInv
  <2>5. (Len(executions) + Cardinality(Pending) < MaxPerMinute + Cardinality(Tasks))'
    BY <1>1, <2>2, <2>3, <2>4, Limits
  <2> QED BY <1>1, <2>1, <2>5 DEF MinuteInv
<1> QED BY <1>1, <1>2, <1>3

(* One task is done with what it asked.                                    *)
LEMMA AnsweredIs ==
  ASSUME MinuteInv, NEW t \in Tasks, asking[t] # Idle, asking' = [asking EXCEPT ![t] = Idle]
  PROVE  /\ asking' \in [Tasks -> {Idle} \cup [pair : Pairs, strategy : Strategies, block : Nat]]
         /\ Cardinality(Pending') = Cardinality(Pending) - 1
         /\ Cardinality(Pending) \in Nat
<1>1. Pending' = Pending \ {t} /\ t \in Pending /\ Pending \in SUBSET Tasks
  BY DEF MinuteInv, Pending
<1>2. IsFiniteSet(Pending) /\ Cardinality(Pending) \in Nat
  BY <1>1, TasksAreFinite
<1>3. Cardinality(Pending \ {t}) = Cardinality(Pending) - 1
  BY <1>1, <1>2, FS_RemoveElement
<1>4. asking' \in [Tasks -> {Idle} \cup [pair : Pairs, strategy : Strategies, block : Nat]]
  BY DEF MinuteInv
<1> QED BY <1>1, <1>2, <1>3, <1>4

LEMMA RecordKeeps ==
  ASSUME MinuteInv, NEW t \in Tasks, RecordExecution(t)
  PROVE  MinuteInv'
<1>1. /\ asking[t] # Idle /\ asking' = [asking EXCEPT ![t] = Idle] /\ head' = head
      /\ timestamps' = Append(Within(timestamps, 2 * Minute), 0)
      /\ executions' = Append(executions, 0)
  BY DEF RecordExecution, Recorded
<1>2. PICK kept : kept = Within(timestamps, 2 * Minute)
  OBVIOUS
<1>3. timestamps \in Seq(Nat) /\ executions \in Seq(Nat) /\ 2 * Minute \in Nat
  BY Limits DEF MinuteInv
<1>4. /\ kept \in Seq(Nat)
      /\ \A m \in 0 .. 2 * Minute : Occur(kept, 0 .. m - 1) = Occur(timestamps, 0 .. m - 1)
  BY <1>2, <1>3, WithinKeeps
<1>5. ASSUME NEW m \in 0..Minute
      PROVE  Occur(executions', 0 .. m - 1) <= Occur(timestamps', 0 .. m - 1)
  <2>1. m \in 0 .. 2 * Minute
    BY Limits
  <2>2. Occur(kept, 0 .. m - 1) = Occur(timestamps, 0 .. m - 1)
    BY <1>4, <2>1
  <2>3. /\ Occur(Append(kept, 0), 0 .. m - 1)
             = Occur(kept, 0 .. m - 1) + IF 0 \in 0 .. m - 1 THEN 1 ELSE 0
        /\ Occur(Append(executions, 0), 0 .. m - 1)
             = Occur(executions, 0 .. m - 1) + IF 0 \in 0 .. m - 1 THEN 1 ELSE 0
    BY <1>3, <1>4, OccurAppend
  <2>4. Occur(executions, 0 .. m - 1) <= Occur(timestamps, 0 .. m - 1)
    BY DEF MinuteInv
  <2>5. Occur(executions, 0 .. m - 1) \in Nat /\ Occur(timestamps, 0 .. m - 1) \in Nat
    BY <1>3, PlacesAreFinite
  <2>6. executions' = Append(executions, 0) /\ timestamps' = Append(kept, 0)
    BY <1>1, <1>2
  <2>7. Occur(Append(executions, 0), 0 .. m - 1) <= Occur(Append(kept, 0), 0 .. m - 1)
    BY <2>2, <2>3, <2>4, <2>5
  <2> QED BY <2>6, <2>7
<1>6. /\ timestamps' \in Seq(Nat) /\ executions' \in Seq(Nat)
      /\ Len(executions') = Len(executions) + 1 /\ Len(executions) \in Nat
  BY <1>1, <1>2, <1>3, <1>4
<1>7. /\ asking' \in [Tasks -> {Idle} \cup [pair : Pairs, strategy : Strategies, block : Nat]]
      /\ Cardinality(Pending') = Cardinality(Pending) - 1 /\ Cardinality(Pending) \in Nat
  BY <1>1, AnsweredIs
<1>8. \A i \in DOMAIN executions' : executions'[i] < Minute
  <2>1. Len(executions) >= 0
    BY <1>6
  <2> QED BY <1>1, <1>3, Limits DEF MinuteInv
<1>9. (Len(executions) + Cardinality(Pending) < MaxPerMinute + Cardinality(Tasks))'
  <2>1. Len(executions) + Cardinality(Pending) < MaxPerMinute + Cardinality(Tasks)
    BY DEF MinuteInv
  <2> QED BY <1>6, <1>7, <2>1
<1> QED BY <1>1, <1>5, <1>6, <1>7, <1>8, <1>9 DEF MinuteInv

LEMMA AbandonKeeps ==
  ASSUME MinuteInv, NEW t \in Tasks, Abandon(t)
  PROVE  MinuteInv'
<1>1. /\ asking[t] # Idle /\ asking' = [asking EXCEPT ![t] = Idle]
      /\ UNCHANGED <<head, timestamps, executions>>
  BY DEF Abandon
<1>2. /\ asking' \in [Tasks -> {Idle} \cup [pair : Pairs, strategy : Strategies, block : Nat]]
      /\ Cardinality(Pending') = Cardinality(Pending) - 1 /\ Cardinality(Pending) \in Nat
  BY <1>1, AnsweredIs
<1>3. (Len(executions) + Cardinality(Pending) < MaxPerMinute + Cardinality(Tasks))'
  <2>1. /\ Len(executions) + Cardinality(Pending) < MaxPerMinute + Cardinality(Tasks)
        /\ Len(executions) \in Nat
    BY DEF MinuteInv
  <2>2. Cardinality(Tasks) \in Nat
    BY TasksAreFinite
  <2> QED BY <1>1, <1>2, <2>1, <2>2, Limits
<1> QED BY <1>1, <1>2, <1>3 DEF MinuteInv

LEMMA ResetKeeps ==
  ASSUME MinuteInv, ResetCooldowns
  PROVE  MinuteInv'
<1>1. timestamps' = <<>> /\ executions' = <<>> /\ UNCHANGED <<head, asking>>
  BY DEF ResetCooldowns
<1>2. timestamps' \in Seq(Nat) /\ executions' \in Seq(Nat) /\ Len(executions') = 0
  BY <1>1
<1>3. ASSUME NEW m \in 0..Minute
      PROVE  Occur(executions', 0 .. m - 1) <= Occur(timestamps', 0 .. m - 1)
  <2>1. Occur(executions', 0 .. m - 1) \in Nat
    BY <1>2, PlacesAreFinite
  <2> QED BY <1>1, <2>1
<1>4. (Len(executions) + Cardinality(Pending) < MaxPerMinute + Cardinality(Tasks))'
  <2>1. Pending \in SUBSET Tasks /\ Pending' = Pending
    BY <1>1 DEF Pending
  <2>2. /\ Cardinality(Pending) \in Nat /\ Cardinality(Tasks) \in Nat
        /\ Cardinality(Pending) <= Cardinality(Tasks)
    BY <2>1, TasksAreFinite
  <2> QED BY <1>2, <2>1, <2>2, Limits
<1>5. \A i \in DOMAIN executions' : executions'[i] < Minute
  BY <1>1
<1> QED BY <1>1, <1>2, <1>3, <1>4, <1>5 DEF MinuteInv

(* Time: what is a minute old no longer counts on either side.             *)
LEMMA CooldownAges ==
  ASSUME MinuteInv, CooldownTick
  PROVE  MinuteInv'
<1>1. timestamps \in Seq(Nat) /\ executions \in Seq(Nat)
  BY DEF MinuteInv
<1>2. /\ timestamps' = [i \in DOMAIN timestamps |-> Aged(timestamps[i])]
      /\ executions' = Within([i \in DOMAIN executions |-> executions[i] + 1], Minute)
      /\ UNCHANGED <<head, asking>>
  BY DEF CooldownTick
<1>3. PICK older : older = [i \in DOMAIN executions |-> executions[i] + 1]
  OBVIOUS
<1>4. older \in Seq(Nat) /\ Len(older) = Len(executions) /\ DOMAIN older = DOMAIN executions
  <2>1. DOMAIN executions = 1..Len(executions) /\ Len(executions) \in Nat
    BY <1>1
  <2>2. older \in [1..Len(executions) -> Nat]
    BY <1>1, <1>3, <2>1
  <2>3. older \in Seq(Nat)
    BY <2>1, <2>2
  <2> QED BY <2>1, <2>2, <2>3
<1>5. \A r \in Nat : Aged(r) \in Nat
  BY Limits DEF Aged
<1>6. timestamps' \in Seq(Nat) /\ DOMAIN timestamps' = DOMAIN timestamps
  <2>1. DOMAIN timestamps = 1..Len(timestamps) /\ Len(timestamps) \in Nat
    BY <1>1
  <2>2. \A i \in 1..Len(timestamps) : Aged(timestamps[i]) \in Nat
    BY <1>1, <1>5, <2>1
  <2>3. timestamps' \in [1..Len(timestamps) -> Nat]
    BY <1>2, <2>1, <2>2
  <2>4. timestamps' \in Seq(Nat)
    BY <2>1, <2>3
  <2> QED BY <2>1, <2>3, <2>4
<1>7. /\ executions' \in Seq(Nat) /\ \A i \in DOMAIN executions' : executions'[i] < Minute
      /\ Len(executions') <= Len(executions)
      /\ \A m \in 0..Minute : Occur(executions', 0 .. m - 1) = Occur(older, 0 .. m - 1)
  <2>1. PICK kept : kept = Within(older, Minute)
    OBVIOUS
  <2>2. /\ kept \in Seq(Nat) /\ \A i \in DOMAIN kept : kept[i] < Minute
        /\ Len(kept) <= Len(older)
        /\ \A m \in 0..Minute : Occur(kept, 0 .. m - 1) = Occur(older, 0 .. m - 1)
    BY <1>4, <2>1, WithinKeeps, Limits
  <2>3. executions' = kept
    BY <1>2, <1>3, <2>1
  <2> QED BY <1>4, <2>2, <2>3
<1>8. ASSUME NEW m \in 0..Minute
      PROVE  Occur(executions', 0 .. m - 1) <= Occur(timestamps', 0 .. m - 1)
  <2>1. Occur(executions', 0 .. m - 1) = Occur(older, 0 .. m - 1)
    BY <1>7
  <2>2. CASE m = 0
    <3>1. \A i \in DOMAIN older : older[i] \notin 0 .. m - 1
      BY <2>2
    <3>2. Occur(older, 0 .. m - 1) = 0
      BY <1>4, <3>1, OccurInNone
    <3>3. Occur(timestamps', 0 .. m - 1) \in Nat
      BY <1>6, PlacesAreFinite
    <3> QED BY <2>1, <3>2, <3>3
  <2>3. CASE m # 0
    <3>1. PICK n \in Nat : n = m - 1
      BY <2>3, Limits
    <3>2. n \in 0..Minute /\ m \in Nat
      BY <3>1, Limits
    <3>3. {i \in DOMAIN older : older[i] \in 0 .. m - 1} = {i \in DOMAIN executions : executions[i] \in 0 .. n - 1}
      <4>1. \A r \in Nat : r + 1 \in 0 .. m - 1 <=> r \in 0 .. n - 1
        BY <3>1, <3>2
      <4>2. \A i \in DOMAIN executions : older[i] = executions[i] + 1 /\ executions[i] \in Nat
        BY <1>1, <1>3
      <4> QED BY <1>4, <4>1, <4>2
    <3>4. {i \in DOMAIN timestamps' : timestamps'[i] \in 0 .. m - 1}
            = {i \in DOMAIN timestamps : timestamps[i] \in 0 .. n - 1}
      <4>1. \A r \in Nat : Aged(r) \in 0 .. m - 1 <=> r \in 0 .. n - 1
        BY <3>1, <3>2, Limits DEF Aged
      <4>2. \A i \in DOMAIN timestamps : timestamps'[i] = Aged(timestamps[i]) /\ timestamps[i] \in Nat
        BY <1>1, <1>2
      <4> QED BY <1>6, <4>1, <4>2
    <3>5. Occur(executions, 0 .. n - 1) <= Occur(timestamps, 0 .. n - 1)
      BY <3>2 DEF MinuteInv
    <3>6. /\ Occur(older, 0 .. m - 1) = Occur(executions, 0 .. n - 1)
          /\ Occur(timestamps', 0 .. m - 1) = Occur(timestamps, 0 .. n - 1)
      BY <3>3, <3>4 DEF Occur
    <3> QED BY <2>1, <3>5, <3>6
  <2> QED BY <2>2, <2>3
<1>9. (Len(executions) + Cardinality(Pending) < MaxPerMinute + Cardinality(Tasks))'
  <2>1. Pending' = Pending /\ Pending \in SUBSET Tasks
    BY <1>2 DEF Pending
  <2>2. Cardinality(Pending) \in Nat /\ Cardinality(Tasks) \in Nat
    BY <2>1, TasksAreFinite
  <2>3. Len(executions) + Cardinality(Pending) < MaxPerMinute + Cardinality(Tasks)
    BY DEF MinuteInv
  <2>4. Len(executions) \in Nat /\ Len(executions') \in Nat
    BY <1>1, <1>7
  <2> QED BY <1>7, <2>1, <2>2, <2>3, <2>4, Limits
<1>10. (head \in Nat /\ asking \in [Tasks -> {Idle} \cup [pair : Pairs, strategy : Strategies, block : Nat]])'
  BY <1>2 DEF MinuteInv
<1> QED BY <1>6, <1>7, <1>8, <1>9, <1>10 DEF MinuteInv

LEMMA CooldownKeeps == MinuteInv /\ [CooldownNext]_cooldownVars => MinuteInv'
<1> SUFFICES ASSUME MinuteInv, [CooldownNext]_cooldownVars PROVE MinuteInv'
  OBVIOUS
<1>1. CASE UNCHANGED cooldownVars
  BY <1>1 DEF MinuteInv, Pending, cooldownVars
<1>2. CASE NewBlock
  <2>1. head' = head + 1 /\ UNCHANGED <<timestamps, executions, asking>>
    BY <1>2 DEF NewBlock
  <2> QED BY <2>1 DEF MinuteInv, Pending
<1> QED BY <1>1, <1>2, CheckKeeps, RecordKeeps, AbandonKeeps, ResetKeeps, CooldownAges DEF CooldownNext

(* However the tasks that check and those that record come between each    *)
(* other, the limit of a minute is passed by fewer than there are tasks    *)
(* (CooldownManager::can_execute, record_execution).                       *)
THEOREM MinuteLimitStays == CooldownSpec => []MinuteLimitHolds
<1>1. MinuteInv => MinuteLimitHolds
  <2> SUFFICES ASSUME MinuteInv PROVE MinuteLimitHolds
    OBVIOUS
  <2>1. Pending \in SUBSET Tasks
    BY DEF Pending
  <2>2. Cardinality(Pending) \in Nat /\ Cardinality(Tasks) \in Nat
    BY <2>1, TasksAreFinite
  <2>3. /\ Len(executions) + Cardinality(Pending) < MaxPerMinute + Cardinality(Tasks)
        /\ Len(executions) \in Nat
    BY DEF MinuteInv
  <2> QED BY <2>2, <2>3, Limits DEF MinuteLimitHolds
<1> QED BY CooldownStarts, CooldownKeeps, <1>1, PTL DEF CooldownSpec

-------------------------------------------------------------------------------
(* The fork that executes a candidate (ForkValidation).  What is on it is  *)
(* followed transaction by transaction, so that nothing else needs to be   *)
(* known of the routes before: read-only calls answer at the anchor alone. *)
Txs == [key : DOMAIN Plans, leg : Nat, kind : {"approve", "swap"}, ok : BOOLEAN, in : Int, out : Int,
        frames : Traces \cup {{}}]
Forks == [wallet : [ForkTokens -> Int], mined : Seq(Txs)]
Ahead == {"economics", "build", "readonly", "fund"}
Onwards == {"approve", "swap", "balance", "trace"}
Jobs == [at : {"starting", "resting", "off"} \cup Ahead \cup Onwards, key : DOMAIN Plans \cup {NoRoute},
         leg : Nat, amount : Int, results : Seq(BOOLEAN), txs : Seq(Nat)]

(* The i-th leg of a route was approved and swapped, at what the one before*)
(* it gave; the first n legs were, and nothing of another route is there.  *)
Given(k, chain, i) == IF i = 1 THEN Plans[k].input ELSE chain[2 * (i - 1)].out
LegDone(k, chain, i) ==
  /\ chain[2 * i - 1].kind = "approve" /\ chain[2 * i].kind = "swap"
  /\ chain[2 * i].leg = i /\ chain[2 * i].ok /\ chain[2 * i].in = Given(k, chain, i)
OnlyOf(k, chain) == \A i \in DOMAIN chain : chain[i].key = k
Executed(j, chain, n) ==
  /\ OnlyOf(j.key, chain) /\ Len(j.results) = n /\ Len(j.txs) = n
  /\ \A i \in 1..n : LegDone(j.key, chain, i) /\ j.txs[i] = 2 * i

ForkTypes ==
  /\ anvil \in Forks /\ job \in Jobs
  /\ DOMAIN evidence = DOMAIN Plans /\ \A k \in DOMAIN Plans : DOMAIN evidence[k] = DOMAIN Blank

(* How far the route is on the fork, stage by stage.                       *)
BeforeTheFork ==
  job.at \in Ahead => job.results = <<>> /\ job.txs = <<>> /\ (job.at = "fund" => anvil.mined = <<>>)
BetweenLegs ==
  job.at \in {"approve", "swap"} =>
    /\ job.leg \in DOMAIN Plan.legs /\ Executed(job, anvil.mined, job.leg - 1)
    /\ job.amount = Given(job.key, anvil.mined, job.leg)
    /\ job.at = "approve" => Len(anvil.mined) = 2 * (job.leg - 1)
    /\ job.at = "swap" => /\ Len(anvil.mined) = 2 * job.leg - 1
                          /\ anvil.mined[2 * job.leg - 1].kind = "approve" /\ In # Out
AfterTheLegs ==
  job.at = "balance" =>
    /\ job.leg \in DOMAIN Plan.legs /\ Len(anvil.mined) = 2 * job.leg /\ Len(job.results) = job.leg
    /\ job.results[job.leg] => Executed(job, anvil.mined, job.leg)
AtTheTrace ==
  job.at = "trace" =>
    /\ Executed(job, anvil.mined, Len(Plan.legs)) /\ Len(anvil.mined) = 2 * Len(Plan.legs)
    /\ evidence[job.key].txs = job.txs
    /\ job.amount > 0 /\ anvil.wallet[Start] = Plan.input + job.amount

ForkInv ==
  /\ ForkTypes
  /\ job.at \in Ahead \cup Onwards => job.key \in DOMAIN Plans /\ verdict = NoVerdict
  /\ job.at \in {"readonly", "fund"} \cup Onwards => workingCalls = BuiltUpTo(Len(Plan.legs))
  /\ BeforeTheFork /\ BetweenLegs /\ AfterTheLegs /\ AtTheTrace
  /\ ForkEvidenceStandsAlone

LEMMA PlansAre ==
  ASSUME NEW k \in DOMAIN Plans
  PROVE  /\ Plans[k].input \in Nat /\ Len(Plans[k].legs) \in Nat \ {0}
         /\ DOMAIN Plans[k].legs = 1 .. Len(Plans[k].legs)
         /\ \A i \in DOMAIN Plans[k].legs : {Plans[k].legs[i].in, Plans[k].legs[i].out} \subseteq ForkTokens
<1> DEFINE legs == Plans[k].legs
<1>1. legs \in Seq(Range(legs)) /\ legs # <<>> /\ Plans[k].input \in Nat
  BY ForkAssumption
<1>2. Len(legs) \in Nat /\ DOMAIN legs = 1 .. Len(legs) /\ Len(legs) # 0
  <2> HIDE DEF legs
  <2> QED BY <1>1, EmptySeq, LenProperties
<1>3. ASSUME NEW i \in DOMAIN legs PROVE {legs[i].in, legs[i].out} \subseteq ForkTokens
  <2>1. legs[i] \in Range(legs)
    BY DEF Range
  <2> QED BY <2>1, ForkAssumption
<1> QED BY <1>1, <1>2, <1>3

LEMMA JobIs ==
  ASSUME NEW at \in {"starting", "resting", "off"} \cup Ahead \cup Onwards,
         NEW key \in DOMAIN Plans \cup {NoRoute}
  PROVE  /\ Job(at, key) \in Jobs /\ Job(at, key).at = at /\ Job(at, key).key = key
         /\ Job(at, key).results = <<>> /\ Job(at, key).txs = <<>>
<1>1. <<>> \in Seq(BOOLEAN) /\ <<>> \in Seq(Nat) /\ 0 \in Nat /\ 0 \in Int
  OBVIOUS
<1> QED BY <1>1 DEF Job, Jobs

LEMMA NoJobIs ==
  ASSUME NEW at \in {"starting", "resting", "off"}
  PROVE  NoJob(at) \in Jobs /\ NoJob(at).at = at /\ NoJob(at).results = <<>> /\ NoJob(at).txs = <<>>
  BY JobIs DEF NoJob

LEMMA ForkStarts == ForkInit => ForkInv
<1> SUFFICES ASSUME ForkInit PROVE ForkInv
  OBVIOUS
<1>1. job = NoJob("starting") /\ verdict = NoVerdict
  BY DEF ForkInit
<1>2. ForkTypes
  <2>1. anvil \in Forks
    BY DEF ForkInit, Pristine, Forks
  <2>2. job \in Jobs
    BY <1>1, NoJobIs
  <2>3. DOMAIN evidence = DOMAIN Plans /\ \A k \in DOMAIN Plans : evidence[k] = Blank
    BY DEF ForkInit
  <2> QED BY <2>1, <2>2, <2>3 DEF ForkTypes
<1>3. job.at = "starting"
  BY <1>1 DEF NoJob, Job
<1> QED
  BY <1>1, <1>2, <1>3 DEF ForkInv, BeforeTheFork, BetweenLegs, AfterTheLegs, AtTheTrace,
     ForkEvidenceStandsAlone, Ahead, Onwards

(* A route that is given up, or not begun, leaves nothing to know.         *)
LEMMA ForkRests ==
  ASSUME ForkTypes', verdict' = NoVerdict, job'.at \in {"starting", "resting", "off", "economics", "build"},
         job'.at \in {"economics", "build"} => /\ job'.key \in DOMAIN Plans
                                             /\ job'.results = <<>> /\ job'.txs = <<>>
  PROVE  ForkInv'
  BY DEF ForkInv, BeforeTheFork, BetweenLegs, AfterTheLegs, AtTheTrace,
     ForkEvidenceStandsAlone, Ahead, Onwards

LEMMA RejectIs ==
  ASSUME Reject
  PROVE  job' = NoJob("resting") /\ job' \in Jobs /\ job'.at = "resting"
  BY NoJobIs DEF Reject

LEMMA RecordKeepsTypes ==
  ASSUME ForkTypes, job.key \in DOMAIN Plans, NEW r, DOMAIN r = DOMAIN Blank, Record(r)
  PROVE  /\ DOMAIN evidence' = DOMAIN Plans
         /\ \A k \in DOMAIN Plans : DOMAIN evidence'[k] = DOMAIN Blank
         /\ evidence'[job.key] = r
  BY DEF ForkTypes, Record

LEMMA FailedIs ==
  ASSUME ForkTypes, job.key \in DOMAIN Plans
  PROVE  DOMAIN Failed = DOMAIN Blank
  BY DEF ForkTypes, Failed

LEMMA Appended ==
  ASSUME NEW S, NEW s \in Seq(S), NEW x \in S
  PROVE  /\ Append(s, x) \in Seq(S) /\ Len(Append(s, x)) = Len(s) + 1 /\ Len(s) \in Nat
         /\ DOMAIN s = 1 .. Len(s) /\ DOMAIN Append(s, x) = 1 .. Len(s) + 1
         /\ \A i \in 1 .. Len(s) : Append(s, x)[i] = s[i]
         /\ Append(s, x)[Len(s) + 1] = x
  BY AppendProperties, LenProperties

LEMMA GoOnIs ==
  ASSUME job \in Jobs, NEW at \in Ahead \cup Onwards, NEW leg \in Nat, NEW amount \in Int,
         GoOn(at, leg, amount)
  PROVE  /\ job' \in Jobs /\ job'.at = at /\ job'.key = job.key /\ job'.leg = leg
         /\ job'.amount = amount /\ job'.results = job.results /\ job'.txs = job.txs
<1>1. job' = [at |-> at, key |-> job.key, leg |-> leg, amount |-> amount,
              results |-> job.results, txs |-> job.txs]
  BY DEF GoOn, Jobs
<1> QED BY <1>1 DEF Jobs

LEMMA EvidenceStays ==
  ASSUME ForkEvidenceStandsAlone, UNCHANGED <<anvil, verdict, workingCalls>>
  PROVE  ForkEvidenceStandsAlone'
  BY DEF ForkEvidenceStandsAlone

(* The fork grows by one transaction of a route.                           *)
Longer(new, old, k) ==
  /\ DOMAIN old = 1 .. Len(old) /\ Len(old) \in Nat
  /\ DOMAIN new = 1 .. Len(old) + 1 /\ Len(new) = Len(old) + 1
  /\ \A i \in 1 .. Len(old) : new[i] = old[i]
  /\ new[Len(old) + 1].key = k

(* A transaction on the fork comes after the others.                       *)
LEMMA MinedGrows ==
  ASSUME anvil \in Forks, job \in Jobs, job.key \in DOMAIN Plans, NEW kind \in {"approve", "swap"},
         NEW ok \in BOOLEAN, NEW out \in Int, NEW frames \in Traces \cup {{}},
         NEW wallet \in [ForkTokens -> Int],
         anvil' = [wallet |-> wallet, mined |-> Mined(kind, ok, out, frames)]
  PROVE  /\ anvil' \in Forks
         /\ Longer(anvil'.mined, anvil.mined, job.key)
         /\ LET tx == anvil'.mined[Len(anvil.mined) + 1] IN
              /\ tx.key = job.key /\ tx.leg = job.leg /\ tx.kind = kind /\ tx.ok = ok
              /\ tx.in = job.amount /\ tx.out = out
<1> DEFINE tx == [key |-> job.key, leg |-> job.leg, kind |-> kind, ok |-> ok,
                  in |-> job.amount, out |-> out, frames |-> frames]
<1>1. tx \in Txs
  BY DEF Txs, Jobs
<1>2. anvil.mined \in Seq(Txs)
  BY DEF Forks
<1>3. anvil'.mined = Append(anvil.mined, tx) /\ anvil'.wallet = wallet
  BY DEF Mined
<1>4. /\ tx.key = job.key /\ tx.leg = job.leg /\ tx.kind = kind /\ tx.ok = ok
      /\ tx.in = job.amount /\ tx.out = out
  OBVIOUS
<1> HIDE DEF tx
<1>5. /\ Append(anvil.mined, tx) \in Seq(Txs)
      /\ Len(Append(anvil.mined, tx)) = Len(anvil.mined) + 1 /\ Len(anvil.mined) \in Nat
      /\ DOMAIN anvil.mined = 1 .. Len(anvil.mined)
      /\ DOMAIN Append(anvil.mined, tx) = 1 .. Len(anvil.mined) + 1
      /\ \A i \in 1 .. Len(anvil.mined) : Append(anvil.mined, tx)[i] = anvil.mined[i]
      /\ Append(anvil.mined, tx)[Len(anvil.mined) + 1] = tx
  BY <1>1, <1>2, Appended
<1>7. /\ anvil'.mined \in Seq(Txs) /\ Len(anvil'.mined) = Len(anvil.mined) + 1 /\ Len(anvil.mined) \in Nat
      /\ DOMAIN anvil.mined = 1 .. Len(anvil.mined) /\ DOMAIN anvil'.mined = 1 .. Len(anvil.mined) + 1
      /\ \A i \in 1 .. Len(anvil.mined) : anvil'.mined[i] = anvil.mined[i]
      /\ anvil'.mined[Len(anvil.mined) + 1] = tx
  BY <1>3, <1>5
<1>6. anvil' \in Forks
  <2>1. anvil' = [wallet |-> wallet, mined |-> anvil'.mined]
    OBVIOUS
  <2> QED BY <1>7, <2>1 DEF Forks
<1>8. Longer(anvil'.mined, anvil.mined, job.key)
  BY <1>4, <1>7 DEF Longer
<1> QED BY <1>4, <1>6, <1>7, <1>8

LEMMA LegStaysDone ==
  ASSUME NEW k, NEW new, NEW old, Longer(new, old, k),
         NEW n \in Nat, 2 * n <= Len(old), NEW i \in 1 .. n, LegDone(k, old, i)
  PROVE  LegDone(k, new, i)
<1>1. 2 * i \in 1 .. Len(old) /\ 2 * i - 1 \in 1 .. Len(old)
  BY DEF Longer
<1>2. i # 1 => 2 * (i - 1) \in 1 .. Len(old)
  BY DEF Longer
<1> QED BY <1>1, <1>2 DEF LegDone, Given, Longer

LEMMA GivenStays ==
  ASSUME NEW k, NEW new, NEW old, Longer(new, old, k),
         NEW n \in Nat \ {0}, 2 * (n - 1) <= Len(old)
  PROVE  Given(k, new, n) = Given(k, old, n)
<1>1. n # 1 => 2 * (n - 1) \in 1 .. Len(old)
  BY DEF Longer
<1> QED BY <1>1 DEF Given, Longer

LEMMA OnlyOfStays ==
  ASSUME NEW k, NEW new, NEW old, Longer(new, old, k), OnlyOf(k, old)
  PROVE  OnlyOf(k, new)
<1>1. ASSUME NEW i \in DOMAIN new PROVE new[i].key = k
  <2>1. i \in 1 .. Len(old) \/ i = Len(old) + 1
    BY DEF Longer
  <2> QED BY <2>1 DEF OnlyOf, Longer
<1> QED BY <1>1 DEF OnlyOf

LEMMA ExecutedStays ==
  ASSUME NEW j, NEW k, k = j.key, NEW new, NEW old, Longer(new, old, k), NEW n \in Nat, 2 * n <= Len(old),
         Executed(j, old, n), NEW jj, jj.key = k, jj.results = j.results, jj.txs = j.txs
  PROVE  Executed(jj, new, n)
<1>1. OnlyOf(k, new)
  BY OnlyOfStays DEF Executed
<1>2. ASSUME NEW i \in 1 .. n PROVE LegDone(k, new, i) /\ jj.txs[i] = 2 * i
  <2>1. LegDone(k, old, i) /\ j.txs[i] = 2 * i
    BY DEF Executed
  <2> QED BY <2>1, LegStaysDone
<1> QED BY <1>1, <1>2 DEF Executed

LEMMA OnRoute ==
  ASSUME ForkInv, job.at \in Ahead \cup Onwards
  PROVE  /\ job.key \in DOMAIN Plans /\ verdict = NoVerdict /\ job \in Jobs /\ anvil \in Forks
         /\ Plan = Plans[job.key] /\ Plan.input \in Nat /\ Len(Plan.legs) \in Nat \ {0}
         /\ DOMAIN Plan.legs = 1 .. Len(Plan.legs)
         /\ \A i \in DOMAIN Plan.legs : {Plan.legs[i].in, Plan.legs[i].out} \subseteq ForkTokens
<1>1. job.key \in DOMAIN Plans /\ verdict = NoVerdict /\ job \in Jobs /\ anvil \in Forks
  BY DEF ForkInv, ForkTypes
<1> QED BY <1>1, PlansAre DEF Plan

(* Giving up.                                                              *)
LEMMA RejectKeeps ==
  ASSUME ForkInv, job.at \in Ahead \cup Onwards, Reject, anvil' \in Forks, verdict' = verdict,
         UNCHANGED evidence \/ \E r : DOMAIN r = DOMAIN Blank /\ Record(r)
  PROVE  ForkInv'
<1>1. job' \in Jobs /\ job'.at = "resting"
  BY RejectIs
<1>2. ForkTypes'
  BY <1>1, OnRoute, RecordKeepsTypes DEF ForkInv, ForkTypes
<1> QED BY <1>1, <1>2, OnRoute, ForkRests

LEMMA WaitKeeps ==
  ASSUME ForkInv, WaitForAnvil
  PROVE  ForkInv'
<1>1. job' \in Jobs /\ job'.at \in {"starting", "resting", "off"}
  <2>1. job' \in {job, NoJob("resting"), NoJob("off")} /\ job.at = "starting" /\ job \in Jobs
    BY DEF WaitForAnvil, ForkInv, ForkTypes
  <2> QED BY <2>1, NoJobIs
<1>2. ForkTypes'
  BY <1>1 DEF WaitForAnvil, ForkInv, ForkTypes
<1>3. CASE verdict = NoVerdict
  BY <1>1, <1>2, <1>3, ForkRests DEF WaitForAnvil
<1>4. CASE verdict # NoVerdict
  <2>1. ForkEvidenceStandsAlone'
    BY EvidenceStays DEF WaitForAnvil, ForkInv
  <2>2. job'.at \notin Ahead \cup Onwards
    BY <1>1 DEF Ahead, Onwards
  <2> QED
    BY <1>1, <1>2, <2>1, <2>2 DEF ForkInv, BeforeTheFork, BetweenLegs, AfterTheLegs, AtTheTrace, Ahead, Onwards
<1> QED BY <1>3, <1>4

LEMMA ExecuteKeeps ==
  ASSUME ForkInv, ExecuteRoute
  PROVE  ForkInv'
<1>1. /\ job' \in Jobs /\ job'.at \in {"resting", "economics"} /\ job'.results = <<>> /\ job'.txs = <<>>
      /\ job'.at = "economics" => job'.key \in DOMAIN Plans
  <2>1. PICK rows \in Evaluations : \E key \in SinglePhysicalCandidate(rows) : \E rejected \in BOOLEAN :
            job' = IF rejected \/ key \notin DOMAIN Plans THEN NoJob("resting")
                   ELSE Job("economics", key)
    BY DEF ExecuteRoute
  <2>2. PICK key \in SinglePhysicalCandidate(rows) : \E rejected \in BOOLEAN :
            job' = IF rejected \/ key \notin DOMAIN Plans THEN NoJob("resting")
                   ELSE Job("economics", key)
    BY <2>1
  <2>3. job' = NoJob("resting") \/ (key \in DOMAIN Plans /\ job' = Job("economics", key))
    BY <2>2
  <2>4. "economics" \in Ahead
    BY DEF Ahead
  <2> QED BY <2>3, <2>4, NoJobIs, JobIs
<1>2. anvil' \in Forks
  <2>1. Pristine \in Forks
    BY DEF Pristine, Forks
  <2> QED BY <2>1 DEF ExecuteRoute, ForkInv, ForkTypes
<1>3. ForkTypes'
  BY <1>1, <1>2 DEF ExecuteRoute, ForkInv, ForkTypes
<1> QED BY <1>1, <1>3, ForkRests DEF ExecuteRoute

LEMMA EconomicsKeeps ==
  ASSUME ForkInv, StatefulEconomics
  PROVE  ForkInv'
<1>1. job.at \in Ahead \cup Onwards /\ anvil' = anvil /\ verdict' = verdict
  BY DEF StatefulEconomics, Ahead
<1>2. DOMAIN evidence[job.key] = DOMAIN Blank /\ anvil' \in Forks
  BY <1>1, OnRoute DEF ForkInv, ForkTypes
<1>3. CASE GoOn("build", 0, 0) /\ Record([evidence[job.key] EXCEPT !.economics = "positive"])
  <2>1. job' \in Jobs /\ job'.at = "build" /\ job'.key = job.key /\ job'.results = <<>> /\ job'.txs = <<>>
    <3>1. job.results = <<>> /\ job.txs = <<>>
      BY DEF Ahead, ForkInv, BeforeTheFork, StatefulEconomics
    <3>2. "build" \in Ahead \cup Onwards /\ 0 \in Nat /\ 0 \in Int /\ job \in Jobs
      BY <1>1, OnRoute DEF Ahead
    <3> QED BY <1>3, <3>1, <3>2, GoOnIs
  <2>2. DOMAIN [evidence[job.key] EXCEPT !.economics = "positive"] = DOMAIN Blank
    BY <1>2
  <2>3. ForkTypes'
    BY <1>1, <1>2, <1>3, <2>1, <2>2, OnRoute, RecordKeepsTypes DEF ForkInv, ForkTypes
  <2> QED BY <1>1, <2>1, <2>3, OnRoute, ForkRests
<1>4. CASE Reject /\ Record([evidence[job.key] EXCEPT !.economics = "negative"])
  <2>1. DOMAIN [evidence[job.key] EXCEPT !.economics = "negative"] = DOMAIN Blank
    BY <1>2
  <2> QED BY <1>1, <1>2, <1>4, <2>1, RejectKeeps
<1>5. CASE Reject /\ Record(Failed)
  BY <1>1, <1>2, <1>5, OnRoute, FailedIs, RejectKeeps DEF ForkInv
<1> QED BY <1>3, <1>4, <1>5 DEF StatefulEconomics


(* On the way to the fork.                                                 *)
LEMMA AheadHolds ==
  ASSUME ForkTypes', verdict' = NoVerdict, job'.at \in {"readonly", "fund"}, job'.key \in DOMAIN Plans,
         job'.results = <<>>, job'.txs = <<>>, (workingCalls = BuiltUpTo(Len(Plan.legs)))',
         job'.at = "fund" => anvil'.mined = <<>>
  PROVE  ForkInv'
  BY DEF ForkInv, BeforeTheFork, BetweenLegs, AfterTheLegs, AtTheTrace,
     ForkEvidenceStandsAlone, Ahead, Onwards

LEMMA BuildKeeps ==
  ASSUME ForkInv, BuildExecutableCall
  PROVE  ForkInv'
<1>1. /\ job.at \in Ahead \cup Onwards /\ anvil' = anvil /\ verdict' = verdict /\ anvil \in Forks
      /\ job.results = <<>> /\ job.txs = <<>>
  BY DEF BuildExecutableCall, Ahead, ForkInv, ForkTypes, BeforeTheFork
<1>2. CASE Reject /\ (UNCHANGED evidence \/ Record(Failed))
  BY <1>1, <1>2, OnRoute, FailedIs, RejectKeeps DEF ForkInv
<1>3. ASSUME NEW amountIn \in {0, Plan.input}, GoOn("readonly", 0, amountIn), UNCHANGED evidence,
             workingCalls' = BuiltUpTo(Len(Plan.legs))
      PROVE  ForkInv'
  <2>1. amountIn \in Int /\ 0 \in Nat /\ "readonly" \in Ahead \cup Onwards /\ job \in Jobs
    BY <1>1, <1>3, OnRoute DEF Ahead
  <2>2. /\ job' \in Jobs /\ job'.at = "readonly" /\ job'.key = job.key
        /\ job'.results = <<>> /\ job'.txs = <<>>
    BY <1>1, <1>3, <2>1, GoOnIs
  <2>3. ForkTypes'
    BY <1>1, <1>3, <2>2 DEF ForkInv, ForkTypes
  <2>4. (workingCalls = BuiltUpTo(Len(Plan.legs)))'
    BY <1>3, <2>2 DEF BuiltUpTo, Plan
  <2> QED BY <1>1, <2>2, <2>3, <2>4, OnRoute, AheadHolds
<1> QED BY <1>2, <1>3 DEF BuildExecutableCall

LEMMA ReadonlyKeeps ==
  ASSUME ForkInv, ReadonlyEthCall
  PROVE  ForkInv'
<1>1. /\ job.at = "readonly" /\ job.at \in Ahead \cup Onwards /\ anvil' = anvil /\ verdict' = verdict
      /\ anvil \in Forks /\ job.results = <<>> /\ job.txs = <<>>
      /\ workingCalls = BuiltUpTo(Len(Plan.legs)) /\ workingCalls' = workingCalls
  BY DEF ReadonlyEthCall, Ahead, ForkInv, ForkTypes, BeforeTheFork
<1>2. CASE Reject /\ UNCHANGED evidence
  BY <1>1, <1>2, RejectKeeps
<1>3. ASSUME NEW n, Record([evidence[job.key] EXCEPT !.readonly = n])
      PROVE  \E r : DOMAIN r = DOMAIN Blank /\ Record(r)
  <2>1. DOMAIN [evidence[job.key] EXCEPT !.readonly = n] = DOMAIN Blank
    BY <1>1, OnRoute DEF ForkInv, ForkTypes
  <2> QED BY <1>3, <2>1
<1>4. ASSUME NEW result \in [DOMAIN workingCalls -> Verified], NEW n,
             Record([evidence[job.key] EXCEPT !.readonly = n]),
             {i \in {j \in DOMAIN workingCalls : result[j] # "error"} : result[i] # "revert"} = DOMAIN workingCalls,
             GoOn("fund", 0, 0)
      PROVE  ForkInv'
  <2>1. 1 \in DOMAIN workingCalls
    BY <1>1, OnRoute DEF BuiltUpTo
  <2>2. result[1] # "error" /\ result[1] \in Verified
    BY <1>4, <2>1
  <2>3. anvil.mined = <<>>
    BY <2>2 DEF Verified, AtAnchor
  <2>4. 0 \in Int /\ 0 \in Nat /\ "fund" \in Ahead \cup Onwards /\ job \in Jobs
    BY <1>1, OnRoute DEF Ahead
  <2>5. /\ job' \in Jobs /\ job'.at = "fund" /\ job'.key = job.key
        /\ job'.results = <<>> /\ job'.txs = <<>>
    BY <1>1, <1>4, <2>4, GoOnIs
  <2>6. ForkTypes'
    BY <1>1, <1>3, <1>4, <2>5, OnRoute, RecordKeepsTypes DEF ForkInv, ForkTypes
  <2>7. (workingCalls = BuiltUpTo(Len(Plan.legs)))'
    BY <1>1, <2>5 DEF BuiltUpTo, Plan
  <2> QED BY <1>1, <2>3, <2>5, <2>6, <2>7, OnRoute, AheadHolds
<1>5. CASE Loopback(endpoint)
  <2>1. PICK result \in [DOMAIN workingCalls -> Verified] :
            LET answered == {i \in DOMAIN workingCalls : result[i] # "error"}
                amounts == {i \in answered : result[i] # "revert"}
                final == result[Len(workingCalls)]
            IN  /\ Record([evidence[job.key] EXCEPT !.readonly = Cardinality(answered)])
                /\ IF amounts = DOMAIN workingCalls /\ final = "amount" THEN GoOn("fund", 0, 0) ELSE Reject
    BY <1>5 DEF ReadonlyEthCall
  <2>2. CASE Reject
    BY <1>1, <1>3, <2>1, <2>2, RejectKeeps
  <2>3. CASE ~Reject
    BY <1>4, <2>1, <2>3
  <2> QED BY <2>2, <2>3
<1> QED BY <1>2, <1>5 DEF ReadonlyEthCall

(* On the fork.                                                            *)
LEMMA OnwardsHolds ==
  ASSUME ForkTypes', verdict' = NoVerdict, job'.at \in Onwards, job'.key \in DOMAIN Plans,
         (workingCalls = BuiltUpTo(Len(Plan.legs)))', BetweenLegs', AfterTheLegs', AtTheTrace'
  PROVE  ForkInv'
  BY DEF ForkInv, BeforeTheFork, ForkEvidenceStandsAlone, Ahead, Onwards

LEMMA FundedIs ==
  ASSUME anvil \in Forks, NEW amount \in Nat, Start \in ForkTokens
  PROVE  Funded(amount) \in Forks /\ Funded(amount).mined = anvil.mined
<1>1. Funded(amount) = [wallet |-> [anvil.wallet EXCEPT ![Start] = amount], mined |-> anvil.mined]
  <2>1. DOMAIN anvil = {"wallet", "mined"}
    BY DEF Forks
  <2>2. Funded(amount) = [f \in {"wallet", "mined"} |->
                           IF f = "wallet" THEN [anvil.wallet EXCEPT ![Start] = amount] ELSE anvil[f]]
    BY <2>1 DEF Funded
  <2> QED BY <2>2
<1>2. [anvil.wallet EXCEPT ![Start] = amount] \in [ForkTokens -> Int]
  BY DEF Forks
<1> QED BY <1>1, <1>2 DEF Forks

LEMMA FundKeeps ==
  ASSUME ForkInv, Fund
  PROVE  ForkInv'
<1>1. /\ job.at = "fund" /\ job.at \in Ahead \cup Onwards /\ verdict' = verdict
      /\ anvil \in Forks /\ anvil.mined = <<>> /\ job.results = <<>> /\ job.txs = <<>>
      /\ workingCalls = BuiltUpTo(Len(Plan.legs)) /\ workingCalls' = workingCalls
  BY DEF Fund, Ahead, ForkInv, ForkTypes, BeforeTheFork
<1>2. Start \in ForkTokens /\ 1 \in DOMAIN Plan.legs /\ Probe \in Nat /\ Plan.input \in Nat
  BY <1>1, OnRoute, ForkAssumption DEF Start
<1>3. anvil' \in Forks /\ anvil'.mined = <<>>
  BY <1>1, <1>2, FundedIs DEF Fund
<1>4. CASE Reject /\ Record(Failed)
  BY <1>1, <1>3, <1>4, OnRoute, FailedIs, RejectKeeps DEF ForkInv
<1>5. CASE GoOn("approve", 1, Plan.input) /\ UNCHANGED evidence
  <2>1. "approve" \in Ahead \cup Onwards /\ 1 \in Nat /\ Plan.input \in Int /\ job \in Jobs
    BY <1>1, <1>2, OnRoute DEF Onwards
  <2>2. /\ job' \in Jobs /\ job'.at = "approve" /\ job'.key = job.key /\ job'.leg = 1
        /\ job'.amount = Plan.input /\ job'.results = <<>> /\ job'.txs = <<>>
    BY <1>1, <1>5, <2>1, GoOnIs
  <2>3. ForkTypes'
    BY <1>3, <1>5, <2>2 DEF ForkInv, ForkTypes
  <2>4. (workingCalls = BuiltUpTo(Len(Plan.legs)))' /\ Plan' = Plan
    BY <1>1, <2>2 DEF BuiltUpTo, Plan
  <2>5. BetweenLegs'
    <3>1. DOMAIN anvil'.mined = {} /\ Len(anvil'.mined) = 0
      BY <1>3
    <3>2. job'.leg - 1 = 0 /\ 2 * (job'.leg - 1) = 0
      BY <2>2
    <3>3. (Executed(job, anvil.mined, job.leg - 1))'
      BY <2>2, <3>1, <3>2 DEF Executed, OnlyOf
    <3>4. (job.amount = Given(job.key, anvil.mined, job.leg))'
      BY <2>2 DEF Given, Plan
    <3> QED BY <1>2, <2>2, <2>4, <3>1, <3>2, <3>3, <3>4 DEF BetweenLegs
  <2>6. AfterTheLegs' /\ AtTheTrace'
    BY <2>2 DEF AfterTheLegs, AtTheTrace
  <2>7. job'.at \in Onwards /\ job'.key \in DOMAIN Plans /\ verdict' = NoVerdict
    BY <1>1, <2>2, OnRoute DEF Onwards
  <2> QED BY <2>3, <2>4, <2>5, <2>6, <2>7, OnwardsHolds
<1> QED BY <1>4, <1>5 DEF Fund

(* A transaction of the current route.                                     *)
LEMMA ForkIs ==
  ASSUME anvil \in Forks, NEW chain
  PROVE  [anvil EXCEPT !.mined = chain] = [wallet |-> anvil.wallet, mined |-> chain]
  BY DEF Forks

LEMMA ApproveKeeps ==
  ASSUME ForkInv, Approve
  PROVE  ForkInv'
<1>1. /\ job.at = "approve" /\ job.at \in Ahead \cup Onwards /\ verdict' = verdict
      /\ job \in Jobs /\ anvil \in Forks /\ job.key \in DOMAIN Plans
      /\ workingCalls = BuiltUpTo(Len(Plan.legs)) /\ workingCalls' = workingCalls
      /\ job.leg \in DOMAIN Plan.legs /\ Executed(job, anvil.mined, job.leg - 1)
      /\ job.amount = Given(job.key, anvil.mined, job.leg)
      /\ Len(anvil.mined) = 2 * (job.leg - 1)
  BY DEF Approve, Onwards, ForkInv, ForkTypes, BetweenLegs
<1>2. /\ anvil.wallet \in [ForkTokens -> Int] /\ 0 \in Int /\ {} \in Traces \cup {{}}
      /\ job.leg \in 1 .. Len(Plan.legs) /\ Len(Plan.legs) \in Nat /\ job.leg \in Nat \ {0}
  BY <1>1, OnRoute DEF Forks
<1>3. ASSUME NEW ok \in BOOLEAN, anvil' = [anvil EXCEPT !.mined = Mined("approve", ok, 0, {})]
      PROVE  anvil' = [wallet |-> anvil.wallet, mined |-> Mined("approve", ok, 0, {})] /\ anvil' \in Forks
  <2>1. anvil' = [wallet |-> anvil.wallet, mined |-> Mined("approve", ok, 0, {})]
    BY <1>1, <1>3, ForkIs
  <2>2. "approve" \in {"approve", "swap"}
    OBVIOUS
  <2> QED BY <1>1, <1>2, <2>1, <2>2, MinedGrows
<1>4. CASE /\ anvil' = [anvil EXCEPT !.mined = Mined("approve", FALSE, 0, {})] \/ UNCHANGED anvil
           /\ Reject /\ Record(Failed)
  <2>1. anvil' \in Forks
    BY <1>1, <1>3, <1>4
  <2> QED BY <1>1, <1>4, <2>1, OnRoute, FailedIs, RejectKeeps DEF ForkInv
<1>5. CASE /\ CanBuild(Plan.legs[job.leg], job.amount, FALSE)
           /\ anvil' = [anvil EXCEPT !.mined = Mined("approve", TRUE, 0, {})]
           /\ GoOn("swap", job.leg, job.amount) /\ UNCHANGED evidence
  <2>1. "swap" \in Ahead \cup Onwards /\ job.leg \in Nat /\ job.amount \in Int
    BY <1>1, <1>2 DEF Onwards, Jobs
  <2>2. /\ job' \in Jobs /\ job'.at = "swap" /\ job'.key = job.key /\ job'.leg = job.leg
        /\ job'.amount = job.amount /\ job'.results = job.results /\ job'.txs = job.txs
    BY <1>1, <1>5, <2>1, GoOnIs
  <2>3. /\ anvil' \in Forks /\ Longer(anvil'.mined, anvil.mined, job.key)
        /\ anvil'.mined[Len(anvil.mined) + 1].kind = "approve"
    <3>1. anvil' = [wallet |-> anvil.wallet, mined |-> Mined("approve", TRUE, 0, {})]
      BY <1>3, <1>5
    <3>2. "approve" \in {"approve", "swap"} /\ TRUE \in BOOLEAN
      OBVIOUS
    <3> QED BY <1>1, <1>2, <3>1, <3>2, MinedGrows
  <2>4. ForkTypes'
    BY <1>5, <2>2, <2>3 DEF ForkInv, ForkTypes
  <2>5. (workingCalls = BuiltUpTo(Len(Plan.legs)))' /\ Plan' = Plan
    BY <1>1, <2>2 DEF BuiltUpTo, Plan
  <2>6. BetweenLegs'
    <3>1. job.leg - 1 \in Nat /\ 2 * (job.leg - 1) <= Len(anvil.mined) /\ 2 * job.leg - 1 = Len(anvil.mined) + 1
      BY <1>1, <1>2
    <3>2. Executed(job', anvil'.mined, job.leg - 1)
      BY <1>1, <2>2, <2>3, <3>1, ExecutedStays
    <3>3. Given(job.key, anvil'.mined, job.leg) = Given(job.key, anvil.mined, job.leg)
      BY <1>2, <2>3, <3>1, GivenStays
    <3>8. (In # Out)'
      BY <1>5, <2>2, <2>5 DEF In, Out, CanBuild, Common
    <3> QED BY <1>1, <2>2, <2>3, <2>5, <3>1, <3>2, <3>3, <3>8 DEF BetweenLegs, Longer
  <2>7. AfterTheLegs' /\ AtTheTrace'
    BY <2>2 DEF AfterTheLegs, AtTheTrace
  <2>8. job'.at \in Onwards /\ job'.key \in DOMAIN Plans /\ verdict' = NoVerdict
    BY <1>1, <2>2, OnRoute DEF Onwards
  <2> QED BY <2>4, <2>5, <2>6, <2>7, <2>8, OnwardsHolds
<1> QED BY <1>4, <1>5 DEF Approve

(* The swap that follows an approval makes one leg more.                   *)
LEMMA OneMoreLeg ==
  ASSUME NEW j, NEW k, k = j.key, NEW new, NEW old, Longer(new, old, k), NEW n \in Nat \ {0},
         Len(old) = 2 * n - 1, Executed(j, old, n - 1), old[2 * n - 1].kind = "approve",
         new[2 * n].kind = "swap", new[2 * n].leg = n, new[2 * n].ok, new[2 * n].in = Given(k, old, n),
         j.results \in Seq(BOOLEAN), j.txs \in Seq(Nat),
         NEW jj, jj.key = k, jj.results = Append(j.results, TRUE), jj.txs = Append(j.txs, 2 * n)
  PROVE  Executed(jj, new, n)
<1>1. /\ 2 * (n - 1) <= Len(old) /\ n - 1 \in Nat /\ 2 * n \in Nat
      /\ Len(old) + 1 = 2 * n /\ 2 * n - 1 \in 1 .. Len(old)
  OBVIOUS
<1>2. OnlyOf(k, new)
  BY OnlyOfStays DEF Executed
<1>3. Len(j.results) = n - 1 /\ Len(j.txs) = n - 1
  BY DEF Executed
<1>4. Len(jj.results) = n /\ Len(jj.txs) = n /\ jj.txs[n] = 2 * n /\ \A i \in 1 .. n - 1 : jj.txs[i] = j.txs[i]
  <2>1. TRUE \in BOOLEAN
    OBVIOUS
  <2>2. Len(Append(j.results, TRUE)) = n
    BY <1>1, <1>3, <2>1, Appended
  <2>3. /\ Len(Append(j.txs, 2 * n)) = n /\ Append(j.txs, 2 * n)[n] = 2 * n
        /\ \A i \in 1 .. n - 1 : Append(j.txs, 2 * n)[i] = j.txs[i]
    BY <1>1, <1>3, Appended
  <2> QED BY <2>2, <2>3
<1>5. ASSUME NEW i \in 1 .. n PROVE LegDone(k, new, i) /\ jj.txs[i] = 2 * i
  <2>1. CASE i = n
    <3>1. Given(k, new, n) = Given(k, old, n)
      BY <1>1, GivenStays
    <3>2. new[2 * n - 1] = old[2 * n - 1]
      BY <1>1 DEF Longer
    <3> QED BY <1>4, <2>1, <3>1, <3>2 DEF LegDone
  <2>2. CASE i \in 1 .. n - 1
    <3>1. LegDone(k, old, i) /\ j.txs[i] = 2 * i
      BY <2>2 DEF Executed
    <3> QED BY <1>1, <1>4, <2>2, <3>1, LegStaysDone
  <2>3. i = n \/ i \in 1 .. n - 1
    OBVIOUS
  <2> QED BY <2>1, <2>2, <2>3
<1> QED BY <1>2, <1>4, <1>5 DEF Executed

LEMMA SwappedIs ==
  ASSUME anvil \in Forks, job \in Jobs, In \in ForkTokens, Out \in ForkTokens, In # Out, NEW out \in Int,
         NEW frames
  PROVE  \E wallet \in [ForkTokens -> Int] :
           /\ Swapped(out, frames) = [wallet |-> wallet, mined |-> Mined("swap", TRUE, out, frames)]
           /\ ActualOutput(anvil.wallet, wallet) = out
<1> DEFINE wallet == [anvil.wallet EXCEPT ![In] = @ - job.amount, ![Out] = @ + out]
<1>1. anvil.wallet \in [ForkTokens -> Int] /\ job.amount \in Int
  BY DEF Forks, Jobs
<1>2. wallet \in [ForkTokens -> Int] /\ wallet[Out] = anvil.wallet[Out] + out
  BY <1>1
<1>3. ActualOutput(anvil.wallet, wallet) = out
  <2> HIDE DEF wallet
  <2> QED BY <1>1, <1>2 DEF ActualOutput, SignedDelta
<1> QED BY <1>2, <1>3 DEF Swapped

LEMMA SwapDoneIs ==
  ASSUME job \in Jobs, NEW ok \in BOOLEAN, NEW at \in Ahead \cup Onwards, NEW leg \in Nat,
         NEW spot \in Nat, spot = Len(anvil'.mined), SwapDone(ok, at, leg),
         NEW amount \in Int, amount = IF ok THEN ActualOutput(anvil.wallet, anvil'.wallet) ELSE 0
  PROVE  /\ job' \in Jobs /\ job'.at = at /\ job'.key = job.key /\ job'.leg = leg
         /\ job'.amount = amount
         /\ job'.results = Append(job.results, ok) /\ job'.txs = Append(job.txs, spot)
<1>1. job' = [at |-> at, key |-> job.key, leg |-> leg, amount |-> amount,
              results |-> Append(job.results, ok), txs |-> Append(job.txs, spot)]
  BY DEF SwapDone, Jobs
<1>2. Append(job.results, ok) \in Seq(BOOLEAN) /\ Append(job.txs, spot) \in Seq(Nat)
  <2>1. job.results \in Seq(BOOLEAN) /\ job.txs \in Seq(Nat)
    BY DEF Jobs
  <2> QED BY <2>1, Appended
<1> QED BY <1>1, <1>2 DEF Jobs

LEMMA SwapKeeps ==
  ASSUME ForkInv, SwapLeg
  PROVE  ForkInv'
<1>1. /\ job.at = "swap" /\ job.at \in Ahead \cup Onwards /\ verdict' = verdict
      /\ job \in Jobs /\ anvil \in Forks /\ job.key \in DOMAIN Plans
      /\ workingCalls = BuiltUpTo(Len(Plan.legs)) /\ workingCalls' = workingCalls
      /\ job.leg \in DOMAIN Plan.legs /\ Executed(job, anvil.mined, job.leg - 1)
      /\ job.amount = Given(job.key, anvil.mined, job.leg)
      /\ Len(anvil.mined) = 2 * job.leg - 1 /\ anvil.mined[2 * job.leg - 1].kind = "approve" /\ In # Out
  BY DEF SwapLeg, Onwards, ForkInv, ForkTypes, BetweenLegs
<1>2. /\ anvil.wallet \in [ForkTokens -> Int] /\ 0 \in Int /\ {} \in Traces \cup {{}} /\ MaxOut \in Nat
      /\ job.leg \in 1 .. Len(Plan.legs) /\ Len(Plan.legs) \in Nat /\ job.leg \in Nat \ {0}
      /\ In \in ForkTokens /\ Out \in ForkTokens /\ Len(anvil.mined) + 1 = 2 * job.leg
      /\ job.results \in Seq(BOOLEAN) /\ job.txs \in Seq(Nat)
      /\ "balance" \in Ahead \cup Onwards /\ "approve" \in Ahead \cup Onwards /\ "swap" \in {"approve", "swap"}
      /\ TRUE \in BOOLEAN /\ FALSE \in BOOLEAN
  <2>1. anvil.wallet \in [ForkTokens -> Int] /\ job.results \in Seq(BOOLEAN) /\ job.txs \in Seq(Nat)
    BY <1>1 DEF Forks, Jobs
  <2>2. /\ Len(Plan.legs) \in Nat \ {0} /\ DOMAIN Plan.legs = 1 .. Len(Plan.legs)
        /\ {Plan.legs[job.leg].in, Plan.legs[job.leg].out} \subseteq ForkTokens
    BY <1>1, PlansAre DEF Plan
  <2>3. job.leg \in 1 .. Len(Plan.legs)
    BY <1>1, <2>2
  <2>4. job.leg \in Nat \ {0} /\ Len(anvil.mined) + 1 = 2 * job.leg
    <3> DEFINE n == Len(Plan.legs)
               m == Len(anvil.mined)
               l == job.leg
    <3>1. n \in Nat /\ l \in 1 .. n /\ m = 2 * l - 1
      BY <1>1, <2>2, <2>3
    <3> HIDE DEF n, m, l
    <3>2. l \in Nat \ {0} /\ m + 1 = 2 * l
      BY <3>1
    <3> QED BY <3>2 DEF l, m
  <2>5. MaxOut \in Nat /\ 0 \in Int /\ {} \in Traces \cup {{}} /\ TRUE \in BOOLEAN /\ FALSE \in BOOLEAN
    BY ForkAssumption
  <2>6. In \in ForkTokens /\ Out \in ForkTokens
    BY <2>2 DEF In, Out
  <2>7. "balance" \in Ahead \cup Onwards /\ "approve" \in Ahead \cup Onwards /\ "swap" \in {"approve", "swap"}
    BY DEF Onwards
  <2> QED BY <2>1, <2>2, <2>3, <2>4, <2>5, <2>6, <2>7
<1>3. ASSUME NEW out \in Int, NEW frames \in Traces \cup {{}}, anvil' = Swapped(out, frames)
      PROVE  /\ anvil' \in Forks /\ Longer(anvil'.mined, anvil.mined, job.key)
             /\ ActualOutput(anvil.wallet, anvil'.wallet) = out
             /\ LET tx == anvil'.mined[2 * job.leg] IN
                  tx.kind = "swap" /\ tx.leg = job.leg /\ tx.ok /\ tx.in = job.amount /\ tx.out = out
  <2>1. PICK wallet \in [ForkTokens -> Int] :
           /\ Swapped(out, frames) = [wallet |-> wallet, mined |-> Mined("swap", TRUE, out, frames)]
           /\ ActualOutput(anvil.wallet, wallet) = out
    BY <1>1, <1>2, SwappedIs
  <2>2. anvil' = [wallet |-> wallet, mined |-> Mined("swap", TRUE, out, frames)] /\ anvil'.wallet = wallet
    BY <1>3, <2>1
  <2>3. /\ anvil' \in Forks /\ Longer(anvil'.mined, anvil.mined, job.key)
        /\ LET tx == anvil'.mined[Len(anvil.mined) + 1] IN
              /\ tx.leg = job.leg /\ tx.kind = "swap" /\ tx.ok = TRUE
              /\ tx.in = job.amount /\ tx.out = out
    BY <1>1, <1>2, <2>2, MinedGrows
  <2> QED BY <1>2, <2>1, <2>2, <2>3
<1>4. ASSUME job' \in Jobs, job'.at \in Onwards, job'.key = job.key, anvil' \in Forks, UNCHANGED evidence
      PROVE  /\ ForkTypes' /\ (workingCalls = BuiltUpTo(Len(Plan.legs)))' /\ Plan' = Plan
             /\ job'.key \in DOMAIN Plans /\ verdict' = NoVerdict
  <2>1. ForkTypes'
    BY <1>4 DEF ForkInv, ForkTypes
  <2>2. (workingCalls = BuiltUpTo(Len(Plan.legs)))' /\ Plan' = Plan
    BY <1>1, <1>4 DEF BuiltUpTo, Plan
  <2> QED BY <1>1, <1>4, <2>1, <2>2, OnRoute
<1>5. ASSUME NEW out \in 0 .. MaxOut, NEW frames \in Traces, anvil' = Swapped(out, frames), UNCHANGED evidence,
             NEW at \in {"balance", "approve"}, NEW leg \in {job.leg, job.leg + 1}, SwapDone(TRUE, at, leg),
             at = "balance" => leg = job.leg,
             at = "approve" => leg = job.leg + 1 /\ job.leg # Len(Plan.legs)
      PROVE  ForkInv'
  <2>1. /\ anvil' \in Forks /\ Longer(anvil'.mined, anvil.mined, job.key)
        /\ ActualOutput(anvil.wallet, anvil'.wallet) = out /\ out \in Int
        /\ LET tx == anvil'.mined[2 * job.leg] IN
             tx.kind = "swap" /\ tx.leg = job.leg /\ tx.ok /\ tx.in = job.amount /\ tx.out = out
    BY <1>2, <1>3, <1>5
  <2>2. Len(anvil'.mined) = 2 * job.leg /\ 2 * job.leg \in Nat /\ leg \in Nat
    BY <1>2, <2>1 DEF Longer
  <2>3. /\ job' \in Jobs /\ job'.at = at /\ job'.key = job.key /\ job'.leg = leg /\ job'.amount = out
        /\ job'.results = Append(job.results, TRUE) /\ job'.txs = Append(job.txs, 2 * job.leg)
    <3>1. /\ at \in Ahead \cup Onwards /\ TRUE \in BOOLEAN /\ job \in Jobs /\ SwapDone(TRUE, at, leg)
          /\ Len(anvil'.mined) \in Nat
      BY <1>1, <1>2, <1>5, <2>2
    <3>2. ActualOutput(anvil.wallet, anvil'.wallet) \in Int
      BY <2>1
    <3> QED BY <2>1, <2>2, <3>1, <3>2, SwapDoneIs
  <2>4. Executed(job', anvil'.mined, job.leg)
    BY <1>1, <1>2, <2>1, <2>3, OneMoreLeg
  <2>5. job'.at \in Onwards
    BY <1>5, <2>3 DEF Onwards
  <2>6. BetweenLegs'
    <3>1. CASE at = "approve"
      <4>1. job'.leg - 1 = job.leg /\ job'.leg # 1 /\ job'.leg \in 1 .. Len(Plan.legs)
        <5>1. job'.leg = job.leg + 1 /\ job.leg # Len(Plan.legs)
          BY <1>5, <2>3, <3>1
        <5> QED BY <1>2, <5>1
      <4>2. Given(job'.key, anvil'.mined, job'.leg) = out
        BY <2>1, <4>1 DEF Given
      <4> QED BY <1>1, <1>4, <1>5, <2>1, <2>2, <2>3, <2>4, <2>5, <3>1, <4>1, <4>2, OnRoute DEF BetweenLegs
    <3>2. CASE at = "balance"
      BY <2>3, <3>2 DEF BetweenLegs
    <3> QED BY <3>1, <3>2
  <2>7. AfterTheLegs'
    <3>1. Len(job'.results) = job.leg
      BY <2>4 DEF Executed
    <3>2. CASE at = "approve"
      BY <2>3, <3>2 DEF AfterTheLegs
    <3>3. CASE at = "balance"
      <4>1. leg = job.leg /\ job'.leg = job.leg
        BY <1>5, <2>3, <3>3
      <4>2. Plan' = Plan
        BY <1>4, <1>5, <2>1, <2>3, <2>5
      <4> QED BY <1>1, <2>2, <2>3, <2>4, <3>1, <4>1, <4>2 DEF AfterTheLegs
    <3> QED BY <3>2, <3>3
  <2>8. AtTheTrace'
    BY <2>3 DEF AtTheTrace
  <2>9. /\ ForkTypes' /\ (workingCalls = BuiltUpTo(Len(Plan.legs)))' /\ job'.key \in DOMAIN Plans
        /\ verdict' = NoVerdict
    BY <1>4, <1>5, <2>1, <2>3, <2>5
  <2> QED BY <2>5, <2>6, <2>7, <2>8, <2>9, OnwardsHolds
<1>6. CASE /\ anvil' = [anvil EXCEPT !.mined = Mined("swap", FALSE, 0, {})]
           /\ SwapDone(FALSE, "balance", job.leg) /\ UNCHANGED evidence
  <2>1. anvil' = [wallet |-> anvil.wallet, mined |-> Mined("swap", FALSE, 0, {})]
    BY <1>1, <1>6, ForkIs
  <2>2. anvil' \in Forks /\ Longer(anvil'.mined, anvil.mined, job.key)
    BY <1>1, <1>2, <2>1, MinedGrows
  <2>3. Len(anvil'.mined) = 2 * job.leg /\ 2 * job.leg \in Nat /\ job.leg \in Nat
    BY <1>2, <2>2 DEF Longer
  <2>4. /\ job' \in Jobs /\ job'.at = "balance" /\ job'.key = job.key /\ job'.leg = job.leg
        /\ job'.results = Append(job.results, FALSE)
    <3>1. /\ job \in Jobs /\ SwapDone(FALSE, "balance", job.leg) /\ Len(anvil'.mined) \in Nat
          /\ "balance" \in Ahead \cup Onwards /\ FALSE \in BOOLEAN
      BY <1>1, <1>2, <1>6, <2>3
    <3>2. job' = [at |-> "balance", key |-> job.key, leg |-> job.leg, amount |-> 0,
                  results |-> Append(job.results, FALSE), txs |-> Append(job.txs, Len(anvil'.mined))]
      BY <3>1 DEF SwapDone, Jobs
    <3>3. Append(job.results, FALSE) \in Seq(BOOLEAN) /\ Append(job.txs, Len(anvil'.mined)) \in Seq(Nat)
      BY <1>2, <3>1, Appended
    <3>4. job.key \in DOMAIN Plans \cup {NoRoute} /\ 0 \in Int
      BY <1>1
    <3>5. [at |-> "balance", key |-> job.key, leg |-> job.leg, amount |-> 0,
           results |-> Append(job.results, FALSE), txs |-> Append(job.txs, Len(anvil'.mined))] \in Jobs
      BY <2>3, <3>1, <3>3, <3>4 DEF Jobs
    <3> QED BY <3>2, <3>5
  <2>5. Len(job'.results) = job.leg /\ job'.results[job.leg] = FALSE
    <3>1. Len(job.results) = job.leg - 1 /\ (job.leg - 1) + 1 = job.leg
      BY <1>1, <1>2 DEF Executed
    <3> QED BY <1>2, <2>4, <3>1, Appended
  <2>6. job'.at \in Onwards
    BY <2>4 DEF Onwards
  <2>9. /\ ForkTypes' /\ (workingCalls = BuiltUpTo(Len(Plan.legs)))' /\ job'.key \in DOMAIN Plans
        /\ verdict' = NoVerdict /\ Plan' = Plan
    BY <1>4, <1>6, <2>2, <2>4, <2>6
  <2>7. AfterTheLegs'
    <3>1. job'.results[job'.leg] = FALSE /\ Len(job'.results) = job'.leg
      BY <2>4, <2>5
    <3> QED BY <1>1, <2>3, <2>4, <2>9, <3>1 DEF AfterTheLegs
  <2>8. BetweenLegs' /\ AtTheTrace'
    BY <2>4 DEF BetweenLegs, AtTheTrace
  <2> QED BY <2>6, <2>7, <2>8, <2>9, OnwardsHolds
<1>7. CASE /\ anvil' \in {anvil} \cup {Swapped(out, {}) : out \in 0..MaxOut}
           /\ Reject /\ Record(Failed)
  <2>1. \A out \in 0 .. MaxOut : out \in Int
    BY <1>2
  <2>2. anvil' \in Forks
    BY <1>1, <1>2, <1>3, <1>7, <2>1
  <2> QED BY <1>1, <1>7, <2>2, OnRoute, FailedIs, RejectKeeps DEF ForkInv
<1>8. CASE \E out \in 0..MaxOut, frames \in Traces :
            /\ anvil' = Swapped(out, frames)
            /\ IF out = 0 \/ job.leg = Len(Plan.legs) THEN SwapDone(TRUE, "balance", job.leg)
               ELSE SwapDone(TRUE, "approve", job.leg + 1)
            /\ UNCHANGED evidence
  BY <1>5, <1>8
<1> QED BY <1>6, <1>7, <1>8 DEF SwapLeg

LEMMA BalanceKeeps ==
  ASSUME ForkInv, FinalBalance
  PROVE  ForkInv'
<1>1. /\ job.at = "balance" /\ job.at \in Ahead \cup Onwards /\ verdict' = verdict
      /\ job \in Jobs /\ anvil \in Forks /\ anvil' = anvil /\ job.key \in DOMAIN Plans
      /\ workingCalls = BuiltUpTo(Len(Plan.legs)) /\ workingCalls' = workingCalls
      /\ job.leg \in DOMAIN Plan.legs /\ Len(anvil.mined) = 2 * job.leg /\ Len(job.results) = job.leg
      /\ job.results[job.leg] => Executed(job, anvil.mined, job.leg)
      /\ DOMAIN evidence[job.key] = DOMAIN Blank
  BY DEF FinalBalance, Onwards, ForkInv, ForkTypes, AfterTheLegs
<1> DEFINE gross == SignedDelta(Plan.input, anvil.wallet[Start])
           record == [evidence[job.key] EXCEPT !.results = job.results, !.txs = job.txs,
                                               !.gross = gross, !.loss = (gross <= 0)]
<1>2. DOMAIN record = DOMAIN Blank /\ record.txs = job.txs
  BY <1>1 DEF Blank
<1>3. Start \in ForkTokens /\ anvil.wallet[Start] \in Int /\ Plan.input \in Nat /\ 1 \in DOMAIN Plan.legs
  BY <1>1, OnRoute DEF Start, Forks
<1>4. gross \in Int /\ anvil.wallet[Start] = Plan.input + gross
  BY <1>3 DEF SignedDelta
<1> HIDE DEF record, gross
<1>5. CASE Reject /\ (Record(record) \/ Record(Failed))
  BY <1>1, <1>2, <1>5, OnRoute, FailedIs, RejectKeeps DEF ForkInv
<1>6. CASE Record(record) /\ AllPass /\ ~(gross <= 0) /\ GoOn("trace", 0, gross)
  <2>1. "trace" \in Ahead \cup Onwards /\ 0 \in Nat
    BY DEF Onwards
  <2>2. /\ job' \in Jobs /\ job'.at = "trace" /\ job'.key = job.key /\ job'.amount = gross
        /\ job'.results = job.results /\ job'.txs = job.txs
    BY <1>1, <1>4, <1>6, <2>1, GoOnIs
  <2>3. ForkTypes' /\ evidence'[job.key] = record
    BY <1>1, <1>2, <1>6, <2>2, RecordKeepsTypes DEF ForkInv, ForkTypes
  <2>4. (workingCalls = BuiltUpTo(Len(Plan.legs)))' /\ Plan' = Plan /\ Start' = Start
    BY <1>1, <2>2 DEF BuiltUpTo, Plan, Start
  <2>5. job.leg = Len(Plan.legs) /\ Executed(job, anvil.mined, Len(Plan.legs))
    <3>1. job.leg \in DOMAIN job.results
      <4>1. job.results \in Seq(BOOLEAN) /\ job.leg \in 1 .. Len(Plan.legs) /\ Len(Plan.legs) \in Nat
        BY <1>1, OnRoute DEF Jobs
      <4> QED BY <1>1, <4>1, LenProperties
    <3> QED BY <1>1, <1>6, <3>1 DEF AllPass
  <2>6. Executed(job', anvil'.mined, Len(Plan.legs))
    BY <1>1, <2>2, <2>5 DEF Executed
  <2>7. AtTheTrace'
    BY <1>1, <1>2, <1>4, <1>6, <2>2, <2>3, <2>4, <2>5, <2>6 DEF AtTheTrace
  <2>8. BetweenLegs' /\ AfterTheLegs'
    BY <2>2 DEF BetweenLegs, AfterTheLegs
  <2>9. job'.at \in Onwards /\ job'.key \in DOMAIN Plans /\ verdict' = NoVerdict
    BY <1>1, <2>2, OnRoute DEF Onwards
  <2> QED BY <2>2, <2>3, <2>4, <2>7, <2>8, <2>9, OnwardsHolds
<1> QED BY <1>5, <1>6 DEF FinalBalance, record, gross

LEMMA TraceKeeps ==
  ASSUME ForkInv, ValidateTrace
  PROVE  ForkInv'
<1>1. /\ job.at = "trace" /\ job.at \in Ahead \cup Onwards
      /\ job \in Jobs /\ anvil \in Forks /\ anvil' = anvil /\ evidence' = evidence /\ job.key \in DOMAIN Plans
      /\ workingCalls = BuiltUpTo(Len(Plan.legs)) /\ workingCalls' = workingCalls
      /\ Executed(job, anvil.mined, Len(Plan.legs)) /\ Len(anvil.mined) = 2 * Len(Plan.legs)
      /\ evidence[job.key].txs = job.txs
      /\ job.amount > 0 /\ anvil.wallet[Start] = Plan.input + job.amount /\ Reject
  BY DEF ValidateTrace, Onwards, ForkInv, ForkTypes, AtTheTrace
<1>2. job' \in Jobs /\ job'.at = "resting"
  BY <1>1, RejectIs
<1>3. ForkTypes'
  BY <1>1, <1>2 DEF ForkInv, ForkTypes
<1>4. CASE verdict' = NoVerdict
  BY <1>2, <1>3, <1>4, ForkRests
<1>5. CASE /\ \A i \in DOMAIN evidence[job.key].txs : CleanTrace(FramesOf(evidence[job.key].txs[i]), Plan)
           /\ verdict' = [key |-> job.key, delta |-> job.amount]
  <2>1. /\ verdict'.key = job.key /\ verdict'.delta = job.amount /\ Plan = Plans[job.key]
        /\ DOMAIN Plan.legs = 1 .. Len(Plan.legs)
    BY <1>1, <1>5, OnRoute
  <2>2. ASSUME NEW i \in DOMAIN Plan.legs
        PROVE  /\ anvil.mined[2 * i - 1].kind = "approve" /\ anvil.mined[2 * i].kind = "swap"
               /\ anvil.mined[2 * i].leg = i /\ anvil.mined[2 * i].ok
               /\ CleanTrace(anvil.mined[2 * i].frames, Plan)
               /\ anvil.mined[2 * i].in = IF i = 1 THEN Plan.input ELSE anvil.mined[2 * (i - 1)].out
    <3>1. LegDone(job.key, anvil.mined, i) /\ job.txs[i] = 2 * i /\ Len(job.txs) = Len(Plan.legs)
      BY <1>1, <2>1 DEF Executed
    <3>2. i \in DOMAIN job.txs
      <4>1. job.txs \in Seq(Nat)
        BY <1>1 DEF Jobs
      <4> QED BY <2>1, <3>1, <4>1, LenProperties
    <3>3. CleanTrace(anvil.mined[2 * i].frames, Plan)
      BY <1>1, <1>5, <3>1, <3>2 DEF FramesOf
    <3> QED BY <2>1, <3>1, <3>3 DEF LegDone, Given
  <2>3. \A i \in DOMAIN anvil.mined : anvil.mined[i].key = job.key
    BY <1>1 DEF Executed, OnlyOf
  <2>4. \A i \in DOMAIN workingCalls : workingCalls[i].key = job.key
    BY <1>1 DEF BuiltUpTo
  <2>5. ForkEvidenceStandsAlone'
    BY <1>1, <2>1, <2>2, <2>3, <2>4 DEF ForkEvidenceStandsAlone, Start
  <2>6. job'.at \notin Ahead \cup Onwards
    BY <1>2 DEF Ahead, Onwards
  <2> QED
    BY <1>2, <1>3, <2>5, <2>6 DEF ForkInv, BeforeTheFork, BetweenLegs, AfterTheLegs, AtTheTrace, Ahead, Onwards
<1> QED BY <1>4, <1>5 DEF ValidateTrace

LEMMA ForkStep == ForkInv /\ [ForkNext]_forkVars => ForkInv'
<1> SUFFICES ASSUME ForkInv, [ForkNext]_forkVars PROVE ForkInv'
  OBVIOUS
<1>1. CASE ForkNext
  BY <1>1, WaitKeeps, ExecuteKeeps, EconomicsKeeps, BuildKeeps, ReadonlyKeeps, FundKeeps, ApproveKeeps,
     SwapKeeps, BalanceKeeps, TraceKeeps DEF ForkNext
<1>2. CASE UNCHANGED forkVars
  <2>1. ForkEvidenceStandsAlone'
    BY <1>2, EvidenceStays DEF forkVars, ForkInv
  <2> QED
    BY <1>2, <2>1 DEF forkVars, ForkInv, ForkTypes, BeforeTheFork, BetweenLegs, AfterTheLegs, AtTheTrace,
       BuiltUpTo, Plan, In, Out, Start
<1> QED BY <1>1, <1>2

(* The evidence of a route on the fork is of that route alone, for any     *)
(* plans, candidates, traces and outcomes of the calls, and whether the    *)
(* fork was reset before it or not (run_preflight, verify).                *)
THEOREM ForkEvidenceIsItsOwn == ForkSpec => []ForkEvidenceStandsAlone
<1>1. ForkInv => ForkEvidenceStandsAlone
  BY DEF ForkInv
<1> QED BY <1>1, ForkStarts, ForkStep, PTL DEF ForkSpec

-------------------------------------------------------------------------------
(* Replay: what the rows and the summaries count.                          *)

(* How many rows are of a kind is the number of their places.              *)
RowFits(r) ==
  /\ {r.simulated, r.ok, r.archive, r.quoteOnly} \subseteq BOOLEAN
  /\ r.ok => r.simulated
  /\ r.simulated => ~r.archive /\ ~r.quoteOnly

LEMMA PlacesOf ==
  ASSUME NEW A, NEW rows \in Seq(A), NEW K, K \subseteq DOMAIN rows
  PROVE  /\ IsFiniteSet(K) /\ Cardinality(K) \in Nat /\ Cardinality(K) <= Len(rows)
         /\ DOMAIN rows = 1 .. Len(rows) /\ Len(rows) \in Nat
<1>1. DOMAIN rows = 1 .. Len(rows) /\ Len(rows) \in Nat
  BY LenProperties
<1>2. IsFiniteSet(1 .. Len(rows)) /\ Cardinality(1 .. Len(rows)) = Len(rows)
  <2>1. /\ IsFiniteSet(1 .. Len(rows))
        /\ Cardinality(1 .. Len(rows)) = IF 1 > Len(rows) THEN 0 ELSE Len(rows) - 1 + 1
    BY <1>1, FS_Interval
  <2> QED BY <1>1, <2>1
<1>3. K \subseteq 1 .. Len(rows)
  BY <1>1
<1>4. IsFiniteSet(K) /\ Cardinality(K) <= Cardinality(1 .. Len(rows))
  BY <1>2, <1>3, FS_Subset
<1> QED BY <1>1, <1>2, <1>4, FS_CardinalityType

LEMMA ApartAddUp ==
  ASSUME NEW S, NEW T, IsFiniteSet(S), IsFiniteSet(T), S \cap T = {}
  PROVE  /\ Cardinality(S \cup T) = Cardinality(S) + Cardinality(T)
         /\ Cardinality(S) \in Nat /\ Cardinality(T) \in Nat
<1>1. Cardinality(S \cup T) = Cardinality(S) + Cardinality(T) - Cardinality(S \cap T)
  BY FS_Union
<1>2. Cardinality(S \cap T) = 0
  BY FS_EmptySet
<1> QED BY <1>1, <1>2, FS_CardinalityType

(* The groups of a summary share the rows out.                             *)
LEMMA SummaryAddsUp ==
  ASSUME NEW A, NEW rows \in Seq(A), \A r \in A : RowFits(r), NEW w, NEW full
  PROVE  LET s == SummaryOf(rows, w, full) IN
         /\ s.n = Len(rows) /\ s.rows = rows /\ s.calls = Simulations(rows)
         /\ s.from = w[1] /\ s.to = w[2] /\ s.range = w[2] - w[1] + 1 /\ s.full = full
         /\ s.sameCalls = s.calls /\ s.calls = s.oks + s.reverts /\ s.calls + s.archived <= s.n
<1> DEFINE s == SummaryOf(rows, w, full)
           C == {i \in DOMAIN rows : rows[i].simulated}
           O == {i \in DOMAIN rows : rows[i].ok}
           V == {i \in DOMAIN rows : rows[i].simulated /\ ~rows[i].ok}
           X == {i \in DOMAIN rows : rows[i].archive}
           G == {i \in DOMAIN rows : rows[i].simulated /\ ~rows[i].quoteOnly}
<1>1. /\ s.n = Len(rows) /\ s.rows = rows /\ s.calls = Simulations(rows)
      /\ s.from = w[1] /\ s.to = w[2] /\ s.range = w[2] - w[1] + 1 /\ s.full = full
  BY DEF SummaryOf
<1>2. /\ s.calls = Cardinality(C) /\ s.oks = Cardinality(O) /\ s.reverts = Cardinality(V)
      /\ s.archived = Cardinality(X) /\ s.sameCalls = Cardinality(G)
  BY DEF SummaryOf, Simulations, HowMany, Quantify
<1> HIDE DEF s
<1>3. \A i \in DOMAIN rows : RowFits(rows[i])
  BY ElementOfSeq, LenProperties
<1>4. G = C /\ C = O \cup V /\ O \cap V = {} /\ C \cap X = {} /\ C \cup X \subseteq DOMAIN rows
  BY <1>3 DEF RowFits
<1> HIDE DEF C, O, V, X, G
<1>5. /\ IsFiniteSet(C) /\ IsFiniteSet(O) /\ IsFiniteSet(V) /\ IsFiniteSet(X)
      /\ Cardinality(C \cup X) <= Len(rows)
  BY <1>4, PlacesOf
<1>6. Cardinality(C) = Cardinality(O) + Cardinality(V)
  BY <1>4, <1>5, ApartAddUp
<1>7. Cardinality(C \cup X) = Cardinality(C) + Cardinality(X)
  BY <1>4, <1>5, ApartAddUp
<1>8. /\ s.sameCalls = s.calls /\ s.calls = s.oks + s.reverts
      /\ s.calls + s.archived <= Len(rows)
  BY <1>2, <1>4, <1>5, <1>6, <1>7
<1> QED BY <1>1, <1>8 DEF s

LEMMA SimulationsConcat ==
  ASSUME NEW A, NEW a \in Seq(A), NEW b \in Seq(A)
  PROVE  /\ Simulations(a \o b) = Simulations(a) + Simulations(b)
         /\ Simulations(a) \in Nat /\ Len(a \o b) = Len(a) + Len(b) /\ a \o b \in Seq(A)
<1> DEFINE K == {i \in DOMAIN a : a[i].simulated}
           M == {i \in DOMAIN b : b[i].simulated}
           W == {i \in DOMAIN (a \o b) : (a \o b)[i].simulated}
           R == {i \in DOMAIN (a \o b) \ DOMAIN a : (a \o b)[i].simulated}
           f == [i \in M |-> i + Len(a)]
<1>1. /\ Simulations(a \o b) = Cardinality(W) /\ Simulations(a) = Cardinality(K)
      /\ Simulations(b) = Cardinality(M)
  BY DEF Simulations, HowMany, Quantify
<1>2. a \o b \in Seq(A) /\ Len(a \o b) = Len(a) + Len(b)
  BY ConcatProperties
<1>3. /\ Len(a) \in Nat /\ Len(b) \in Nat /\ DOMAIN a = 1 .. Len(a) /\ DOMAIN b = 1 .. Len(b)
      /\ DOMAIN (a \o b) = 1 .. Len(a) + Len(b)
      /\ \A i \in 1 .. Len(a) : (a \o b)[i] = a[i]
      /\ \A i \in 1 .. Len(b) : (a \o b)[i + Len(a)] = b[i]
  <2>1. /\ Len(a) \in Nat /\ Len(b) \in Nat /\ DOMAIN a = 1 .. Len(a) /\ DOMAIN b = 1 .. Len(b)
        /\ DOMAIN (a \o b) = 1 .. Len(a) + Len(b)
    BY <1>2, LenProperties
  <2>2. \A i \in 1 .. Len(a) + Len(b) : (a \o b)[i] = IF i <= Len(a) THEN a[i] ELSE b[i - Len(a)]
    BY ConcatProperties
  <2> QED BY <2>1, <2>2
<1>4. /\ IsFiniteSet(K) /\ IsFiniteSet(M) /\ IsFiniteSet(R)
      /\ Cardinality(K) \in Nat /\ Cardinality(R) \in Nat
  <2>1. K \subseteq DOMAIN a /\ M \subseteq DOMAIN b /\ R \subseteq DOMAIN (a \o b)
    OBVIOUS
  <2> HIDE DEF K, M, R
  <2> QED BY <2>1, <1>2, PlacesOf
<1>5. W = K \cup R /\ K \cap R = {}
  <2>1. \A i \in DOMAIN a : i \in DOMAIN (a \o b) /\ (a \o b)[i] = a[i]
    BY <1>3
  <2> QED BY <2>1
<1>6. Cardinality(W) = Cardinality(K) + Cardinality(R)
  <2> HIDE DEF K, R, W
  <2> QED BY <1>4, <1>5, ApartAddUp
<1>7. f \in Bijection(M, R)
  <2>1. \A i \in M : f[i] \in R
    BY <1>3
  <2>2. \A i, j \in M : f[i] = f[j] => i = j
    BY <1>3
  <2>3. \A k \in R : \E i \in M : f[i] = k
    <3> SUFFICES ASSUME NEW k \in R PROVE \E i \in M : f[i] = k
      OBVIOUS
    <3>1. k - Len(a) \in DOMAIN b /\ (k - Len(a)) + Len(a) = k
      BY <1>3
    <3>2. k - Len(a) \in M
      BY <1>3, <3>1
    <3> QED BY <3>1, <3>2
  <2> HIDE DEF M, R
  <2> QED BY <2>1, <2>2, <2>3 DEF Bijection, Injection, Surjection, IsInjective
<1>8. Cardinality(R) = Cardinality(M)
  <2> HIDE DEF M, R, f
  <2> QED BY <1>4, <1>7, FS_Bijection DEF ExistsBijection
<1> QED BY <1>1, <1>2, <1>4, <1>6, <1>8

LEMMA SimulationsNone == Simulations(<<>>) = 0
<1>1. Simulations(<<>>) = Cardinality({i \in DOMAIN <<>> : <<>>[i].simulated})
  BY DEF Simulations, HowMany, Quantify
<1>2. {i \in DOMAIN <<>> : <<>>[i].simulated} = {}
  BY EmptySeq
<1> QED BY <1>1, <1>2, FS_EmptySet

LEMMA SimulationsAppend ==
  ASSUME NEW A, NEW rows \in Seq(A), NEW row \in A, row.simulated \in BOOLEAN
  PROVE  Simulations(Append(rows, row)) = Simulations(rows) + IF row.simulated THEN 1 ELSE 0
<1> DEFINE one == <<row>>
           K == {i \in DOMAIN one : one[i].simulated}
<1>1. one \in Seq(A) /\ Append(rows, row) = rows \o one /\ DOMAIN one = {1} /\ one[1] = row
  OBVIOUS
<1>2. Simulations(one) = Cardinality(K)
  BY DEF Simulations, HowMany, Quantify
<1>3. Simulations(one) = IF row.simulated THEN 1 ELSE 0
  <2>1. CASE row.simulated
    <3>1. K = {1}
      BY <1>1, <2>1
    <3>2. Cardinality({1}) = 1
      BY FS_Singleton
    <3> QED BY <1>2, <2>1, <3>1, <3>2
  <2>2. CASE ~row.simulated
    <3>1. K = {}
      BY <1>1, <2>2
    <3> QED BY <1>2, <2>2, <3>1, FS_EmptySet
  <2> QED BY <2>1, <2>2
<1> HIDE DEF one
<1>4. Simulations(rows \o one) = Simulations(rows) + Simulations(one)
  BY <1>1, SimulationsConcat
<1> QED BY <1>1, <1>3, <1>4

-------------------------------------------------------------------------------
(* Sums over the windows.                                                  *)
LEMMA UptoGrows ==
  ASSUME NEW n \in Nat, NEW f, \A i \in 1 .. n + 1 : f[i] \in Int
  PROVE  SumOf(f, 1 .. n + 1) = SumOf(f, 1 .. n) + f[n + 1] /\ SumOf(f, 1 .. n) \in Int
<1>1. IsFiniteSet(1 .. n)
  BY FS_Interval
<1>2. 1 .. n + 1 = (1 .. n) \cup {n + 1} /\ n + 1 \notin 1 .. n /\ \A i \in 1 .. n : f[i] \in Int
  OBVIOUS
<1>3. SumOf(f, (1 .. n) \cup {n + 1}) = f[n + 1] + SumOf(f, 1 .. n)
  BY <1>1, <1>2, SumWith
<1>4. SumOf(f, 1 .. n) \in Int
  BY <1>1, <1>2, SumType
<1>5. SumOf(f, 1 .. n + 1) = SumOf(f, (1 .. n) \cup {n + 1})
  BY <1>2
<1>6. f[n + 1] \in Int
  OBVIOUS
<1> QED BY <1>3, <1>4, <1>5, <1>6

LEMMA SumOverNone ==
  ASSUME NEW f, DOMAIN f = {}
  PROVE  SumOver(f) = 0
  BY FoldIsSum, SumOfNone DEF SumOver

LEMMA SumOverAppend ==
  ASSUME NEW n \in Nat, NEW f, NEW g, DOMAIN f = 1 .. n, DOMAIN g = 1 .. n + 1, g[n + 1] \in Int,
         \A i \in 1 .. n : f[i] \in Int /\ g[i] = f[i]
  PROVE  SumOver(g) = SumOver(f) + g[n + 1] /\ SumOver(f) \in Int
<1>1. SumOver(g) = SumOf(g, 1 .. n + 1) /\ SumOver(f) = SumOf(f, 1 .. n)
  BY FoldIsSum DEF SumOver
<1>2. \A i \in 1 .. n + 1 : g[i] \in Int
  OBVIOUS
<1>3. SumOf(g, 1 .. n + 1) = SumOf(g, 1 .. n) + g[n + 1] /\ SumOf(g, 1 .. n) \in Int
  BY <1>2, UptoGrows
<1>4. IsFiniteSet(1 .. n)
  BY FS_Interval
<1>5. SumOf(g, 1 .. n) = SumOf(f, 1 .. n)
  BY <1>4, SumSame
<1> QED BY <1>1, <1>3, <1>5

(* What a summary holds of its rows.                                       *)
SummaryFits(s, A) ==
  /\ s.rows \in Seq(A) /\ s.n = Len(s.rows) /\ s.calls = Simulations(s.rows)
  /\ s.range \in Int /\ Complete(s)

LEMMA AggregateFits ==
  ASSUME NEW A, \A r \in A : RowFits(r), NEW B, NEW sums \in Seq(B), sums # <<>>,
         \A i \in DOMAIN sums : SummaryFits(sums[i], A)
  PROVE  /\ Aggregate(sums).calls = SumOver([i \in DOMAIN sums |-> sums[i].calls])
         /\ Complete(Aggregate(sums))
<1> DEFINE n == Len(sums)
           lists == [i \in DOMAIN sums |-> sums[i].rows]
           c == [i \in DOMAIN sums |-> sums[i].calls]
           l == [i \in DOMAIN sums |-> Len(sums[i].rows)]
           g == [i \in DOMAIN sums |-> sums[i].range]
           all == FlattenSeq(lists)
           full == \A i \in DOMAIN sums : sums[i].full
<1>1. n \in Nat \ {0} /\ DOMAIN sums = 1 .. n
  BY EmptySeq, LenProperties
<1>2. lists \in Seq(Seq(A)) /\ Len(lists) = n /\ lists # <<>> /\ DOMAIN lists = 1 .. n
  BY <1>1 DEF SummaryFits
<1>3. PICK H \in [0 .. n -> Seq(A)] :
        /\ H[0] = <<>> /\ all = H[n]
        /\ \A i \in 1 .. n : H[i] = H[i - 1] \o lists[i]
  <2> HIDE DEF lists, n
  <2> QED BY <1>2, FlattenIs
<1>4. \A i \in 1 .. n : /\ lists[i] \in Seq(A) /\ c[i] = Simulations(lists[i]) /\ c[i] \in Int
                        /\ l[i] = Len(lists[i]) /\ l[i] \in Int
  <2> SUFFICES ASSUME NEW i \in 1 .. n
               PROVE  /\ lists[i] \in Seq(A) /\ c[i] = Simulations(lists[i]) /\ c[i] \in Int
                      /\ l[i] = Len(lists[i]) /\ l[i] \in Int
    OBVIOUS
  <2>1. /\ lists[i] \in Seq(A) /\ c[i] = Simulations(lists[i]) /\ l[i] = Len(lists[i])
    BY <1>1 DEF SummaryFits
  <2>2. Simulations(lists[i]) \in Nat
    BY <2>1, SimulationsConcat
  <2>3. Len(lists[i]) \in Nat
    BY <2>1, LenProperties
  <2> QED BY <2>1, <2>2, <2>3
<1> DEFINE I == {m \in Nat : m <= n => /\ Simulations(H[m]) = SumOf(c, 1 .. m)
                                       /\ Len(H[m]) = SumOf(l, 1 .. m)}
<1>5. 0 \in I
  <2>1. 1 .. 0 = {} /\ Len(<<>>) = 0
    OBVIOUS
  <2> HIDE DEF c, l
  <2>2. SumOf(c, 1 .. 0) = 0 /\ SumOf(l, 1 .. 0) = 0
    BY <2>1, SumOfNone
  <2> QED BY <1>3, <2>1, <2>2, SimulationsNone
<1>6. ASSUME NEW m \in Nat, m \in I PROVE m + 1 \in I
  <2> HIDE DEF c, l, lists, n
  <2> SUFFICES ASSUME m + 1 <= n
               PROVE  /\ Simulations(H[m + 1]) = SumOf(c, 1 .. m + 1)
                      /\ Len(H[m + 1]) = SumOf(l, 1 .. m + 1)
    OBVIOUS
  <2>1. m + 1 \in 1 .. n /\ (m + 1) - 1 = m /\ m <= n /\ m \in 0 .. n
    BY <1>1
  <2>2. Simulations(H[m]) = SumOf(c, 1 .. m) /\ Len(H[m]) = SumOf(l, 1 .. m)
    BY <1>6, <2>1
  <2>3. H[m + 1] = H[m] \o lists[m + 1] /\ H[m] \in Seq(A) /\ lists[m + 1] \in Seq(A)
    BY <1>3, <1>4, <2>1
  <2>4. /\ Simulations(H[m + 1]) = Simulations(H[m]) + c[m + 1]
        /\ Len(H[m + 1]) = Len(H[m]) + l[m + 1]
    BY <1>4, <2>1, <2>3, SimulationsConcat
  <2>5. \A i \in 1 .. m + 1 : c[i] \in Int /\ l[i] \in Int
    BY <1>1, <1>4, <2>1
  <2>6. SumOf(c, 1 .. m + 1) = SumOf(c, 1 .. m) + c[m + 1]
    BY <2>5, UptoGrows
  <2>7. SumOf(l, 1 .. m + 1) = SumOf(l, 1 .. m) + l[m + 1]
    BY <2>5, UptoGrows
  <2> QED BY <2>2, <2>4, <2>6, <2>7
<1>7. n \in I
  <2> HIDE DEF I, n
  <2> QED BY <1>1, <1>5, <1>6, SetInduction
<1>8. Simulations(all) = SumOf(c, 1 .. n) /\ Len(all) = SumOf(l, 1 .. n)
  <2> HIDE DEF c, l, all, lists
  <2> QED BY <1>1, <1>3, <1>7
<1>9. SumOver(c) = SumOf(c, 1 .. n) /\ SumOver(g) = SumOf(g, 1 .. n)
  <2>1. DOMAIN c = 1 .. n /\ DOMAIN g = 1 .. n
    BY <1>1
  <2> HIDE DEF c, g, n
  <2> QED BY <2>1, FoldIsSum DEF SumOver
<1>10. /\ Aggregate(sums).calls = Simulations(all) /\ Aggregate(sums).n = Len(all)
       /\ Aggregate(sums).full = full /\ Aggregate(sums).range = SumOver(g)
  BY DEF Aggregate, SummaryOf
<1>11. full <=> Step <= 1
  BY <1>1 DEF SummaryFits, Complete
<1>12. ASSUME full PROVE SumOf(g, 1 .. n) = SumOf(l, 1 .. n)
  <2>1. \A i \in 1 .. n : l[i] \in Int /\ g[i] = l[i]
    BY <1>1, <1>4, <1>12 DEF SummaryFits, Complete
  <2>2. IsFiniteSet(1 .. n)
    BY <1>1, FS_Interval
  <2> HIDE DEF l, g, n
  <2> QED BY <2>1, <2>2, SumSame
<1> HIDE DEF full, all, c, g, l
<1>13. Complete(Aggregate(sums))
  BY <1>8, <1>9, <1>10, <1>11, <1>12 DEF Complete
<1> QED BY <1>8, <1>9, <1>10, <1>13 DEF c

-------------------------------------------------------------------------------
(* The windows, and the blocks of each.                                    *)
BlockRange == {w \in Nat \X Nat : w[1] <= w[2]}

LEMMA OrderedFits ==
  ASSUME NEW x \in Nat, NEW y \in Nat
  PROVE  Ordered(x, y) \in BlockRange
  BY DEF Ordered, BlockRange

LEMMA HasLatest ==
  ASSUME NEW m \in Nat, NEW S \in SUBSET (0 .. m), S # {}
  PROVE  Max(S) \in S
<1> DEFINE T == {k \in Nat : m - k \in S}
<1>1. T \subseteq Nat /\ T # {}
  <2>1. PICK x \in S : TRUE
    OBVIOUS
  <2>2. m - x \in Nat /\ m - (m - x) = x
    OBVIOUS
  <2> QED BY <2>1, <2>2
<1>2. PICK k \in T : \A y \in T : <<y, k>> \notin Smaller
  <2> HIDE DEF T
  <2> QED BY <1>1, SmallerIsWellFounded, WFMin
<1>3. m - k \in S
  OBVIOUS
<1>4. ASSUME NEW x \in S PROVE m - k >= x
  <2>1. m - x \in T
    OBVIOUS
  <2>2. ~(m - x < k)
    BY <1>2, <2>1 DEF Smaller
  <2> QED BY <2>2
<1> QED BY <1>3, <1>4 DEF Max

LEMMA SessionFits == Session \in BlockRange
<1> DEFINE T == {d \in 0 .. (LatestTime \div 48 - 1) : Weekday(d) \in 1 .. 5}
<1>1. LatestTime \in Nat /\ LatestBlock \in Nat /\ BlocksPerTick \in Nat /\ LatestTime >= 48
  BY ReplayAssumption
<1>2. LatestTime \div 48 - 1 \in Nat
  BY <1>1
<1>3. Weekday(0) \in 1 .. 5
  BY DEF Weekday
<1>4. 0 \in T /\ T \in SUBSET (0 .. (LatestTime \div 48 - 1))
  BY <1>2, <1>3
<1>5. SessionDay \in Nat
  <2>1. SessionDay = Max(T)
    BY DEF SessionDay
  <2>2. \A x \in T : x \in Nat
    OBVIOUS
  <2> HIDE DEF T
  <2>3. Max(T) \in T
    BY <1>2, <1>4, HasLatest
  <2> QED BY <2>1, <2>2, <2>3
<1>6. ASSUME NEW time \in Int PROVE BlockAt(time) \in Nat
  <2> DEFINE z == LatestBlock - (LatestTime - time) * BlocksPerTick
  <2>1. z \in Int
    BY <1>1
  <2>2. BlockAt(time) = Max({1, z})
    BY DEF BlockAt
  <2> HIDE DEF z
  <2>3. \E x \in {1, z} : \A y \in {1, z} : x >= y
    <3>1. CASE z >= 1
      BY <2>1, <3>1
    <3>2. CASE z < 1
      BY <2>1, <3>2
    <3> QED BY <2>1, <3>1, <3>2
  <2>4. Max({1, z}) \in {1, z} /\ \A y \in {1, z} : Max({1, z}) >= y
    BY <2>3 DEF Max
  <2> QED BY <2>1, <2>2, <2>4
<1>7. SessionDay * 48 + 29 \in Int /\ SessionDay * 48 + 35 \in Int
  BY <1>5
<1>8. BlockAt(SessionDay * 48 + 29) \in Nat /\ BlockAt(SessionDay * 48 + 35) \in Nat
  BY <1>6, <1>7
<1> QED BY <1>8, OrderedFits DEF Session

LEMMA WindowsFit ==
  ASSUME NEW c \in Configs
  PROVE  ResolveWindows(c) \in Seq(BlockRange)
<1>1. c.windows \in Seq(Nat \X Nat) /\ c.from \in Nat /\ c.to \in Nat
  BY ReplayAssumption
<1>2. CASE c.windows # <<>>
  <2> DEFINE n == Len(c.windows)
             lists == [i \in DOMAIN c.windows |->
                         IF c.windows[i] = <<0, 0>> THEN <<>>
                         ELSE <<Ordered(c.windows[i][1], c.windows[i][2])>>]
  <2>1. ResolveWindows(c) = FlattenSeq(lists)
    BY <1>2 DEF ResolveWindows
  <2>2. n \in Nat \ {0} /\ DOMAIN c.windows = 1 .. n
    BY <1>1, <1>2, EmptySeq, LenProperties
  <2>3. ASSUME NEW i \in 1 .. n PROVE lists[i] \in Seq(BlockRange)
    <3>1. c.windows[i] \in Nat \X Nat
      BY <1>1, <2>2, ElementOfSeq
    <3>2. Ordered(c.windows[i][1], c.windows[i][2]) \in BlockRange
      BY <3>1, OrderedFits
    <3> QED BY <2>2, <3>2
  <2>4. lists \in Seq(Seq(BlockRange)) /\ lists # <<>>
    <3>1. DOMAIN lists = 1 .. n /\ lists = [i \in 1 .. n |-> lists[i]]
      BY <2>2
    <3> HIDE DEF lists, n
    <3>2. lists \in [1 .. n -> Seq(BlockRange)]
      BY <2>3, <3>1
    <3>3. lists \in Seq(Seq(BlockRange))
      BY <2>2, <3>2
    <3>4. 1 \in DOMAIN lists
      BY <2>2, <3>1
    <3> QED BY <3>3, <3>4, EmptySeq
  <2> HIDE DEF lists
  <2>5. FlattenSeq(lists) \in Seq(BlockRange)
    BY <2>4, FlattenPlaces
  <2> QED BY <2>1, <2>5
<1>3. CASE c.windows = <<>>
  <2>1. Ordered(c.from, c.to) \in BlockRange /\ Session \in BlockRange
    BY <1>1, OrderedFits, SessionFits
  <2> QED BY <1>3, <2>1 DEF ResolveWindows
<1> QED BY <1>2, <1>3

LEMMA ListFits ==
  ASSUME NEW w \in BlockRange
  PROVE  /\ SampleBlockList(w) \in Seq(Nat) /\ Len(SampleBlockList(w)) \in Nat
         /\ DOMAIN SampleBlockList(w) = 1 .. Len(SampleBlockList(w))
         /\ w[2] - w[1] + 1 \in Nat
         /\ Step <= 1 => Len(SampleBlockList(w)) = w[2] - w[1] + 1
<1> DEFINE d == w[2] - w[1]
           m == d \div Stride + 1
<1>1. d \in Nat /\ w[1] \in Nat
  BY DEF BlockRange
<1>2. Stride \in Nat /\ Stride >= 1 /\ (Step <= 1 => Stride = 1)
  BY ReplayAssumption DEF Stride
<1> HIDE DEF d
<1>3. m \in Nat /\ (Step <= 1 => m = d + 1)
  BY <1>1, <1>2
<1>4. SampleBlockList(w) = [i \in 1 .. m |-> w[1] + (i - 1) * Stride]
  BY DEF SampleBlockList, d
<1> HIDE DEF m
<1>5. \A i \in 1 .. m : w[1] + (i - 1) * Stride \in Nat
  BY <1>1, <1>2, <1>3
<1>6. SampleBlockList(w) \in [1 .. m -> Nat]
  BY <1>4, <1>5
<1>7. SampleBlockList(w) \in Seq(Nat) /\ Len(SampleBlockList(w)) = m
  BY <1>3, <1>6, LenProperties
<1> QED BY <1>1, <1>3, <1>6, <1>7 DEF d

-------------------------------------------------------------------------------
(* The invariant: the rows of the window follow its list as far as it is   *)
(* scanned, and every row is of one kind of outcome.                       *)
RowsFollow ==
  LET list == SampleBlockList(windows[1]) IN
  /\ Len(samples) + Len(blocks) = Len(list)
  /\ \A i \in 1 .. Len(samples) : samples[i].block = list[i]
  /\ \A i \in 1 .. Len(blocks) : blocks[i] = list[Len(samples) + i]
RowsFit ==
  \E A, B : /\ \A r \in A : RowFits(r)
            /\ samples \in Seq(A) /\ summaries \in Seq(B)
            /\ \A i \in DOMAIN summaries : SummaryFits(summaries[i], A)
ReplayInv ==
  /\ windows \in Seq(BlockRange) /\ blocks \in Seq(Nat) /\ ethCalls \in Nat
  /\ phase = "scanning" => windows # <<>> /\ RowsFollow
  /\ phase # "scanning" => samples = <<>>
  /\ phase # "ended" => overall = <<>>
  /\ RowsFit
  /\ ReplayAddsUp

LEMMA ReplayInitFits == ReplayInit => ReplayInv
<1> SUFFICES ASSUME ReplayInit PROVE ReplayInv
  OBVIOUS
<1>1. RowsFit
  <2>1. samples \in Seq({}) /\ summaries \in Seq({}) /\ DOMAIN summaries = {}
    BY EmptySeq DEF ReplayInit
  <2> QED BY <2>1 DEF RowsFit
<1>2. ReplayAddsUp
  <2>1. DOMAIN summaries = {} /\ DOMAIN overall = {} /\ samples = <<>> /\ ethCalls = 0
    BY EmptySeq DEF ReplayInit
  <2>2. SumOver([i \in DOMAIN summaries |-> summaries[i].calls]) = 0
    BY <2>1, SumOverNone
  <2>3. Simulations(samples) = 0
    BY <2>1, SimulationsNone
  <2>4. ethCalls <= MaxEthCalls
    BY <2>1, ReplayAssumption
  <2> QED BY <2>1, <2>2, <2>3, <2>4 DEF ReplayAddsUp
<1> QED BY <1>1, <1>2, EmptySeq DEF ReplayInit, ReplayInv

LEMMA ReplayStarts ==
  ASSUME ReplayInv, StartReplay
  PROVE  ReplayInv'
<1>1. PICK c \in Configs :
        /\ ResolveWindows(c) # <<>> /\ windows' = ResolveWindows(c)
        /\ blocks' = SampleBlockList(ResolveWindows(c)[1])
  BY DEF StartReplay
<1>2. /\ phase = "starting" /\ phase' = "scanning" /\ samples' = samples /\ samples = <<>>
      /\ overall' = overall /\ overall = <<>> /\ ethCalls' = ethCalls /\ summaries' = summaries
  BY DEF StartReplay, ReplayInv
<1>3. windows' \in Seq(BlockRange) /\ windows' # <<>>
  BY <1>1, WindowsFit
<1>4. windows'[1] \in BlockRange
  BY <1>3, EmptySeq, LenProperties, ElementOfSeq
<1>5. blocks' \in Seq(Nat) /\ blocks' = SampleBlockList(windows'[1]) /\ Len(blocks') \in Nat
  BY <1>1, <1>4, ListFits
<1>6. RowsFollow'
  <2>1. Len(samples') = 0
    BY <1>2
  <2> QED BY <1>5, <2>1 DEF RowsFollow
<1>7. RowsFit' /\ ReplayAddsUp'
  BY <1>2 DEF ReplayInv, RowsFit, ReplayAddsUp
<1> QED BY <1>2, <1>3, <1>5, <1>6, <1>7 DEF ReplayInv

(* A block has its row, whatever came of it.                               *)
LEMMA RowIsPushed ==
  ASSUME ReplayInv, Scanning, NEW row, NEW calls, Push(row, calls),
         RowFits(row), row.block = Head(blocks),
         calls = IF row.simulated THEN 1 ELSE 0, ethCalls + calls <= MaxEthCalls
  PROVE  ReplayInv'
<1>1. /\ samples' = Append(samples, row) /\ blocks' = Tail(blocks) /\ ethCalls' = ethCalls + calls
      /\ phase' = phase /\ windows' = windows /\ summaries' = summaries /\ overall' = overall
  BY DEF Push
<1>2. PICK A, B : /\ \A r \in A : RowFits(r)
                  /\ samples \in Seq(A) /\ summaries \in Seq(B)
                  /\ \A i \in DOMAIN summaries : SummaryFits(summaries[i], A)
  BY DEF ReplayInv, RowsFit
<1> DEFINE C == A \cup {row}
<1>3. samples \in Seq(C) /\ samples' \in Seq(C) /\ \A r \in C : RowFits(r)
  <2>1. samples \in Seq(C)
    BY <1>2
  <2>2. row \in C
    OBVIOUS
  <2> QED BY <1>1, <1>2, <2>1, <2>2, AppendProperties
<1>4. RowsFit'
  <2>1. \A i \in DOMAIN summaries : SummaryFits(summaries[i], C)
    BY <1>2 DEF SummaryFits
  <2>2. \A i \in DOMAIN summaries' : SummaryFits(summaries'[i], C)
    BY <1>1, <2>1
  <2>3. summaries' \in Seq(B)
    BY <1>1, <1>2
  <2> HIDE DEF C
  <2> QED BY <1>3, <2>2, <2>3 DEF RowsFit
<1>5. row.simulated \in BOOLEAN /\ calls \in Nat
  BY DEF RowFits
<1>6. Simulations(samples') = Simulations(samples) + calls
  <2>1. row \in C
    OBVIOUS
  <2> HIDE DEF C
  <2>2. Simulations(Append(samples, row)) = Simulations(samples) + IF row.simulated THEN 1 ELSE 0
    BY <1>3, <1>5, <2>1, SimulationsAppend
  <2> QED BY <1>1, <2>2
<1>7. ReplayAddsUp'
  <2> DEFINE old == SumOver([i \in DOMAIN summaries |-> summaries[i].calls])
  <2>1. old' = old
    BY <1>1
  <2>2. ethCalls = old + Simulations(samples) /\ overall = <<>> /\ ethCalls \in Nat
    BY DEF ReplayInv, ReplayAddsUp, Scanning
  <2>3. Simulations(samples) \in Nat
    BY <1>2, SimulationsConcat
  <2>4. old \in Int
    <3>1. DOMAIN summaries = 1 .. Len(summaries) /\ Len(summaries) \in Nat
      BY <1>2, LenProperties
    <3>2. ASSUME NEW i \in DOMAIN summaries PROVE summaries[i].calls \in Int
      <4>1. SummaryFits(summaries[i], A)
        BY <1>2
      <4>2. summaries[i].rows \in Seq(A) /\ summaries[i].calls = Simulations(summaries[i].rows)
        BY <4>1 DEF SummaryFits
      <4> QED BY <4>2, SimulationsConcat
    <3> DEFINE f == [i \in DOMAIN summaries |-> summaries[i].calls]
    <3>3. DOMAIN f = 1 .. Len(summaries) /\ \A i \in DOMAIN f : f[i] \in Int
      BY <3>1, <3>2
    <3>4. old = SumOver(f)
      OBVIOUS
    <3> HIDE DEF f, old
    <3>5. SumOver(f) = SumOf(f, DOMAIN f)
      BY FoldIsSum DEF SumOver
    <3>6. IsFiniteSet(DOMAIN f)
      BY <3>1, <3>3, FS_Interval
    <3> QED BY <3>3, <3>4, <3>5, <3>6, SumType
  <2> HIDE DEF old
  <2>5. ethCalls' = old + Simulations(samples')
    BY <1>1, <1>5, <1>6, <2>2, <2>3, <2>4
  <2>6. ethCalls' <= MaxEthCalls /\ DOMAIN overall' = {}
    BY <1>1, <2>2, EmptySeq
  <2>7. \A i \in DOMAIN summaries' :
          LET s == summaries'[i] IN
          /\ [j \in DOMAIN s.rows |-> s.rows[j].block] = SampleBlockList(<<s.from, s.to>>)
          /\ s.sameCalls = s.calls /\ s.calls = s.oks + s.reverts /\ s.calls + s.archived <= s.n
          /\ Complete(s)
    BY <1>1 DEF ReplayInv, ReplayAddsUp
  <2>8. ethCalls' = SumOver([i \in DOMAIN summaries' |-> summaries'[i].calls]) + Simulations(samples')
    BY <2>1, <2>5 DEF old
  <2> QED BY <2>6, <2>7, <2>8 DEF ReplayAddsUp
<1>8. RowsFollow'
  <2> DEFINE list == SampleBlockList(windows[1])
             n == Len(samples)
             m == Len(blocks)
  <2>1. /\ n + m = Len(list) /\ \A i \in 1 .. n : samples[i].block = list[i]
        /\ \A i \in 1 .. m : blocks[i] = list[n + i]
    BY DEF ReplayInv, RowsFollow, Scanning
  <2>2. list' = list
    BY <1>1
  <2>3. /\ n \in Nat /\ m \in Nat /\ m # 0 /\ Len(blocks') = m - 1 /\ Head(blocks) = blocks[1]
        /\ \A i \in 1 .. m - 1 : blocks'[i] = blocks[i + 1]
    BY <1>1, <1>2 DEF ReplayInv, Scanning
  <2>4. /\ Len(samples') = n + 1 /\ samples'[n + 1] = row
        /\ \A i \in 1 .. n : samples'[i] = samples[i]
    BY <1>1, <1>2
  <2> HIDE DEF list, n, m
  <2>5. row.block = list[n + 1]
    BY <2>1, <2>3
  <2>6. \A i \in 1 .. n + 1 : samples'[i].block = list[i]
    BY <2>1, <2>3, <2>4, <2>5
  <2>7. \A i \in 1 .. m - 1 : blocks'[i] = list[(n + 1) + i]
    <3> SUFFICES ASSUME NEW i \in 1 .. m - 1 PROVE blocks'[i] = list[(n + 1) + i]
      OBVIOUS
    <3>1. i + 1 \in 1 .. m /\ n + (i + 1) = (n + 1) + i
      BY <2>3
    <3> QED BY <2>1, <2>3, <3>1
  <2>8. (n + 1) + (m - 1) = n + m
    BY <2>3
  <2>9. /\ Len(samples') + Len(blocks') = Len(list')
        /\ \A i \in 1 .. Len(samples') : samples'[i].block = list'[i]
        /\ \A i \in 1 .. Len(blocks') : blocks'[i] = list'[Len(samples') + i]
    BY <2>1, <2>2, <2>3, <2>4, <2>6, <2>7, <2>8
  <2> QED BY <2>9 DEF RowsFollow, list
<1>9. blocks' \in Seq(Nat) /\ ethCalls' \in Nat
  BY <1>1, <1>5 DEF ReplayInv, Scanning
<1> QED BY <1>1, <1>4, <1>7, <1>8, <1>9 DEF ReplayInv, Scanning

LEMMA QuotesFailed ==
  ASSUME ReplayInv, QuotesFail
  PROVE  ReplayInv'
<1>1. PICK archive \in BOOLEAN :
        Push([BlockRow(Head(blocks)) EXCEPT !.archive = archive, !.reason = ~archive], 0)
  BY DEF QuotesFail
<1> DEFINE row == [BlockRow(Head(blocks)) EXCEPT !.archive = archive, !.reason = ~archive]
<1>2. RowFits(row) /\ row.block = Head(blocks) /\ row.simulated = FALSE
  BY DEF RowFits, BlockRow
<1>3. Scanning /\ Push(row, 0)
  BY <1>1 DEF QuotesFail
<1>4. ethCalls + 0 <= MaxEthCalls
  BY DEF ReplayInv, ReplayAddsUp
<1> HIDE DEF row
<1>5. 0 = IF row.simulated THEN 1 ELSE 0
  BY <1>2
<1> QED BY <1>2, <1>3, <1>4, <1>5, RowIsPushed

LEMMA QuotedIs ==
  ASSUME NEW block, NEW same, NEW cross
  PROVE  LET row == Quoted(block, same, cross) IN
         /\ DOMAIN row = {"block", "same", "cross", "quoteOnly", "simulated", "ok", "archive", "reason"}
         /\ row.block = block /\ row.simulated = FALSE /\ row.ok = FALSE /\ row.archive = FALSE
         /\ row.quoteOnly \in BOOLEAN
<1>1. PICK rates : rates = {o.rate : o \in same}
  OBVIOUS
<1>2. PICK quoteOnly \in BOOLEAN : quoteOnly = (cross # {})
  OBVIOUS
<1>3. Quoted(block, same, cross) = [BlockRow(block) EXCEPT !.same = rates, !.cross = cross, !.quoteOnly = quoteOnly]
  BY <1>1, <1>2 DEF Quoted
<1> QED BY <1>3 DEF BlockRow

LEMMA BlockScanned ==
  ASSUME ReplayInv, ScanBlock
  PROVE  ReplayInv'
<1>1. PICK index \in UNION {QuotesAnswered(q) : q \in Quotes}, same \in SameModel :
        LET row == Quoted(Head(blocks), same, BestCross(index)) IN
        IF same # {} /\ ShouldCall(row, same)
        THEN \/ \E ok \in BOOLEAN : Push(Simulated(row, ok), 1)
             \/ Push([row EXCEPT !.archive = TRUE], 0)
             \/ Push([row EXCEPT !.reason = TRUE], 0)
        ELSE Push(NotCalled(row, same), 0)
  BY DEF ScanBlock
<1> DEFINE row == Quoted(Head(blocks), same, BestCross(index))
<1>2. /\ DOMAIN row = {"block", "same", "cross", "quoteOnly", "simulated", "ok", "archive", "reason"}
      /\ row.block = Head(blocks) /\ row.simulated = FALSE /\ row.ok = FALSE /\ row.archive = FALSE
      /\ row.quoteOnly \in BOOLEAN
  BY QuotedIs
<1>3. Scanning
  BY DEF ScanBlock
<1>4. ethCalls \in Nat /\ ethCalls <= MaxEthCalls
  BY DEF ReplayInv, ReplayAddsUp
<1> HIDE DEF row
<1>5. CASE same # {} /\ ShouldCall(row, same)
  <2>1. \/ \E ok \in BOOLEAN : Push(Simulated(row, ok), 1)
        \/ Push([row EXCEPT !.archive = TRUE], 0)
        \/ Push([row EXCEPT !.reason = TRUE], 0)
    BY <1>1, <1>5 DEF row
  <2>2. ethCalls + 1 <= MaxEthCalls
    BY <1>4, <1>5, ReplayAssumption DEF ShouldCall
  <2>3. ASSUME NEW ok \in BOOLEAN, Push(Simulated(row, ok), 1) PROVE ReplayInv'
    <3> DEFINE done == Simulated(row, ok)
    <3>1. done.block = Head(blocks) /\ done.simulated = TRUE /\ RowFits(done)
      BY <1>2 DEF Simulated, CallSpeaks, RowFits
    <3> HIDE DEF done
    <3>2. 1 = IF done.simulated THEN 1 ELSE 0
      BY <3>1
    <3>3. Push(done, 1)
      BY <2>3 DEF done
    <3> QED BY <1>3, <2>2, <3>1, <3>2, <3>3, RowIsPushed
  <2>4. ASSUME NEW flag \in {"archive", "reason"}, Push([row EXCEPT ![flag] = TRUE], 0) PROVE ReplayInv'
    <3> DEFINE done == [row EXCEPT ![flag] = TRUE]
    <3>1. done.block = Head(blocks) /\ done.simulated = FALSE /\ RowFits(done)
      BY <1>2 DEF RowFits
    <3> HIDE DEF done
    <3>2. 0 = IF done.simulated THEN 1 ELSE 0
      BY <3>1
    <3>3. Push(done, 0) /\ ethCalls + 0 <= MaxEthCalls
      BY <1>4, <2>4 DEF done
    <3> QED BY <1>3, <3>1, <3>2, <3>3, RowIsPushed
  <2> QED BY <2>1, <2>3, <2>4
<1>6. CASE ~(same # {} /\ ShouldCall(row, same))
  <2> DEFINE done == NotCalled(row, same)
  <2>1. Push(done, 0)
    BY <1>1, <1>6 DEF row
  <2>2. done.block = Head(blocks) /\ done.simulated = FALSE /\ RowFits(done)
    BY <1>2 DEF NotCalled, RowFits
  <2> HIDE DEF done
  <2>3. 0 = IF done.simulated THEN 1 ELSE 0
    BY <2>2
  <2>4. ethCalls + 0 <= MaxEthCalls
    BY <1>4
  <2> QED BY <1>3, <2>1, <2>2, <2>3, <2>4, RowIsPushed
<1> QED BY <1>5, <1>6

(* A window's end: its rows become a summary, and the last one the whole.  *)
LEMMA WindowEnds ==
  ASSUME ReplayInv, EndWindow
  PROVE  ReplayInv'
<1> DEFINE w == windows[1]
           full == Step <= 1 /\ Len(samples) = w[2] - w[1] + 1
           s == SummaryOf(samples, w, full)
           list == SampleBlockList(w)
           n == Len(summaries)
           f == [i \in DOMAIN summaries |-> summaries[i].calls]
           g == [i \in DOMAIN summaries' |-> summaries'[i].calls]
<1>1. /\ phase = "scanning" /\ blocks = <<>> /\ overall = <<>> /\ windows # <<>> /\ RowsFollow
      /\ windows \in Seq(BlockRange) /\ ethCalls \in Nat
  BY DEF EndWindow, ReplayInv
<1>2. /\ summaries' = Append(summaries, s) /\ samples' = <<>> /\ windows' = Tail(windows)
      /\ ethCalls' = ethCalls
  BY DEF EndWindow
<1>3. PICK A, B : /\ \A r \in A : RowFits(r)
                  /\ samples \in Seq(A) /\ summaries \in Seq(B)
                  /\ \A i \in DOMAIN summaries : SummaryFits(summaries[i], A)
  BY DEF ReplayInv, RowsFit
<1>4. w \in BlockRange /\ w[1] \in Nat /\ w[2] \in Nat /\ w = <<w[1], w[2]>>
  <2>1. w \in BlockRange
    BY <1>1, EmptySeq, LenProperties, ElementOfSeq
  <2> HIDE DEF w
  <2> QED BY <2>1 DEF BlockRange
<1>5. Len(samples) = Len(list) /\ \A i \in 1 .. Len(samples) : samples[i].block = list[i]
  <2>1. Len(samples) \in Nat /\ Len(blocks) = 0
    BY <1>1, <1>3, LenProperties
  <2>2. Len(samples) + Len(blocks) = Len(list) /\ \A i \in 1 .. Len(samples) : samples[i].block = list[i]
    BY <1>1 DEF RowsFollow
  <2> HIDE DEF list
  <2> QED BY <2>1, <2>2
<1>6. /\ list \in Seq(Nat) /\ Len(list) \in Nat /\ DOMAIN list = 1 .. Len(list)
      /\ w[2] - w[1] + 1 \in Nat /\ (Step <= 1 => Len(list) = w[2] - w[1] + 1)
  BY <1>4, ListFits
<1>7. /\ s.n = Len(samples) /\ s.rows = samples /\ s.calls = Simulations(samples)
      /\ s.from = w[1] /\ s.to = w[2] /\ s.range = w[2] - w[1] + 1 /\ s.full = full
      /\ s.sameCalls = s.calls /\ s.calls = s.oks + s.reverts /\ s.calls + s.archived <= s.n
  <2> HIDE DEF w, full
  <2> QED BY <1>3, SummaryAddsUp
<1>8. Complete(s)
  BY <1>5, <1>6, <1>7 DEF Complete
<1> HIDE DEF s
<1>9. SummaryFits(s, A)
  BY <1>3, <1>6, <1>7, <1>8 DEF SummaryFits
<1>10. [j \in DOMAIN s.rows |-> s.rows[j].block] = SampleBlockList(<<s.from, s.to>>)
  <2>1. <<s.from, s.to>> = w
    BY <1>4, <1>7
  <2>2. DOMAIN samples = 1 .. Len(samples)
    BY <1>3, LenProperties
  <2> HIDE DEF w
  <2>3. list = [j \in 1 .. Len(list) |-> list[j]]
    <3> HIDE DEF list
    <3> QED BY <1>6
  <2>4. [j \in DOMAIN samples |-> samples[j].block] = list
    <3> HIDE DEF list
    <3> QED BY <1>5, <2>2, <2>3
  <2> QED BY <1>7, <2>1, <2>4
<1>11. /\ n \in Nat /\ DOMAIN summaries = 1 .. n /\ DOMAIN summaries' = 1 .. n + 1
       /\ Len(summaries') = n + 1 /\ summaries'[n + 1] = s /\ \A i \in 1 .. n : summaries'[i] = summaries[i]
       /\ summaries' \in Seq(B \cup {s}) /\ summaries' # <<>>
  <2>1. summaries \in Seq(B \cup {s}) /\ s \in B \cup {s}
    BY <1>3
  <2> QED BY <1>2, <2>1
<1>12. \A i \in DOMAIN summaries' : SummaryFits(summaries'[i], A)
  BY <1>3, <1>9, <1>11
<1>13. \A i \in DOMAIN summaries' : summaries'[i].calls \in Nat
  <2> SUFFICES ASSUME NEW i \in DOMAIN summaries' PROVE summaries'[i].calls \in Nat
    OBVIOUS
  <2>1. summaries'[i].rows \in Seq(A) /\ summaries'[i].calls = Simulations(summaries'[i].rows)
    BY <1>12 DEF SummaryFits
  <2> QED BY <2>1, SimulationsConcat
<1>14. SumOver(g) = SumOver(f) + s.calls /\ SumOver(f) \in Int
  <2>1. /\ DOMAIN f = 1 .. n /\ DOMAIN g = 1 .. n + 1 /\ g[n + 1] = s.calls
        /\ \A i \in 1 .. n : f[i] \in Int /\ g[i] = f[i]
        /\ g[n + 1] \in Int
    BY <1>11, <1>13
  <2> HIDE DEF f, g, n
  <2> QED BY <1>11, <2>1, SumOverAppend
<1>15. ethCalls = SumOver(g)
  <2>1. ethCalls = SumOver(f) + Simulations(samples)
    BY DEF ReplayInv, ReplayAddsUp
  <2> QED BY <1>7, <1>14, <2>1
<1>16. overall' = <<>> \/ (Len(summaries') = 1 /\ overall' = summaries') \/ overall' = <<Aggregate(summaries')>>
  BY <1>1 DEF EndWindow
<1>17. \A i \in DOMAIN overall' : overall'[i].calls = ethCalls /\ Complete(overall'[i])
  <2>1. CASE overall' = <<>>
    BY <2>1, EmptySeq
  <2>2. CASE Len(summaries') = 1 /\ overall' = summaries'
    <3>1. n = 0 /\ DOMAIN overall' = {1} /\ overall'[1] = s
      <4>1. n = 0
        <5>1. n \in Nat /\ n + 1 = 1
          BY <1>11, <2>2
        <5> HIDE DEF n
        <5> QED BY <5>1
      <4>2. overall' = summaries' /\ n + 1 = 1 /\ 1 .. n + 1 = {1}
        BY <2>2, <4>1
      <4> QED BY <1>11, <4>1, <4>2
    <3>2. DOMAIN f = {}
      BY <1>11, <3>1
    <3>3. SumOver(f) = 0
      <4> HIDE DEF f
      <4> QED BY <3>2, SumOverNone
    <3>4. s.calls \in Nat
      BY <1>11, <1>13
    <3>5. s.calls = ethCalls
      BY <1>14, <1>15, <3>3, <3>4
    <3> QED BY <1>8, <3>1, <3>5
  <2>3. CASE overall' = <<Aggregate(summaries')>>
    <3>1. Aggregate(summaries').calls = SumOver(g) /\ Complete(Aggregate(summaries'))
      BY <1>3, <1>11, <1>12, AggregateFits
    <3>2. DOMAIN overall' = {1} /\ overall'[1] = Aggregate(summaries')
      BY <2>3
    <3> QED BY <1>15, <3>1, <3>2
  <2> QED BY <1>16, <2>1, <2>2, <2>3
<1>18. ReplayAddsUp'
  <2>1. ethCalls' <= MaxEthCalls
    BY <1>2 DEF ReplayInv, ReplayAddsUp
  <2>2. Simulations(samples') = 0
    BY <1>2, SimulationsNone
  <2>3. ethCalls' = SumOver(g) + Simulations(samples')
    <3>1. ethCalls' = ethCalls + Simulations(samples')
      BY <1>1, <1>2, <2>2
    <3> QED BY <1>15, <3>1
  <2>4. \A i \in DOMAIN summaries' :
          LET t == summaries'[i] IN
          /\ [j \in DOMAIN t.rows |-> t.rows[j].block] = SampleBlockList(<<t.from, t.to>>)
          /\ t.sameCalls = t.calls /\ t.calls = t.oks + t.reverts /\ t.calls + t.archived <= t.n
          /\ Complete(t)
    <3>1. \A i \in DOMAIN summaries :
            LET t == summaries[i] IN
            /\ [j \in DOMAIN t.rows |-> t.rows[j].block] = SampleBlockList(<<t.from, t.to>>)
            /\ t.sameCalls = t.calls /\ t.calls = t.oks + t.reverts /\ t.calls + t.archived <= t.n
            /\ Complete(t)
      BY DEF ReplayInv, ReplayAddsUp
    <3>2. ASSUME NEW i \in DOMAIN summaries', i # n + 1
          PROVE  i \in DOMAIN summaries /\ summaries'[i] = summaries[i]
      BY <1>11, <3>2
    <3>3. summaries'[n + 1] = s
      BY <1>11
    <3> HIDE DEF n
    <3> QED BY <1>7, <1>8, <1>10, <3>1, <3>2, <3>3
  <2>5. \A i \in DOMAIN overall' : overall'[i].calls = ethCalls' /\ Complete(overall'[i])
    BY <1>2, <1>17
  <2> QED BY <2>1, <2>3, <2>4, <2>5 DEF ReplayAddsUp
<1>19. RowsFit'
  <2>1. samples' \in Seq(A)
    BY <1>2
  <2>2. summaries' \in Seq(B \cup {s})
    BY <1>11
  <2> QED BY <1>3, <1>12, <2>1, <2>2 DEF RowsFit
<1>20. windows' \in Seq(BlockRange) /\ ethCalls' \in Nat /\ Len(windows) \in Nat /\ Len(windows) > 0
       /\ Len(windows') = Len(windows) - 1
  BY <1>1, <1>2
<1>21. CASE Len(windows) > 1
  <2>1. blocks' = SampleBlockList(windows[2]) /\ phase' = "scanning" /\ overall' = <<>>
    BY <1>1, <1>21 DEF EndWindow
  <2>2. windows' # <<>> /\ windows'[1] = windows[2] /\ windows[2] \in BlockRange
    BY <1>1, <1>2, <1>20, <1>21
  <2>3. blocks' \in Seq(Nat) /\ Len(blocks') \in Nat
    BY <2>1, <2>2, ListFits
  <2>4. RowsFollow'
    <3>1. Len(samples') = 0
      BY <1>2
    <3> QED BY <2>1, <2>2, <2>3, <3>1 DEF RowsFollow
  <2> QED BY <1>18, <1>19, <1>20, <2>1, <2>2, <2>3, <2>4 DEF ReplayInv
<1>22. CASE ~(Len(windows) > 1)
  <2>1. blocks' = blocks /\ phase' = "ended"
    BY <1>22 DEF EndWindow
  <2> QED BY <1>2, <1>18, <1>19, <1>20, <2>1 DEF ReplayInv
<1> QED BY <1>21, <1>22

(* The summaries of a replay account for every block and every call        *)
(* (ReplayAddsUp), for any windows, step, limit and quotes.                *)
THEOREM ReplayIsCounted == ReplaySpec => []ReplayAddsUp
<1>1. ReplayInv /\ [ReplayNext]_replayVars => ReplayInv'
  <2> SUFFICES ASSUME ReplayInv, [ReplayNext]_replayVars PROVE ReplayInv'
    OBVIOUS
  <2>1. CASE StartReplay
    BY <2>1, ReplayStarts
  <2>2. CASE ReplayFails
    <3>1. /\ phase' = "failed" /\ phase = "starting" /\ windows' = windows /\ blocks' = blocks
          /\ samples' = samples /\ ethCalls' = ethCalls /\ summaries' = summaries /\ overall' = overall
      BY <2>2 DEF ReplayFails
    <3>2. RowsFit' /\ ReplayAddsUp'
      BY <3>1 DEF ReplayInv, RowsFit, ReplayAddsUp
    <3> QED BY <3>1, <3>2 DEF ReplayInv
  <2>3. CASE QuotesFail
    BY <2>3, QuotesFailed
  <2>4. CASE ScanBlock
    BY <2>4, BlockScanned
  <2>5. CASE EndWindow
    BY <2>5, WindowEnds
  <2>6. CASE UNCHANGED replayVars
    <3>1. /\ phase' = phase /\ windows' = windows /\ blocks' = blocks /\ samples' = samples
          /\ ethCalls' = ethCalls /\ summaries' = summaries /\ overall' = overall
      BY <2>6 DEF replayVars
    <3>2. RowsFit' /\ ReplayAddsUp' /\ (RowsFollow => RowsFollow')
      BY <3>1 DEF ReplayInv, RowsFit, ReplayAddsUp, RowsFollow
    <3> QED BY <3>1, <3>2 DEF ReplayInv
  <2> QED BY <2>1, <2>2, <2>3, <2>4, <2>5, <2>6 DEF ReplayNext
<1>2. ReplayInv => ReplayAddsUp
  BY DEF ReplayInv
<1> QED BY ReplayInitFits, <1>1, <1>2, PTL DEF ReplaySpec

-------------------------------------------------------------------------------
(* GasCalibration: what one receipt teaches the venues carries the receipt,*)
(* for any route, any profile and any number of samples.                   *)

(* What the arithmetic of the module keeps.                                *)
LEMMA Division ==
  ASSUME NEW a \in Nat, NEW b \in Nat \ {0}
  PROVE  a \div b \in Nat /\ b * (a \div b) <= a /\ a < b * (a \div b) + b
  OBVIOUS

LEMMA TimesLarger ==
  ASSUME NEW a \in Int, NEW b \in Int, NEW c \in Nat, a <= b
  PROVE  a * c <= b * c /\ c * a <= c * b
  OBVIOUS

(* The hops as a finite set, and a sum along them.                         *)
AlongFits(units) == \A k \in Kinds : units[k] \in Nat
LEMMA AlongIs ==
  ASSUME NEW units, AlongFits(units)
  PROVE  LET f == [i \in DOMAIN Hops |-> units[Hops[i]]] IN
         /\ Along(units) = SumOf(f, DOMAIN Hops) /\ Along(units) \in Nat
         /\ \A i \in DOMAIN Hops : f[i] \in Nat /\ Hops[i] \in Kinds
         /\ IsFiniteSet(DOMAIN Hops) /\ DOMAIN Hops = 1 .. Len(Hops) /\ Len(Hops) \in Nat \ {0}
<1> DEFINE f == [i \in DOMAIN Hops |-> units[Hops[i]]]
           z == [i \in DOMAIN Hops |-> 0]
<1>1. /\ DOMAIN Hops = 1 .. Len(Hops) /\ Len(Hops) \in Nat \ {0} /\ \A i \in DOMAIN Hops : Hops[i] \in Kinds
  BY CalibrationAssumption, LenProperties, ElementOfSeq, EmptySeq
<1>2. IsFiniteSet(DOMAIN Hops)
  BY <1>1, FS_Interval
<1>3. DOMAIN f = DOMAIN Hops /\ \A i \in DOMAIN Hops : f[i] \in Nat /\ z[i] = 0 /\ f[i] \in Int /\ z[i] \in Int /\ z[i] <= f[i]
  BY <1>1 DEF AlongFits
<1>4. Along(units) = FoldFunction(+, 0, f)
  BY DEF Along
<1> HIDE DEF f, z
<1>5. FoldFunction(+, 0, f) = SumOf(f, DOMAIN f)
  BY FoldIsSum
<1>6. SumOf(f, DOMAIN Hops) \in Int
  BY <1>2, <1>3, SumType
<1>7. SumOf(z, DOMAIN Hops) = 0
  BY <1>2, <1>3, SumOfZeros
<1>8. SumOf(z, DOMAIN Hops) <= SumOf(f, DOMAIN Hops)
  BY <1>2, <1>3, SumMonotone
<1>9. Along(units) = SumOf(f, DOMAIN Hops) /\ Along(units) \in Nat
  <2>1. Along(units) = SumOf(f, DOMAIN Hops)
    BY <1>3, <1>4, <1>5
  <2>2. SumOf(f, DOMAIN Hops) \in Nat
    BY <1>6, <1>7, <1>8
  <2> QED BY <2>1, <2>2
<1> QED BY <1>1, <1>2, <1>3, <1>9 DEF f

(* A hop's share and 15% of it make up for what the divisions drop.        *)
LEMMA HopCovers ==
  ASSUME NEW a \in Nat, NEW s \in Nat, s >= 1000, NEW U \in Nat \ {0}, NEW q \in Nat, NEW p \in Nat, NEW e \in Nat,
         q = (a * s) \div U, p = (q * 115) \div 100, e >= p
  PROVE  (115000 * a - 215 * U) * s <= (100000 * U) * e
<1>1. PICK n \in Nat : n = a * s
  OBVIOUS
<1>2. n < U * q + U
  BY <1>1, Division
<1>3. PICK r \in Nat : r = U * q
  OBVIOUS
<1>4. 115 * q <= 100 * p + 100
  OBVIOUS
<1>5. U * (115 * q) <= U * (100 * p + 100)
  <2>1. 115 * q \in Int /\ 100 * p + 100 \in Int
    OBVIOUS
  <2> QED BY <1>4, <2>1, TimesLarger
<1>6. PICK t \in Nat : t = U * p
  OBVIOUS
<1>7. U * (115 * q) = 115 * (U * q) /\ U * (100 * p + 100) = 100 * (U * p) + 100 * U
  OBVIOUS
<1>8. 115 * r <= 100 * t + 100 * U
  BY <1>3, <1>5, <1>6, <1>7
<1>9. U * 1000 <= U * s
  BY TimesLarger
<1>10. PICK v \in Nat : v = U * s
  OBVIOUS
<1>11. U * p <= U * e
  BY TimesLarger
<1>12. PICK w \in Nat : w = U * e
  OBVIOUS
<1>13. (115000 * a - 215 * U) * s = 115000 * (a * s) - 215 * (U * s)
  OBVIOUS
<1>14. (100000 * U) * e = 100000 * (U * e)
  OBVIOUS
<1>15. 115000 * n - 215 * v <= 100000 * w
  BY <1>2, <1>3, <1>6, <1>8, <1>9, <1>10, <1>11, <1>12
<1> QED BY <1>1, <1>10, <1>12, <1>13, <1>14, <1>15

LEMMA Cancels ==
  ASSUME NEW u \in Nat \ {0}, NEW x \in Int, NEW y \in Int, x * u <= y * u
  PROVE  x <= y
<1> SUFFICES ASSUME y < x PROVE FALSE
  OBVIOUS
<1>1. y + 1 <= x /\ y + 1 \in Int
  OBVIOUS
<1>2. (y + 1) * u <= x * u
  BY <1>1, TimesLarger
<1>3. (y + 1) * u = y * u + u
  OBVIOUS
<1>4. PICK m \in Int : m = y * u
  OBVIOUS
<1>5. PICK n \in Int : n = x * u
  OBVIOUS
<1> QED BY <1>2, <1>3, <1>4, <1>5

(* What the venues have learned from receipts of a.                        *)
Mean == [mean : Nat, n : Nat]
Carries(held, a) == \A k \in Kinds : held[k].n = 0 \/ held[k].mean = Share(a, k)

(* Larger swaps are larger routes; the profile has at least one swap.      *)
LEMMA UnitsLarger ==
  ASSUME NEW f, NEW g, AlongFits(f), AlongFits(g), \A k \in Kinds : f[k] <= g[k]
  PROVE  /\ Along(f) <= Along(g) /\ Along(f) \in Nat /\ Along(g) \in Nat
         /\ Along(f) <= Units(f) /\ Units(f) <= Units(g) /\ Units(f) \in Nat /\ Units(g) \in Nat
<1>1. {BaseGas, CalldataGas, Overhead} \subseteq Nat
  BY CalibrationAssumption
<1>2. ASSUME NEW x, NEW y, AlongFits(x), AlongFits(y), \A k \in Kinds : x[k] <= y[k]
      PROVE  Along(x) <= Along(y) /\ Along(x) \in Nat /\ Along(y) \in Nat
  <2> DEFINE r == [i \in DOMAIN Hops |-> x[Hops[i]]]
             s == [i \in DOMAIN Hops |-> y[Hops[i]]]
  <2>1. Along(x) = SumOf(r, DOMAIN Hops) /\ Along(y) = SumOf(s, DOMAIN Hops)
        /\ Along(x) \in Nat /\ Along(y) \in Nat /\ IsFiniteSet(DOMAIN Hops)
        /\ \A i \in DOMAIN Hops : r[i] \in Nat /\ s[i] \in Nat /\ Hops[i] \in Kinds
    BY <1>2, AlongIs
  <2>2. \A i \in DOMAIN Hops : r[i] \in Int /\ s[i] \in Int /\ r[i] <= s[i]
    BY <1>2, <2>1
  <2> HIDE DEF r, s
  <2> QED BY <2>1, <2>2, SumMonotone
<1> DEFINE fc == [k \in Kinds |-> f[k] + CalldataGas]
           gc == [k \in Kinds |-> g[k] + CalldataGas]
<1>3. /\ AlongFits(fc) /\ AlongFits(gc) /\ \A k \in Kinds : fc[k] <= gc[k]
      /\ \A k \in Kinds : f[k] <= fc[k]
  BY <1>1 DEF AlongFits
<1>4. Units(f) = BaseGas + Overhead + Along(fc) /\ Units(g) = BaseGas + Overhead + Along(gc)
  BY DEF Units
<1> HIDE DEF fc, gc
<1>5. Along(f) <= Along(g) /\ Along(f) \in Nat /\ Along(g) \in Nat
  BY <1>2
<1>6. Along(fc) <= Along(gc) /\ Along(fc) \in Nat /\ Along(gc) \in Nat
  BY <1>2, <1>3
<1>7. Along(f) <= Along(fc)
  BY <1>2, <1>3
<1> QED BY <1>1, <1>4, <1>5, <1>6, <1>7

LEMMA SwapsAre ==
  /\ AlongFits(SwapUnits) /\ \A k \in Kinds : SwapUnits[k] \in Nat /\ SwapUnits[k] >= 1000
  /\ Along(SwapUnits) \in Nat \ {0} /\ Static \in Nat \ {0} /\ Along(SwapUnits) <= Static
<1>1. AlongFits(SwapUnits) /\ \A k \in Kinds : SwapUnits[k] \in Nat /\ SwapUnits[k] >= 1000
  BY CalibrationAssumption DEF AlongFits
<1>2. Along(SwapUnits) \in Nat /\ Along(SwapUnits) <= Static /\ Static \in Nat
  BY <1>1, UnitsLarger DEF Static
<1> DEFINE f == [i \in DOMAIN Hops |-> SwapUnits[Hops[i]]]
<1>3. /\ Along(SwapUnits) = SumOf(f, DOMAIN Hops) /\ IsFiniteSet(DOMAIN Hops) /\ 1 \in DOMAIN Hops
      /\ \A i \in DOMAIN Hops : f[i] \in Nat /\ Hops[i] \in Kinds
  BY <1>1, AlongIs
<1>4. SumOf(f, DOMAIN Hops) >= f[1]
  <2> DEFINE z == [i \in DOMAIN Hops |-> IF i = 1 THEN f[1] ELSE 0]
             zero == [i \in DOMAIN Hops |-> 0]
  <2>1. /\ \A i \in DOMAIN Hops : z[i] \in Int /\ f[i] \in Int /\ z[i] <= f[i] /\ zero[i] = 0 /\ zero[i] \in Int
        /\ \A i \in DOMAIN Hops \ {1} : z[i] = zero[i]
        /\ z[1] = f[1] /\ zero[1] = 0 /\ f[1] \in Nat
    BY <1>3
  <2> HIDE DEF z, zero, f
  <2>2. SumOf(z, DOMAIN Hops) <= SumOf(f, DOMAIN Hops)
    BY <1>3, <2>1, SumMonotone
  <2>3. SumOf(z, DOMAIN Hops) = SumOf(zero, DOMAIN Hops) - zero[1] + z[1]
    BY <1>3, <2>1, SumUpdate
  <2>4. SumOf(zero, DOMAIN Hops) = 0
    BY <1>3, <2>1, SumOfZeros
  <2>5. SumOf(f, DOMAIN Hops) \in Int
    BY <1>3, <2>1, SumType
  <2> QED BY <2>1, <2>2, <2>3, <2>4, <2>5
<1>5. f[1] >= 1000
  BY <1>1, <1>3
<1>6. Along(SwapUnits) >= 1000
  <2> HIDE DEF f
  <2>1. f[1] \in Nat
    BY <1>3
  <2> QED BY <1>2, <1>3, <1>4, <1>5, <2>1
<1> QED BY <1>1, <1>2, <1>6

(* What is learned is never below the profile, and not below p75.          *)
LEMMA EstimateLarger ==
  ASSUME venues \in [Kinds -> Mean]
  PROVE  /\ AlongFits(SwapEstimate) /\ \A k \in Kinds : SwapUnits[k] <= SwapEstimate[k]
         /\ \A k \in Kinds : venues[k].n = MinSamples => SwapEstimate[k] >= (venues[k].mean * 115) \div 100
<1> SUFFICES ASSUME NEW k \in Kinds
             PROVE  /\ SwapEstimate[k] \in Nat /\ SwapUnits[k] <= SwapEstimate[k]
                    /\ venues[k].n = MinSamples => SwapEstimate[k] >= (venues[k].mean * 115) \div 100
  BY DEF AlongFits
<1>1. venues[k].mean \in Nat /\ venues[k].n \in Nat /\ SwapUnits[k] \in Nat /\ MinSamples \in Nat
  BY SwapsAre, CalibrationAssumption DEF Mean
<1>2. PICK p : p = (venues[k].mean * 115) \div 100
  OBVIOUS
<1>3. p \in Nat
  BY <1>1, <1>2, Division
<1>4. SwapEstimate[k] = IF venues[k].n < MinSamples \/ p < SwapUnits[k] THEN SwapUnits[k] ELSE p
  BY <1>2 DEF SwapEstimate
<1> QED BY <1>1, <1>2, <1>3, <1>4

(* Once its venues are calibrated, a route's estimate is above a receipt   *)
(* that is not below the profile.                                          *)
LEMMA CalibratedIsAbove ==
  ASSUME NEW a \in Nat, a >= Along(SwapUnits), venues \in [Kinds -> Mean],
         \A i \in DOMAIN Hops : venues[Hops[i]].n = MinSamples /\ venues[Hops[i]].mean = Share(a, Hops[i])
  PROVE  Along(SwapEstimate) >= a
<1> DEFINE f == [i \in DOMAIN Hops |-> SwapUnits[Hops[i]]]
           g == [i \in DOMAIN Hops |-> SwapEstimate[Hops[i]]]
<1>1. PICK U : U = Along(SwapUnits)
  OBVIOUS
<1>2. PICK E : E = Along(SwapEstimate)
  OBVIOUS
<1>3. U \in Nat \ {0} /\ U <= a
  BY <1>1, SwapsAre
<1>4. U = SumOf(f, DOMAIN Hops) /\ IsFiniteSet(DOMAIN Hops) /\ \A i \in DOMAIN Hops : f[i] \in Nat /\ Hops[i] \in Kinds
  BY <1>1, AlongIs, SwapsAre
<1>5. E \in Nat /\ E = SumOf(g, DOMAIN Hops) /\ \A i \in DOMAIN Hops : g[i] \in Nat
  BY <1>2, AlongIs, EstimateLarger
<1> DEFINE c == 115000 * a - 215 * U
           d == 100000 * U
<1>6. c \in Int /\ d \in Int
  BY <1>3
<1>7. ASSUME NEW i \in DOMAIN Hops PROVE c * f[i] <= d * g[i]
  <2>1. Hops[i] \in Kinds /\ f[i] = SwapUnits[Hops[i]] /\ g[i] = SwapEstimate[Hops[i]]
    BY <1>4
  <2>2. f[i] \in Nat /\ f[i] >= 1000 /\ g[i] \in Nat
    BY <1>4, <1>5, <2>1, SwapsAre
  <2>3. PICK q : q = Share(a, Hops[i])
    OBVIOUS
  <2>4. PICK p : p = (q * 115) \div 100
    OBVIOUS
  <2>5. q = (a * f[i]) \div U
    BY <1>1, <2>1, <2>3 DEF Share
  <2>6. a * f[i] \in Nat
    BY <2>2
  <2>7. q \in Nat
    BY <1>3, <2>5, <2>6, Division
  <2>8. q * 115 \in Nat
    BY <2>7
  <2>9. p \in Nat
    BY <2>4, <2>8, Division
  <2>10. g[i] >= p
    BY <2>1, <2>3, <2>4, EstimateLarger
  <2> HIDE DEF f, g
  <2> QED BY <1>3, <2>2, <2>4, <2>5, <2>7, <2>9, <2>10, HopCovers
<1> DEFINE r == [i \in DOMAIN Hops |-> c * f[i] + 0 * f[i]]
           s == [i \in DOMAIN Hops |-> d * g[i] + 0 * g[i]]
<1>8. ASSUME NEW x \in Int, NEW y \in Int PROVE x * y + 0 * y = x * y /\ x * y \in Int
  OBVIOUS
<1>9. ASSUME NEW i \in DOMAIN Hops
      PROVE  /\ r[i] = c * f[i] + 0 * f[i] /\ s[i] = d * g[i] + 0 * g[i]
             /\ r[i] \in Int /\ s[i] \in Int /\ r[i] <= s[i] /\ f[i] \in Int /\ g[i] \in Int
  <2>1. r[i] = c * f[i] + 0 * f[i] /\ s[i] = d * g[i] + 0 * g[i] /\ f[i] \in Int /\ g[i] \in Int
    BY <1>4, <1>5
  <2> HIDE DEF r, s, f, g, c, d
  <2>2. r[i] = c * f[i] /\ c * f[i] \in Int
    BY <1>6, <1>8, <2>1
  <2>3. s[i] = d * g[i] /\ d * g[i] \in Int
    BY <1>6, <1>8, <2>1
  <2> QED BY <1>7, <2>1, <2>2, <2>3
<1> HIDE DEF r, s, f, g, c, d
<1>10. SumOf(r, DOMAIN Hops) <= SumOf(s, DOMAIN Hops)
  BY <1>4, <1>9, SumMonotone
<1>11. SumOf(r, DOMAIN Hops) = c * SumOf(f, DOMAIN Hops) + 0 * SumOf(f, DOMAIN Hops)
  BY <1>4, <1>6, <1>9, SumCombines
<1>12. SumOf(s, DOMAIN Hops) = d * SumOf(g, DOMAIN Hops) + 0 * SumOf(g, DOMAIN Hops)
  BY <1>4, <1>6, <1>9, SumCombines
<1>13. SumOf(r, DOMAIN Hops) = c * U
  BY <1>3, <1>4, <1>6, <1>8, <1>11
<1>14. SumOf(s, DOMAIN Hops) = d * E
  BY <1>5, <1>6, <1>8, <1>12
<1>15. d * E = (100000 * E) * U
  BY <1>3, <1>5 DEF d
<1>16. 100000 * E \in Int
  BY <1>5
<1>17. c <= 100000 * E
  BY <1>3, <1>6, <1>10, <1>13, <1>14, <1>15, <1>16, Cancels
<1> QED BY <1>2, <1>3, <1>5, <1>17 DEF c

-------------------------------------------------------------------------------
(* The multiplier.                                                         *)
Follows(m, a) == m >= One \/ m >= Ratio(a)

(* What a receipt says of the profile, clamped; and where it ends.         *)
LEMMA RatioIs ==
  ASSUME NEW a \in Nat
  PROVE  /\ Ratio(a) \in Nat /\ Ratio(a) >= 5000 /\ Ratio(a) <= 20000
         /\ a >= Static => Ratio(a) >= One
         /\ a < Static => \E x \in Nat : x <= One /\ Ratio(a) >= x /\ a * One < Static * x + Static
<1>1. PICK S : S = Static
  OBVIOUS
<1>2. PICK x : x = (a * One) \div S
  OBVIOUS
<1>3. S \in Nat \ {0}
  BY <1>1, SwapsAre
<1>4. a * One \in Nat
  BY DEF One
<1>5. x \in Nat /\ S * x <= a * One /\ a * One < S * x + S
  BY <1>2, <1>3, <1>4, Division
<1>6. Ratio(a) = IF x < 5000 THEN 5000 ELSE IF x > 20000 THEN 20000 ELSE x
  <2>1. One \div 2 = 5000 /\ 2 * One = 20000
    BY DEF One
  <2> QED BY <1>1, <1>2, <2>1 DEF Ratio, Clamped
<1>7. a >= S => x >= One
  <2> SUFFICES ASSUME a >= S, x + 1 <= One PROVE FALSE
    BY <1>5 DEF One
  <2>1. S * (x + 1) <= S * One
    BY <1>3, <1>5, TimesLarger DEF One
  <2>2. S * (x + 1) = S * x + S
    BY <1>3, <1>5
  <2>3. S * One <= a * One
    BY <1>3 DEF One
  <2> QED BY <1>3, <1>4, <1>5, <2>1, <2>2, <2>3 DEF One
<1>8. a < S => x <= One
  <2> SUFFICES ASSUME a < S, x >= One + 1 PROVE FALSE
    BY <1>5 DEF One
  <2>1. S * (One + 1) <= S * x
    BY <1>3, <1>5, TimesLarger DEF One
  <2>2. a * One <= S * One
    BY <1>3 DEF One
  <2> QED BY <1>3, <1>4, <1>5, <2>1, <2>2 DEF One
<1>9. Ratio(a) \in Nat /\ Ratio(a) >= 5000 /\ Ratio(a) <= 20000 /\ (a >= S => Ratio(a) >= One)
  BY <1>5, <1>6, <1>7 DEF One
<1>10. ASSUME a < S PROVE x <= One /\ Ratio(a) >= x
  BY <1>5, <1>6, <1>8, <1>10 DEF One
<1> QED BY <1>1, <1>5, <1>9, <1>10

LEMMA NextFollows ==
  ASSUME NEW a \in Nat, multiplier \in Nat
  PROVE  NextMultiplier(a) \in Nat /\ (Follows(multiplier, a) => Follows(NextMultiplier(a), a))
<1>0. Ratio(a) \in Nat /\ Ratio(a) >= 5000 /\ Ratio(a) <= 20000
  BY RatioIs
<1>1. PICK r \in Nat : r = Ratio(a) /\ r >= 5000 /\ r <= 20000
  BY <1>0
<1>2. PICK n : n = (multiplier * 8 + r * 2) \div 10
  OBVIOUS
<1>3. multiplier * 8 + r * 2 \in Nat
  OBVIOUS
<1>4. n \in Nat /\ multiplier * 8 + r * 2 < 10 * n + 10
  BY <1>2, <1>3, Division
<1>5. NextMultiplier(a) = IF n < 8000 THEN 8000 ELSE IF n > 15000 THEN 15000 ELSE n
  BY <1>1, <1>2 DEF NextMultiplier, Clamped
<1> QED BY <1>1, <1>4, <1>5 DEF Follows, One

(* A receipt not below the profile is carried by the averages, a smaller   *)
(* one by the multiplier.                                                  *)
LEMMA EstimateCovers ==
  ASSUME NEW a \in Nat, multiplier \in Nat, Follows(multiplier, a), venues \in [Kinds -> Mean],
         \A i \in DOMAIN Hops : venues[Hops[i]].n = MinSamples /\ venues[Hops[i]].mean = Share(a, Hops[i])
  PROVE  Estimate + Units(SwapEstimate) >= a * One
<1>1. PICK W : W = Units(SwapEstimate)
  OBVIOUS
<1>2. W \in Nat /\ Static <= W /\ Static \in Nat \ {0} /\ Along(SwapEstimate) <= W /\ Along(SwapEstimate) \in Nat
  <2>1. Static \in Nat \ {0} /\ AlongFits(SwapUnits)
    BY SwapsAre, Zenon
  <2>2. AlongFits(SwapEstimate) /\ \A k \in Kinds : SwapUnits[k] <= SwapEstimate[k]
    BY EstimateLarger, Zenon
  <2>3. \A k \in Kinds : SwapEstimate[k] <= SwapEstimate[k]
    BY <2>2 DEF AlongFits
  <2>4. Units(SwapUnits) <= Units(SwapEstimate)
    BY <2>1, <2>2, UnitsLarger, Zenon
  <2>5. /\ Along(SwapEstimate) <= Units(SwapEstimate) /\ Units(SwapEstimate) \in Nat /\ Along(SwapEstimate) \in Nat
    BY <2>2, <2>3, UnitsLarger, Zenon
  <2>6. Static <= Units(SwapEstimate)
    BY <2>4, Zenon DEF Static
  <2> QED BY <1>1, <2>1, <2>5, <2>6, Zenon
<1>3. PICK m \in Nat : m = multiplier
  OBVIOUS
<1>4. Estimate + Units(SwapEstimate) = W * (m + 1)
  <2>1. W * m + W = W * (m + 1)
    BY <1>2
  <2> QED BY <1>1, <1>3, <2>1 DEF Estimate
<1>5. CASE a >= Static
  <2>1. a >= Along(SwapUnits)
    BY <1>2, <1>5, SwapsAre
  <2>2. W >= a
    BY <1>2, <2>1, CalibratedIsAbove
  <2>3. m + 1 >= One
    <3>1. Ratio(a) >= One /\ Ratio(a) \in Nat /\ Ratio(a) >= 5000 /\ Ratio(a) <= 20000
      BY <1>5, RatioIs
    <3>2. m >= One \/ m >= Ratio(a)
      BY <1>3, Zenon DEF Follows
    <3> QED BY <3>1, <3>2 DEF One
  <2>4. W * (m + 1) >= a * (m + 1) /\ a * (m + 1) >= a * One
    BY <1>2, <2>2, <2>3, TimesLarger DEF One
  <2>5. W * (m + 1) \in Nat /\ a * (m + 1) \in Nat /\ a * One \in Nat
    BY <1>2 DEF One
  <2> QED BY <1>4, <2>4, <2>5
<1>6. CASE a < Static
  <2>1. PICK x \in Nat : x <= One /\ Ratio(a) >= x /\ a * One < Static * x + Static
    BY <1>6, RatioIs
  <2>2. m + 1 >= x + 1 /\ x + 1 \in Nat /\ m + 1 \in Nat
    <3>1. Ratio(a) \in Nat /\ Ratio(a) >= 5000 /\ Ratio(a) <= 20000
      BY RatioIs
    <3>2. m >= One \/ m >= Ratio(a)
      BY <1>3, Zenon DEF Follows
    <3> QED BY <2>1, <3>1, <3>2 DEF One
  <2>3. W * (x + 1) <= W * (m + 1) /\ Static * (x + 1) <= W * (x + 1)
    BY <1>2, <2>2, TimesLarger
  <2>4. Static * (x + 1) = Static * x + Static
    BY <1>2
  <2>5. W * (m + 1) \in Nat /\ W * (x + 1) \in Nat /\ Static * x + Static \in Nat /\ a * One \in Nat
    BY <1>2 DEF One
  <2> QED BY <1>4, <2>1, <2>3, <2>4, <2>5
<1> QED BY <1>2, <1>5, <1>6

-------------------------------------------------------------------------------
(* What a receipt teaches the venues.                                      *)
Hopped(v, k, a) == [v EXCEPT ![k] = Sampled(@, Share(a, k))]

LEMMA LearnedStays ==
  ASSUME NEW a, NEW D, venues \in D, \A v \in D : \A k \in Kinds : Hopped(v, k, a) \in D
  PROVE  Learned(a) \in D
<1> DEFINE n == Len(Hops)
           Taken(h) == [i \in 0 .. n |-> IF i = 0 THEN venues ELSE Hopped(h[i - 1], Hops[i], a)]
           after == CHOOSE h : h = Taken(h)
           F == [p \in (1 .. n) \X D |-> Hopped(p[2], Hops[p[1]], a)]
<1>1. n \in Nat /\ \A i \in 1 .. n : Hops[i] \in Kinds
  BY CalibrationAssumption, LenProperties, ElementOfSeq
<1>2. Learned(a) = after[n]
  BY DEF Learned, Hopped
<1> HIDE DEF n
<1>3. F \in [(1 .. n) \X D -> D]
  BY <1>1
<1>4. PICK K \in [0 .. n -> D] : StepsBy(F, venues, n, K)
  <2> HIDE DEF F
  <2> QED BY <1>1, <1>3, StepsExist
<1>5. ASSUME NEW i \in 0 .. n
      PROVE  K[i] = IF i = 0 THEN venues ELSE Hopped(K[i - 1], Hops[i], a)
  <2>1. CASE i = 0
    BY <1>4, <2>1 DEF StepsBy
  <2>2. CASE i # 0
    <3>1. i \in 1 .. n /\ i - 1 \in 0 .. n
      BY <1>1, <2>2
    <3>2. K[i] = F[<<i, K[i - 1]>>] /\ K[i - 1] \in D
      BY <1>4, <3>1 DEF StepsBy
    <3>3. F[<<i, K[i - 1]>>] = Hopped(K[i - 1], Hops[i], a)
      BY <3>1, <3>2
    <3> QED BY <2>2, <3>2, <3>3
  <2> QED BY <2>1, <2>2
<1>6. K = Taken(K)
  <2>1. K = [i \in 0 .. n |-> K[i]]
    OBVIOUS
  <2> QED BY <1>5, <2>1
<1>7. after = Taken(after)
  <2> HIDE DEF Taken
  <2> QED BY <1>6
<1> HIDE DEF after
<1>8. after[0] = venues /\ \A i \in 1 .. n : after[i] = Hopped(after[i - 1], Hops[i], a)
  <2>1. \A i \in 0 .. n : after[i] = Taken(after)[i]
    BY <1>7, Zenon
  <2>2. ASSUME NEW i \in 0 .. n
        PROVE  Taken(after)[i] = IF i = 0 THEN venues ELSE Hopped(after[i - 1], Hops[i], a)
    OBVIOUS
  <2> HIDE DEF Taken
  <2> QED BY <1>1, <2>1, <2>2
<1>9. \A i \in 1 .. n : after[i - 1] \in D => after[i] \in D
  BY <1>1, <1>8
<1>10. \A i \in 0 .. n : after[i] \in D
  BY <1>1, <1>8, <1>9, StepsStay
<1> QED BY <1>1, <1>2, <1>10

LEMMA SampledIs ==
  ASSUME NEW e \in Mean, NEW x \in Nat
  PROVE  /\ Sampled(e, x) \in Mean
         /\ e.n = 0 \/ e.mean = x => Sampled(e, x).mean = x
<1>1. e.mean \in Nat /\ e.n \in Nat /\ MinSamples \in Nat
  BY CalibrationAssumption DEF Mean
<1>2. PICK q : q = (e.mean * 85 + x * 15) \div 100
  OBVIOUS
<1>3. e.mean * 85 + x * 15 \in Nat
  BY <1>1
<1>4. q \in Nat /\ 100 * q <= e.mean * 85 + x * 15 /\ e.mean * 85 + x * 15 < 100 * q + 100
  BY <1>2, <1>3, Division
<1>5. e.mean = x => q = x
  BY <1>1, <1>4
<1>6. Sampled(e, x) = [mean |-> IF e.n = 0 THEN x ELSE q,
                       n |-> IF e.n = MinSamples THEN MinSamples ELSE e.n + 1]
  BY <1>2 DEF Sampled
<1> QED BY <1>1, <1>4, <1>5, <1>6 DEF Mean

LEMMA LearnedCarries ==
  ASSUME NEW a \in Nat, venues \in [Kinds -> Mean]
  PROVE  /\ Learned(a) \in [Kinds -> Mean]
         /\ Carries(venues, a) => Carries(Learned(a), a)
<1>1. ASSUME NEW k \in Kinds PROVE Share(a, k) \in Nat
  <2>1. PICK U \in Nat \ {0} : U = Along(SwapUnits)
    BY SwapsAre
  <2>2. PICK s \in Nat : s = a * SwapUnits[k]
    BY SwapsAre
  <2> QED BY <2>1, <2>2, Division DEF Share
<1>2. ASSUME NEW v \in [Kinds -> Mean], NEW k \in Kinds
      PROVE  /\ Hopped(v, k, a) \in [Kinds -> Mean]
             /\ Carries(v, a) => Carries(Hopped(v, k, a), a)
  <2> DEFINE new == Sampled(v[k], Share(a, k))
  <2>1. new \in Mean /\ (v[k].n = 0 \/ v[k].mean = Share(a, k) => new.mean = Share(a, k))
    BY <1>1, SampledIs
  <2>2. Hopped(v, k, a) = [v EXCEPT ![k] = new]
    BY DEF Hopped
  <2> HIDE DEF new
  <2>3. Hopped(v, k, a) \in [Kinds -> Mean]
    BY <2>1, <2>2
  <2>4. ASSUME Carries(v, a), NEW j \in Kinds
        PROVE  Hopped(v, k, a)[j].n = 0 \/ Hopped(v, k, a)[j].mean = Share(a, j)
    <3>1. CASE j = k
      <4>1. Hopped(v, k, a)[k] = new
        BY <2>2
      <4> QED BY <2>1, <2>4, <3>1, <4>1 DEF Carries
    <3>2. CASE j # k
      <4>1. Hopped(v, k, a)[j] = v[j]
        BY <2>2, <3>2
      <4> QED BY <2>4, <4>1 DEF Carries
    <3> QED BY <3>1, <3>2
  <2> QED BY <2>3, <2>4 DEF Carries
<1>3. Learned(a) \in [Kinds -> Mean]
  <2> DEFINE D == [Kinds -> Mean]
  <2>1. venues \in D /\ \A v \in D : \A k \in Kinds : Hopped(v, k, a) \in D
    BY <1>2
  <2> HIDE DEF D
  <2>2. Learned(a) \in D
    BY <2>1, LearnedStays
  <2> QED BY <2>2 DEF D
<1>4. ASSUME Carries(venues, a) PROVE Carries(Learned(a), a)
  <2> DEFINE D == {v \in [Kinds -> Mean] : Carries(v, a)}
  <2>1. venues \in D /\ \A v \in D : \A k \in Kinds : Hopped(v, k, a) \in D
    BY <1>2, <1>4
  <2> HIDE DEF D
  <2>2. Learned(a) \in D
    BY <2>1, LearnedStays
  <2> QED BY <2>2 DEF D
<1> QED BY <1>3, <1>4

-------------------------------------------------------------------------------
(* Where every receipt so far was a, in memory and on disk the averages    *)
(* carry a, and the multiplier is not below what a alone calls for.        *)
Same(a) == \A i \in DOMAIN taught : taught[i] = a
CalibrationInv ==
  /\ multiplier \in Nat /\ venues \in [Kinds -> Mean] /\ disk \in [Kinds -> Mean]
  /\ taught \in Seq(Receipts)
  /\ \A a \in Receipts :
       Same(a) => Carries(venues, a) /\ Carries(disk, a) /\ Follows(multiplier, a)

LEMMA NoSamplesCarry == NoSamples \in [Kinds -> Mean] /\ \A a : Carries(NoSamples, a)
  BY DEF NoSamples, Mean, Carries

LEMMA CalibrationStarts == CalibrationInit => CalibrationInv
<1> SUFFICES ASSUME CalibrationInit PROVE CalibrationInv
  OBVIOUS
<1>1. multiplier \in Nat /\ \A a : Follows(multiplier, a)
  BY DEF CalibrationInit, Follows, One
<1>2. taught \in Seq(Receipts)
  BY EmptySeq DEF CalibrationInit
<1>3. venues = NoSamples /\ disk = NoSamples
  BY DEF CalibrationInit
<1> QED BY <1>1, <1>2, <1>3, NoSamplesCarry DEF CalibrationInv

LEMMA CalibrationTaught ==
  ASSUME CalibrationInv, NEW b \in Receipts, ObserveGasUsed(b)
  PROVE  CalibrationInv'
<1>1. b \in Nat /\ multiplier \in Nat /\ venues \in [Kinds -> Mean] /\ disk \in [Kinds -> Mean] /\ taught \in Seq(Receipts)
  BY CalibrationAssumption DEF CalibrationInv
<1>2. /\ multiplier' = NextMultiplier(b) /\ venues' = Learned(b)
      /\ (disk' = disk \/ disk' = Learned(b)) /\ taught' = Append(taught, b)
  BY DEF ObserveGasUsed
<1>3. multiplier' \in Nat
  BY <1>1, <1>2, NextFollows
<1>4. Learned(b) \in [Kinds -> Mean]
  BY <1>1, LearnedCarries
<1>5. /\ taught' \in Seq(Receipts) /\ Len(taught') = Len(taught) + 1 /\ taught'[Len(taught) + 1] = b
      /\ \A i \in 1 .. Len(taught) : taught'[i] = taught[i]
  BY <1>1, <1>2, AppendProperties
<1>6. ASSUME NEW a \in Receipts, Same(a)'
      PROVE  Carries(venues, a)' /\ Carries(disk, a)' /\ Follows(multiplier, a)'
  <2>1. Len(taught) \in Nat /\ DOMAIN taught = 1 .. Len(taught) /\ DOMAIN taught' = 1 .. Len(taught')
    BY <1>1, <1>5, LenProperties
  <2>2. b = a
    BY <1>5, <1>6, <2>1 DEF Same
  <2>3. Same(a)
    BY <1>5, <1>6, <2>1 DEF Same
  <2>4. Carries(venues, a) /\ Carries(disk, a) /\ Follows(multiplier, a)
    BY <2>3 DEF CalibrationInv
  <2>5. Carries(Learned(a), a)
    BY <1>1, <2>2, <2>4, LearnedCarries
  <2>6. Follows(NextMultiplier(a), a)
    BY <1>1, <2>2, <2>4, NextFollows
  <2>7. Carries(venues', a) /\ Carries(disk', a) /\ Follows(multiplier', a)
    BY <1>2, <2>2, <2>4, <2>5, <2>6
  <2> QED BY <2>7 DEF Carries, Follows
<1> QED BY <1>1, <1>2, <1>3, <1>4, <1>5, <1>6 DEF CalibrationInv

LEMMA CalibrationRestarts ==
  ASSUME CalibrationInv, CalibrationRestart
  PROVE  CalibrationInv'
<1>1. multiplier' = One /\ (venues' = disk \/ venues' = NoSamples) /\ disk' = disk /\ taught' = taught
  BY DEF CalibrationRestart
<1>2. multiplier' \in Nat /\ \A a : Follows(multiplier, a)'
  BY <1>1 DEF Follows, One
<1>3. /\ disk' \in [Kinds -> Mean] /\ venues' \in [Kinds -> Mean] /\ taught' \in Seq(Receipts)
  BY <1>1, NoSamplesCarry DEF CalibrationInv
<1>4. ASSUME NEW a \in Receipts, Same(a)' PROVE Carries(venues, a)' /\ Carries(disk, a)'
  <2>1. Same(a)
    BY <1>1, <1>4 DEF Same
  <2>2. Carries(disk, a)
    BY <2>1 DEF CalibrationInv
  <2>3. Carries(venues', a) /\ Carries(disk', a)
    BY <1>1, <2>2, NoSamplesCarry
  <2> QED BY <2>3 DEF Carries
<1> QED BY <1>2, <1>3, <1>4 DEF CalibrationInv

LEMMA CalibrationStays == CalibrationInv /\ [CalibrationNext]_calibrationVars => CalibrationInv'
<1> SUFFICES ASSUME CalibrationInv, [CalibrationNext]_calibrationVars PROVE CalibrationInv'
  OBVIOUS
<1>1. CASE UNCHANGED calibrationVars
  BY <1>1 DEF calibrationVars, CalibrationInv, Same, Carries, Follows
<1>2. CASE \E b \in Receipts : ObserveGasUsed(b)
  BY <1>2, CalibrationTaught
<1>3. CASE CalibrationRestart
  BY <1>3, CalibrationRestarts
<1> QED BY <1>1, <1>2, <1>3 DEF CalibrationNext

LEMMA CalibrationIsCovered == CalibrationInv => LearnedIsCovered
<1> SUFFICES ASSUME CalibrationInv, NEW a \in Receipts, Same(a),
                    \A i \in DOMAIN Hops : venues[Hops[i]].n = MinSamples
             PROVE  Estimate + Units(SwapEstimate) >= a * One
  BY DEF LearnedIsCovered, Same
<1>1. a \in Nat /\ MinSamples # 0
  BY CalibrationAssumption
<1>2. /\ multiplier \in Nat /\ venues \in [Kinds -> Mean] /\ Carries(venues, a) /\ Follows(multiplier, a)
  BY DEF CalibrationInv
<1>3. \A i \in DOMAIN Hops : Hops[i] \in Kinds
  BY SwapsAre, AlongIs
<1>4. \A i \in DOMAIN Hops : venues[Hops[i]].n = MinSamples /\ venues[Hops[i]].mean = Share(a, Hops[i])
  BY <1>1, <1>2, <1>3 DEF Carries
<1> QED BY <1>1, <1>2, <1>4, EstimateCovers

(* LearnedIsCovered: once its venues are calibrated, a route whose receipts*)
(* are always the same is not underestimated, whatever the receipt is,     *)
(* whatever restarts lost (observe_gas_used, record_route,                 *)
(* swap_gas_estimate, estimate_gas_units_calibrated).                      *)
THEOREM CalibrationCovers == CalibrationSpec => []LearnedIsCovered
<1>1. CalibrationInit => CalibrationInv
  BY CalibrationStarts
<1>2. CalibrationInv /\ [CalibrationNext]_calibrationVars => CalibrationInv'
  BY CalibrationStays
<1>3. CalibrationInv => LearnedIsCovered
  BY CalibrationIsCovered
<1> QED BY <1>1, <1>2, <1>3, PTL DEF CalibrationSpec
=============================================================================
