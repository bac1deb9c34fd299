-------------------------------- MODULE Runtime --------------------------------
(***************************************************************************)
(* The life of the process in src/main.rs: start-up step by step, the radar*)
(* and its supervisor, the executor, the tasks and threads that ask for a  *)
(* shutdown, the drain, and the watchdog of src/emergency_shutdown.rs.     *)
(*                                                                         *)
(* Shutdown is a broadcast: a receiver gets the messages sent since it     *)
(* subscribed, and none from before.  `sent' counts the messages and       *)
(* `since' keeps where each receiver subscribed; a receiver is used once.  *)
(*                                                                         *)
(* What the radar does with a block and the executor with a map of prices  *)
(* is one step here (Radar, SendAndConfirm).                               *)
(***************************************************************************)
EXTENDS Naturals, Sequences

CONSTANT Tui  \* ~ BOT_HEADLESS

ASSUME RuntimeAssumption == Tui \in BOOLEAN

VARIABLES
  main,    \* where main() stands
  radar,   \* where radar_task stands
  bot,     \* where bot_task stands
  sigtask, \* where shutdown_task stands
  early,   \* the thread that waits for Ctrl-C from the start
  tui,     \* the terminal's thread
  raw,     \* the terminal is in raw mode
  armed,   \* EMERGENCY_SHUTDOWN
  sent,    \* messages sent on shutdown_tx
  since,   \* sent when each receiver in use subscribed
  ending,  \* how the process ended
  stopsAsked    \* ghost: what the operator used to end it

taskVars == <<radar, bot, sigtask>>
threadVars == <<early, tui, raw>>
vars == <<main, taskVars, threadVars, armed, sent, since, ending, stopsAsked>>

(* Start-up's awaits in order; a shutdown is listened for in Heeding only. *)
Startup == <<"metrics", "http", "chainId", "ws", "manager", "health", "bot">>
Heeding == {"http", "ws", "manager", "health", "bot"}
(* The steps that may fail and end main with an error.                     *)
Fallible == {"http", "chainId", "ws", "manager"}
MainPlaces ==
  {Startup[i] : i \in DOMAIN Startup} \cup {"replay", "ready", "listen", "drain", "farewell", "return", "gone"}
RadarPlaces == {"off", "subscribe", "stream", "cycle", "alert", "backoff", "connect", "ended"}
BotPlaces == {"off", "select", "exec", "alert", "goodbye", "ended"}
SigPlaces == {"off", "wait", "alert", "ended"}
Receivers == {"main", "radar", "bot", "tui"}

Alive == ending = "none"
Heard(r) == sent > since[r]
Listen(r) == since' = [since EXCEPT ![r] = sent]
Tell == sent' = sent + 1

Init ==
  /\ main = "metrics"
  /\ radar = "off" /\ bot = "off" /\ sigtask = "off"
  /\ early = "wait" /\ raw = Tui
  /\ tui = IF Tui THEN "run" ELSE "ended"
  /\ armed = FALSE
  /\ sent = 0 /\ since = [r \in Receivers |-> 0]
  /\ ending = "none" /\ stopsAsked = {}

-------------------------------------------------------------------------------
(* main()                                                                  *)

Index(place) == CHOOSE i \in DOMAIN Startup : Startup[i] = place
InStartup == \E i \in DOMAIN Startup : Startup[i] = main

(* A step of start-up is done; the next one subscribes afresh.             *)
StartupStep ==
  /\ Alive /\ InStartup /\ Index(main) < Len(Startup)
  /\ main' = Startup[Index(main) + 1]
  /\ Listen("main")
  /\ UNCHANGED <<taskVars, threadVars, armed, sent, ending, stopsAsked>>

(* The bot is there, and the three tasks are spawned: the executor is      *)
(* subscribed here, the radar when it runs.                                *)
StartTasks ==
  /\ Alive /\ main = "bot" /\ main' = "ready"
  /\ radar' = "subscribe" /\ bot' = "select" /\ sigtask' = "wait"
  /\ since' = [since EXCEPT !["radar"] = sent, !["bot"] = sent]
  /\ UNCHANGED <<threadVars, armed, sent, ending, stopsAsked>>

(* Instead, when the configuration asks for it, blocks of the past are     *)
(* replayed (ReplayScan), without listening and without the tasks, and the *)
(* process ends, whether that works or not.                                *)
ReplayBegins ==
  /\ Alive /\ main = "bot" /\ main' = "replay"
  /\ UNCHANGED <<taskVars, threadVars, armed, sent, since, ending, stopsAsked>>
ReplayEnds ==
  /\ Alive /\ main = "replay" /\ main' = "return"
  /\ UNCHANGED <<taskVars, threadVars, armed, sent, since, ending, stopsAsked>>

(* A receiver of start-up gets the message: graceful_startup_cleanup.      *)
StartupAborted ==
  /\ Alive /\ main \in Heeding /\ Heard("main")
  /\ main' = "return"
  /\ UNCHANGED <<taskVars, threadVars, armed, sent, since, ending, stopsAsked>>

(* A `?' of start-up.                                                      *)
StartupFails ==
  /\ Alive /\ main \in Fallible
  /\ main' = "return"
  /\ UNCHANGED <<taskVars, threadVars, armed, sent, since, ending, stopsAsked>>

(* The alert that the system is ready is over; main starts to listen.      *)
Ready ==
  /\ Alive /\ main = "ready"
  /\ main' = "listen" /\ Listen("main")
  /\ UNCHANGED <<taskVars, threadVars, armed, sent, ending, stopsAsked>>

ShutdownRequested ==
  /\ Alive /\ main = "listen" /\ Heard("main")
  /\ main' = "drain"
  /\ UNCHANGED <<taskVars, threadVars, armed, sent, since, ending, stopsAsked>>

Drained ==
  /\ Alive /\ main = "drain"
  /\ radar = "ended" /\ bot = "ended" /\ sigtask = "ended"
  /\ main' = "farewell"
  /\ UNCHANGED <<taskVars, threadVars, armed, sent, since, ending, stopsAsked>>

(* shutdown_timeout: what is left is aborted.                              *)
DrainTimeout ==
  /\ Alive /\ main = "drain"
  /\ main' = "farewell"
  /\ radar' = "ended" /\ bot' = "ended" /\ sigtask' = "ended"
  /\ UNCHANGED <<threadVars, armed, sent, since, ending, stopsAsked>>

Farewell ==
  /\ Alive /\ main = "farewell"
  /\ main' = "return"
  /\ UNCHANGED <<taskVars, threadVars, armed, sent, since, ending, stopsAsked>>

(* main returns and its locals are dropped, the last declared first: the   *)
(* TuiGuard joins the terminal's thread, giving up after five seconds when *)
(* nothing has told it to end (it looks several times a second), and only  *)
(* then ShutdownOnDrop sends.  The process exits soon after.               *)
JoinedOrGivenUp == tui = "ended" \/ ~Heard("tui")
Return ==
  /\ Alive /\ main = "return" /\ JoinedOrGivenUp
  /\ main' = "gone" /\ Tell
  /\ UNCHANGED <<taskVars, threadVars, armed, since, ending, stopsAsked>>
Exit ==
  /\ Alive /\ main = "gone"
  /\ ending' = "returned"
  /\ UNCHANGED <<main, taskVars, threadVars, armed, sent, since, stopsAsked>>

-------------------------------------------------------------------------------
(* radar_task: start_high_hit_rate_radar and its supervisor                *)

RadarStep(from, to) == Alive /\ radar = from /\ radar' = to
RadarOnly ==
  UNCHANGED <<main, bot, sigtask, threadVars, armed, sent, since, ending, stopsAsked>>

RadarSubscribed == RadarStep("subscribe", "stream") /\ RadarOnly
RadarBlock == RadarStep("stream", "cycle") /\ RadarOnly
RadarCycleDone == RadarStep("cycle", "stream") /\ RadarOnly
RadarHears == RadarStep("stream", "ended") /\ Heard("radar") /\ RadarOnly

(* subscribe_blocks fails, the stream ends or stays silent, a cycle times  *)
(* out: the supervisor sends an alert.                                     *)
RadarFails ==
  /\ \E place \in {"subscribe", "stream", "cycle"} : RadarStep(place, "alert")
  /\ RadarOnly

(* After the alert the supervisor listens anew, for the back-off only.     *)
RadarAlerted ==
  /\ RadarStep("alert", "backoff")
  /\ Listen("radar")
  /\ UNCHANGED <<main, bot, sigtask, threadVars, armed, sent, ending, stopsAsked>>

RadarBackoffHears == RadarStep("backoff", "ended") /\ Heard("radar") /\ RadarOnly
RadarBackoffOver == RadarStep("backoff", "connect") /\ RadarOnly

(* connect_ws succeeds or not: the loop starts again with a new receiver,  *)
(* or with the old, dead connection, which fails soon.                     *)
EndsOnFailure(ok) == IF ok THEN "subscribe" ELSE "ended" \* a mutant
AfterConnect(ok) == "subscribe"
RadarConnected ==
  /\ \E ok \in BOOLEAN : RadarStep("connect", AfterConnect(ok))
  /\ Listen("radar")
  /\ UNCHANGED <<main, bot, sigtask, threadVars, armed, sent, ending, stopsAsked>>

-------------------------------------------------------------------------------
(* bot_task                                                                *)

BotStep(from, to) == Alive /\ bot = from /\ bot' = to
BotOnly ==
  UNCHANGED <<main, radar, sigtask, threadVars, armed, sent, since, ending, stopsAsked>>

(* The select is not biased: prices may be taken with a shutdown waiting.  *)
BotPrices == BotStep("select", "exec") /\ BotOnly
BotDone == BotStep("exec", "select") /\ BotOnly
BotFails == BotStep("exec", "alert") /\ BotOnly
BotAlerted == BotStep("alert", "select") /\ BotOnly
BotHears == BotStep("select", "goodbye") /\ Heard("bot") /\ BotOnly
BotEnds == BotStep("goodbye", "ended") /\ BotOnly

-------------------------------------------------------------------------------
(* Who asks for a shutdown                                                 *)

(* Bound: the operator uses each kind of request once.                     *)
SignalArrives(kind) ==
  /\ Alive /\ stopsAsked' = stopsAsked \cup {kind}
  /\ stopsAsked' # stopsAsked

(* Ctrl-C: the early thread sends and arms the watchdog; shutdown_task gets*)
(* the same signal when it is there.  Once tokio handles the signal the    *)
(* default action is gone.                                                 *)
EarlyOnlySends == armed' = armed \* a mutant
EarlyHandles == armed' = TRUE
Interrupt ==
  /\ SignalArrives("SIGINT")
  /\ early = "wait" /\ early' = "ended" /\ Tell /\ EarlyHandles
  /\ sigtask' = IF sigtask = "wait" THEN "alert" ELSE sigtask
  /\ UNCHANGED <<main, radar, bot, tui, raw, since, ending>>

(* SIGTERM: nobody handles it before shutdown_task, and it kills; once     *)
(* shutdown_task has ended it is swallowed.                                *)
Terminate ==
  /\ SignalArrives("SIGTERM")
  /\ IF sigtask = "off"
     THEN /\ ending' = "killed"
          /\ UNCHANGED sigtask
     ELSE /\ sigtask' = IF sigtask = "wait" THEN "alert" ELSE sigtask
          /\ UNCHANGED ending
  /\ UNCHANGED <<main, radar, bot, threadVars, armed, sent, since>>

(* The alert is over, or its five seconds are.                             *)
SignalTaskSends ==
  /\ Alive /\ sigtask = "alert" /\ sigtask' = "ended" /\ Tell
  /\ UNCHANGED <<main, radar, bot, threadVars, armed, since, ending, stopsAsked>>

(* `q', Esc or Ctrl-C in the terminal.                                     *)
QuitKey ==
  /\ SignalArrives("key")
  /\ tui = "run" /\ tui' = "ended" /\ raw' = FALSE
  /\ Tell /\ armed' = TRUE
  /\ UNCHANGED <<main, taskVars, early, since, ending>>

TuiHears ==
  /\ Alive /\ tui = "run" /\ Heard("tui")
  /\ tui' = "ended" /\ raw' = FALSE
  /\ UNCHANGED <<main, taskVars, early, armed, sent, since, ending, stopsAsked>>

(* The watchdog: armed, the process has a grace period and then ends.      *)
Watchdog ==
  /\ Alive /\ armed
  /\ ending' = "forced" /\ raw' = FALSE
  /\ UNCHANGED <<main, taskVars, early, tui, armed, sent, since, stopsAsked>>

Stopped == ~Alive /\ UNCHANGED vars

-------------------------------------------------------------------------------
MainStep ==
  \/ StartupStep \/ StartupAborted \/ StartTasks \/ ReplayBegins \/ ReplayEnds
  \/ Ready \/ ShutdownRequested \/ Drained \/ Farewell \/ Return \/ Exit
RadarTask ==
  \/ RadarSubscribed \/ RadarBlock \/ RadarCycleDone \/ RadarHears \/ RadarFails
  \/ RadarAlerted \/ RadarBackoffHears \/ RadarBackoffOver \/ RadarConnected
BotTask == BotPrices \/ BotDone \/ BotFails \/ BotAlerted \/ BotHears \/ BotEnds

Next ==
  \/ MainStep \/ StartupFails \/ DrainTimeout
  \/ RadarTask \/ BotTask
  \/ Interrupt \/ Terminate \/ SignalTaskSends \/ QuitKey \/ TuiHears \/ Watchdog
  \/ Stopped

(* Timers fire and threads run.  A step of start-up or an alert without a  *)
(* time limit may take for ever.                                           *)
TimerFairness ==
  WF_vars(Watchdog) /\ WF_vars(ShutdownRequested) /\ WF_vars(DrainTimeout)
    /\ WF_vars(SignalTaskSends) /\ WF_vars(TuiHears) /\ WF_vars(Return) /\ WF_vars(Exit)

Spec == Init /\ [][Next]_vars /\ TimerFairness

-------------------------------------------------------------------------------
(* Shapes, and: the tasks are there when start-up is over, the terminal is *)
(* raw as long as its thread runs, the watchdog is armed by the keyboard   *)
(* only, and nobody but the operator makes the process stop: no failure of *)
(* a block stream, a connection or a batch sends on shutdown_tx.           *)
RuntimeInv ==
  /\ main \in MainPlaces /\ radar \in RadarPlaces /\ bot \in BotPlaces /\ sigtask \in SigPlaces
  /\ early \in {"wait", "ended"} /\ tui \in {"run", "ended"} /\ raw \in BOOLEAN /\ armed \in BOOLEAN
  /\ sent \in Nat /\ since \in [Receivers -> Nat] /\ \A r \in Receivers : since[r] <= sent
  /\ ending \in {"none", "returned", "killed", "forced"} /\ stopsAsked \subseteq {"SIGINT", "SIGTERM", "key"}
  /\ (radar = "off" <=> bot = "off")
  /\ (InStartup => radar = "off")
  /\ (ending # "forced" => (raw <=> tui = "run"))
  /\ (armed => stopsAsked \cap {"SIGINT", "key"} # {})
  /\ (main # "gone" /\ sent > 0 => stopsAsked # {})

(* The radar survives every failure: its task ends only when a shutdown was*)
(* sent, never because a stream, a cycle or a new connection failed, and   *)
(* the executor's neither.                                                 *)
TasksOutliveFailures == "ended" \in {radar, bot} => sent > 0

(* Whoever asks the bot to stop is heard: Ctrl-C and `q' end the process   *)
(* whatever hangs, start-up in an RPC call, an alert without a time limit  *)
(* or a task that does not listen, and a signal taken when main already    *)
(* listens leads to the end of the drain even if no task answers.          *)
StopIsHeard ==
  /\ stopsAsked \cap {"SIGINT", "key"} # {} ~> ~Alive
  /\ main = "listen" /\ sigtask = "alert" ~> main \in {"farewell", "return", "gone"} \/ ~Alive

===============================================================================
