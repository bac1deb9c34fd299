--------------------------------- MODULE Paper ---------------------------------
(***************************************************************************)
(* core/paper_validation.rs: what becomes of a route that is simulated in  *)
(* place of being sent.  The executor calls the contract at one block,     *)
(* makes a sample of the answer and hands it, without waiting, to the hub: *)
(* a bounded channel and one writer, which appends a row to the CSV, adds  *)
(* the sample to the aggregate, and prints a summary every window.         *)
(***************************************************************************)
EXTENDS Naturals, Integers, Sequences, SequencesExt, FiniteSets

CONSTANTS
    Outcomes,       \* which of AllOutcomes the node may bring about
    QueueSize,      \* the 256 of the channel
    SummaryWindow,
    MaxSamples      \* bound on the routes of a behaviour

AllOutcomes == {"unencodable", "archive", "refused", "reverted", "timeout", "unmeasured", "gain", "loss"}

ASSUME PaperAssumption ==
    /\ Outcomes \subseteq AllOutcomes /\ {QueueSize, SummaryWindow} \subseteq Nat \ {0}
    /\ MaxSamples \in Nat

VARIABLES
    observing,      \* observation_active(config)
    discarded,      \* routes dropped by fee tier or liquidity since the hub started
    seen,           \* routes observed so far
    executor,       \* where the executor is, with the hub it got and its sample
    hub,            \* has the client's slot a hub?
    queue,          \* the channel
    writing,        \* <<>> or <<the sample the writer holds>>
    aggregate,      \* the samples the summaries speak of
    file,           \* lines of the CSV
    summary,        \* what was printed last
    dropped,        \* samples the full channel refused since the start
    unwritten,      \* samples whose row could not be written
    submitted       \* samples handed to the hub since the start

paperVars == <<observing, discarded, seen, executor, hub, queue, writing, aggregate, file,
               summary, dropped, unwritten, submitted>>

Created == -1       \* the file is there
HeaderLine == 0         \* its first line; rows are the numbers of their samples
Resting == [at |-> "resting"]

PaperInit ==
    /\ observing \in BOOLEAN /\ discarded = 0 /\ seen = 0 /\ executor = Resting
    /\ hub = FALSE /\ queue = <<>> /\ writing = <<>> /\ aggregate = <<>> /\ file = <<>>
    /\ summary = <<>> /\ dropped = {} /\ unwritten = {} /\ submitted = {}

(***************************************************************************)
(* Data.  decode_revert_message prefers the ABI's string to the provider's *)
(* text; a call the contract answers with FALSE is made again against the  *)
(* pool, for its reason.  Which sample never reached the node is guessed   *)
(* from the words of the reason.                                           *)
(***************************************************************************)
Reason(outcome) ==
    CASE outcome = "unencodable" -> "venue not supported"
      [] outcome = "archive"     -> "archive state unavailable"
      [] outcome = "refused"     -> "returned false; the pool's reason"
      [] outcome = "reverted"    -> "executeFlashloan revert"
      [] outcome = "timeout"     -> "Simulation timeout"
      [] OTHER                   -> ""

SimOk(outcome) == outcome \in {"unmeasured", "gain", "loss"}
Realized(outcome) == CASE outcome = "gain" -> {1} [] outcome = "loss" -> {-1} [] OTHER -> {}

(* build_sample: the error is measured against the gross less the premium, *)
(* the false promise against the net.  An Err of the validation is recorded*)
(* with a realized profit of zero.                                         *)
Predicted == 2
Sample(id, outcome) ==
    LET err == outcome \in {"unencodable", "archive"}
        real == IF err THEN {0} ELSE Realized(outcome)
    IN  [id |-> id, ok |-> SimOk(outcome), reason |-> Reason(outcome),
         errors |-> {Predicted - r : r \in real},
         false |-> IF real = {} THEN ~SimOk(outcome) ELSE \A r \in real : r <= 0]

ReachedEthCall(s) == s.ok \/ s.reason # "venue not supported"

(* PaperAggregate::from_samples                                            *)
Tally(samples, P(_)) == Len(SelectSeq(samples, P))
Percentile(sorted, p) == IF sorted = <<>> THEN {} ELSE {sorted[(p * (Len(sorted) - 1)) \div 100 + 1]}
AggregateOf(samples) ==
    LET errors == SortSeq(FlattenSeq([i \in DOMAIN samples |-> SetToSeq(samples[i].errors)]), <)
    IN  [n |-> Len(samples), reverts |-> Tally(samples, LAMBDA s : ~s.ok),
         falses |-> Tally(samples, LAMBDA s : s.false), reached |-> Tally(samples, ReachedEthCall),
         p50 |-> Percentile(errors, 50), p95 |-> Percentile(errors, 95), discarded |-> discarded]

(* ensure_paper_hub: the hub is started once, and the counters with it.    *)
EnsureHub ==
    IF observing /\ ~hub THEN hub' = TRUE /\ discarded' = 0 ELSE UNCHANGED <<hub, discarded>>

(* run_paper_validation: the hub first, then the block and the call.       *)
ObserveRoute ==
    /\ executor = Resting /\ seen < MaxSamples
    /\ EnsureHub
    /\ seen' = seen + 1
    /\ executor' = [at |-> "calling", hub |-> observing]
    /\ UNCHANGED <<observing, queue, writing, aggregate, file, summary, dropped, unwritten, submitted>>

(* try_submit: a full channel refuses the sample, and nobody waits.        *)
TrySubmit(s) ==
    /\ submitted' = submitted \cup {s.id}
    /\ IF Len(queue) < QueueSize THEN queue' = Append(queue, s) /\ UNCHANGED dropped
       ELSE dropped' = dropped \cup {s.id} /\ UNCHANGED queue

(* The answer.  After an Err the hub is asked for again, and the setting   *)
(* may have changed meanwhile.                                             *)
Validated ==
    /\ executor.at = "calling"
    /\ \E outcome \in Outcomes :
         LET s == Sample(seen, outcome)
             again == outcome \in {"unencodable", "archive"}
         IN  /\ IF again THEN EnsureHub ELSE UNCHANGED <<hub, discarded>>
             /\ IF (IF again THEN observing ELSE executor.hub) THEN TrySubmit(s)
                ELSE UNCHANGED <<queue, dropped, submitted>>
    /\ executor' = Resting
    /\ UNCHANGED <<observing, seen, writing, aggregate, file, summary, unwritten>>

(* The writer takes a sample ...                                           *)
TakeSample ==
    /\ hub /\ writing = <<>> /\ queue # <<>>
    /\ writing' = <<Head(queue)>> /\ queue' = Tail(queue)
    /\ UNCHANGED <<observing, discarded, seen, executor, hub, aggregate, file, summary, dropped,
                   unwritten, submitted>>

(* ... appends its row, with a header to a file that did not exist; each   *)
(* of the writes may fail, and an empty file stays without a header ...    *)
Written(row) ==
    IF file = <<>> THEN {<<>>, <<Created>>, <<Created, HeaderLine>>, <<Created, HeaderLine, row>>}
    ELSE {file, Append(file, row)}

(* ... and counts it either way; at a full window it prints the summary.   *)
CountWritten(s) ==
    IF Contains(file', s.id) THEN aggregate' = Append(aggregate, s) /\ UNCHANGED summary
    ELSE UNCHANGED <<aggregate, summary>>

Count(s) ==
    /\ aggregate' = Append(aggregate, s)
    /\ summary' = IF Len(aggregate') % SummaryWindow = 0 THEN <<AggregateOf(aggregate')>> ELSE summary

WriteSample ==
    /\ writing # <<>>
    /\ file' \in Written(writing[1].id)
    /\ unwritten' = IF Contains(file', writing[1].id) THEN unwritten ELSE unwritten \cup {writing[1].id}
    /\ Count(writing[1]) /\ writing' = <<>>
    /\ UNCHANGED <<observing, discarded, seen, executor, hub, queue, dropped, submitted>>

(* The radar's threads count what they leave out; the configuration changes*)
(* and the process starts anew, with the file of the last one.             *)
Discard ==
    /\ discarded < 1 /\ discarded' = discarded + 1
    /\ UNCHANGED <<observing, seen, executor, hub, queue, writing, aggregate, file, summary, dropped,
                   unwritten, submitted>>
PaperReload ==
    /\ observing' = ~observing
    /\ UNCHANGED <<discarded, seen, executor, hub, queue, writing, aggregate, file, summary, dropped,
                   unwritten, submitted>>
PaperRestart ==
    /\ executor' = Resting /\ hub' = FALSE /\ queue' = <<>> /\ writing' = <<>> /\ aggregate' = <<>>
    /\ summary' = <<>> /\ dropped' = {} /\ unwritten' = {} /\ submitted' = {} /\ discarded' = 0
    /\ UNCHANGED <<observing, seen, file>>

PaperNext ==
    \/ ObserveRoute \/ Validated \/ TakeSample \/ WriteSample
    \/ Discard \/ PaperReload \/ PaperRestart

PaperSpec == PaperInit /\ [][PaperNext]_paperVars

-------------------------------------------------------------------------------
(* Properties *)

Ids(samples) == [i \in DOMAIN samples |-> samples[i].id]
Increasing(s) == \A i, j \in DOMAIN s : i < j => s[i] < s[j]

(* No sample is lost without a word, told twice or told out of turn: what  *)
(* was handed to the hub was refused by a full channel, waits in it, is    *)
(* being written, or is in the aggregate; the order is the order of the    *)
(* executor, in memory as in a file that outlives restarts; and a counted  *)
(* sample without a row is one whose row could not be written              *)
(* (PaperValidationHub::spawn, try_submit, append_csv_row).                *)
SamplesAreKept ==
    LET way == Ids(aggregate \o writing \o queue) IN
    /\ Increasing(way) /\ Increasing(file)
    /\ Range(way) \cup dropped = submitted /\ Range(way) \cap dropped = {}
    /\ Range(Ids(aggregate)) \ Range(file) = unwritten
===============================================================================
