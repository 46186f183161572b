----------------------------- MODULE Ingestion -----------------------------
(***************************************************************************)
(* crates/ingestion: IngestionPipeline::run over a TransactionSource that  *)
(* pages through the operations of the ledger with a cursor, and the       *)
(* bounded channel to the consumer.                                        *)
(*                                                                         *)
(* The repository has no TransactionSource beyond the one of the tests:    *)
(* the source here pages as HttpHorizonClient does, and keeps its cursor   *)
(* to itself, since poll_next_batch is told nothing about what became of   *)
(* the batch before.  The consumer, and whoever calls run, are external.   *)
(***************************************************************************)
EXTENDS Selection

CONSTANTS
    LedgerLength,   \* bound: operations of the ledger, numbered from 1
    Normalizable,   \* those that normalize_horizon_operation accepts
    PageLimit,      \* HttpHorizonClient.page_limit
    MaxAttempts,    \* RetryConfig.max_attempts
    BaseDelay,      \* RetryConfig.base_delay
    MaxDelay,       \* RetryConfig.max_delay
    Capacity,       \* of the channel
    MaxRuns         \* bound: calls of run

ASSUME LedgerAssumption ==
    LedgerLength \in Nat /\ Normalizable \subseteq 1..LedgerLength
ASSUME PageAssumption == PageLimit \in Nat \ {0}
ASSUME RetryAssumption ==
    MaxAttempts \in Nat \ {0} /\ BaseDelay \in Nat /\ MaxDelay \in Nat
ASSUME ChannelAssumption == Capacity \in Nat \ {0} /\ MaxRuns \in Nat \ {0}

VARIABLES
    cursor,        \* the source: operations up to here have been fetched
    pc,            \* where run is suspended
    attempt,       \* fetch_with_retry: failed polls of this fetch
    delay,         \* fetch_with_retry: the next delay
    batch,         \* run: transactions of the batch still to be sent
    dead_letters,  \* IngestionPipeline.dead_letters
    channel,       \* sent and not yet received
    connected,     \* neither end of the channel has been dropped
    handed,        \* history: everything send has accepted
    runs,          \* history: calls of run so far
    start          \* history: cursor and Len(handed) when this run began

fetchVars == <<attempt, delay>>
channelVars == <<channel, connected>>
historyVars == <<runs, start>>
vars == <<cursor, pc, fetchVars, batch, dead_letters, channelVars, handed,
          historyVars>>

TypeOK ==
    /\ cursor \in 0..LedgerLength
    /\ pc \in {"fetch", "backoff", "send", "sleep", "returned"}
    /\ attempt \in 0..MaxAttempts
    /\ delay \in Nat
    /\ batch \in Seq(Normalizable)
    /\ dead_letters \in Seq(Seq(Normalizable))
    /\ channel \in Seq(Normalizable) /\ Len(channel) <= Capacity
    /\ connected \in BOOLEAN
    /\ handed \in Seq(Normalizable)
    /\ runs \in 1..MaxRuns
    /\ start \in [cursor : 0..LedgerLength, handed : Nat]

Init ==
    /\ cursor = 0
    /\ pc = "fetch"
    /\ attempt = 0
    /\ delay = BaseDelay
    /\ batch = << >>
    /\ dead_letters = << >>
    /\ channel = << >>
    /\ connected = TRUE
    /\ handed = << >>
    /\ runs = 1
    /\ start = [cursor |-> 0, handed |-> 0]

-----------------------------------------------------------------------------
(* fetch_with_retry *)

\* normalize_horizon_operation returns Ok: the timestamp of the operation
\* parses (every other field has a default).
Normalizes(op) == op \in Normalizable

\* The operations in from+1..to that fetch_operations makes transactions of:
\* one that cannot be normalised is logged and skipped.
Kept(from, to) == {op \in (from + 1)..to : Normalizes(op)}

\* The transactions it returns, in ledger order.
Fetched(from, to) == Ascending(Kept(from, to))

\* Mutant: the cursor skips the operation after a page.
PollAnswersAhead(n) ==
    /\ pc = "fetch"
    /\ cursor + n <= LedgerLength
    /\ batch' = Fetched(cursor, cursor + n)
    /\ cursor' = IF cursor + n < LedgerLength /\ n = PageLimit
                 THEN cursor + n + 1 ELSE cursor + n
    /\ pc' = "send"
    /\ UNCHANGED <<fetchVars, dead_letters, channelVars, handed, historyVars>>

\* poll_next_batch returns Ok: a page of n operations, none when the ledger
\* has nothing new; the cursor moves past all of them.
PollAnswers(n) ==
    /\ pc = "fetch"
    /\ cursor + n <= LedgerLength
    /\ batch' = Fetched(cursor, cursor + n)
    /\ cursor' = cursor + n
    /\ pc' = "send"
    /\ UNCHANGED <<fetchVars, dead_letters, channelVars, handed, historyVars>>

\* Mutant: one attempt more than max_attempts allows.
PollFailsOnceMore ==
    /\ pc = "fetch"
    /\ attempt' = attempt + 1
    /\ pc' = IF attempt' > MaxAttempts THEN "sleep" ELSE "backoff"
    /\ UNCHANGED <<cursor, delay, batch, dead_letters, channelVars, handed,
                   historyVars>>

\* Mutant: run propagates the error of a fetch instead of going on.
PollFailsForGood ==
    /\ pc = "fetch"
    /\ attempt' = attempt + 1
    /\ pc' = IF attempt' >= MaxAttempts THEN "returned" ELSE "backoff"
    /\ UNCHANGED <<cursor, delay, batch, dead_letters, channelVars, handed,
                   historyVars>>

\* poll_next_batch returns Err: back off and retry, or, with the attempts
\* used up, return the error, which run ignores.
PollFails ==
    /\ pc = "fetch"
    /\ attempt' = attempt + 1
    /\ pc' = IF attempt' >= MaxAttempts THEN "sleep" ELSE "backoff"
    /\ UNCHANGED <<cursor, delay, batch, dead_letters, channelVars, handed,
                   historyVars>>

\* Mutant: the delay doubles without a ceiling.
BackOffUncapped ==
    /\ pc = "backoff"
    /\ delay' = 2 * delay
    /\ pc' = "fetch"
    /\ UNCHANGED <<cursor, attempt, batch, dead_letters, channelVars, handed,
                   historyVars>>

\* The sleep is over; the delay of the next one is set.
BackOff ==
    /\ pc = "backoff"
    /\ delay' = IF 2 * delay < MaxDelay THEN 2 * delay ELSE MaxDelay
    /\ pc' = "fetch"
    /\ UNCHANGED <<cursor, attempt, batch, dead_letters, channelVars, handed,
                   historyVars>>

-----------------------------------------------------------------------------
(* run *)

\* Mutant: a full channel drops the transaction instead of waiting for room.
SendOrDrop ==
    /\ pc = "send"
    /\ batch # << >>
    /\ connected
    /\ batch' = Tail(batch)
    /\ IF Len(channel) < Capacity
       THEN /\ channel' = Append(channel, Head(batch))
            /\ handed' = Append(handed, Head(batch))
       ELSE UNCHANGED <<channel, handed>>
    /\ UNCHANGED <<cursor, pc, fetchVars, dead_letters, connected, historyVars>>

\* send waits for room in the channel and puts the transaction in.
Send ==
    /\ pc = "send"
    /\ batch # << >>
    /\ connected
    /\ Len(channel) < Capacity
    /\ channel' = Append(channel, Head(batch))
    /\ handed' = Append(handed, Head(batch))
    /\ batch' = Tail(batch)
    /\ UNCHANGED <<cursor, pc, fetchVars, dead_letters, connected, historyVars>>

\* The receiver is gone: run returns ChannelClosed, and its locals with it.
SendFails ==
    /\ pc = "send"
    /\ batch # << >>
    /\ ~connected
    /\ batch' = << >>
    /\ pc' = "returned"
    /\ UNCHANGED <<cursor, fetchVars, dead_letters, channelVars, handed,
                   historyVars>>

BatchSent ==
    /\ pc = "send"
    /\ batch = << >>
    /\ pc' = "sleep"
    /\ UNCHANGED <<cursor, fetchVars, batch, dead_letters, channelVars, handed,
                   historyVars>>

\* poll_interval has passed: the next fetch starts counting anew.
Tick ==
    /\ pc = "sleep"
    /\ pc' = "fetch"
    /\ attempt' = 0
    /\ delay' = BaseDelay
    /\ UNCHANGED <<cursor, batch, dead_letters, channelVars, handed,
                   historyVars>>

-----------------------------------------------------------------------------
(* The consumer and the caller *)

Receive ==
    /\ channel # << >>
    /\ channel' = Tail(channel)
    /\ UNCHANGED <<cursor, pc, fetchVars, batch, dead_letters, connected,
                   handed, historyVars>>

\* The consumer drops its receiver and what is queued in it.
DropReceiver ==
    /\ connected
    /\ connected' = FALSE
    /\ channel' = << >>
    /\ UNCHANGED <<cursor, pc, fetchVars, batch, dead_letters, handed,
                   historyVars>>

\* The caller drops the future of run, wherever it is suspended.
DropRun ==
    /\ pc # "returned"
    /\ pc' = "returned"
    /\ batch' = << >>
    /\ connected' = FALSE
    /\ UNCHANGED <<cursor, fetchVars, dead_letters, channel, handed,
                   historyVars>>

\* drain_dead_letters, once run has given the pipeline back.
DrainDeadLetters ==
    /\ pc = "returned"
    /\ dead_letters' = << >>
    /\ UNCHANGED <<cursor, pc, fetchVars, batch, channelVars, handed,
                   historyVars>>

\* The caller calls run again, with a new channel.
RunAgain ==
    /\ pc = "returned"
    /\ runs < MaxRuns
    /\ runs' = runs + 1
    /\ start' = [cursor |-> cursor, handed |-> Len(handed)]
    /\ pc' = "fetch"
    /\ attempt' = 0
    /\ delay' = BaseDelay
    /\ connected' = TRUE
    /\ channel' = << >>
    /\ UNCHANGED <<cursor, batch, dead_letters, handed>>

-----------------------------------------------------------------------------
Answer == \E n \in 0..PageLimit : PollAnswers(n)

Progress == \E n \in 1..PageLimit : PollAnswers(n)

Run ==
    \/ Answer
    \/ PollFails
    \/ BackOff
    \/ Send
    \/ SendFails
    \/ BatchSent
    \/ Tick

Next ==
    \/ Run
    \/ Receive
    \/ DropReceiver
    \/ DropRun
    \/ DrainDeadLetters
    \/ RunAgain

\* The runtime polls the future of run, every poll of the source returns,
\* and the consumer receives what is in the channel.
Fairness == WF_vars(Run) /\ WF_vars(Receive)

Spec == Init /\ [][Next]_vars /\ Fairness

-----------------------------------------------------------------------------
(* Properties *)

\* What this run has handed over, and what it is about to.
HandedByRun ==
    SubSeq(handed, start.handed + 1, Len(handed)) \o batch

\* A run hands its consumer the transactions of every page it fetched, each
\* once and in ledger order, whatever fails, backs off or blocks in between.
HandsOverEveryPage ==
    pc # "returned" =>
      /\ IsAscending(HandedByRun)
      /\ ToSet(HandedByRun) = Kept(start.cursor, cursor)

\* The delay after n failures, if it doubled with each and had no ceiling.
Doubled[n \in 0..MaxAttempts] ==
    IF n = 0 THEN BaseDelay ELSE 2 * Doubled[n - 1]

\* The delay between two attempts of a fetch: the base delay doubles with
\* every failure, up to the ceiling, and a fetch that has failed max_attempts
\* times never waits for another attempt.
BackoffBounded ==
    pc = "backoff" =>
      /\ attempt < MaxAttempts
      /\ delay = IF attempt > 1 /\ Doubled[attempt - 1] > MaxDelay
                 THEN MaxDelay ELSE Doubled[attempt - 1]

\* One bad poll, or any number of them, never halts monitoring: the source is
\* polled again and again until the channel is closed or the future dropped
\* (pipeline.rs:108-110).
MonitoringContinues == []<>(pc = "fetch") \/ <>~connected

\* If the source keeps answering with new operations, a run that is left
\* alone hands over every operation that can be normalised.
EveryOperationArrives ==
    SF_vars(Progress) =>
      \/ <>~connected
      \/ \A op \in Normalizable : <>(op \in ToSet(handed))

\* pipeline.rs:5-12: transactions are not silently lost; a batch that could
\* not be handed over is kept as a dead letter or delivered again.
NothingSilentlyLost ==
    \A op \in Normalizable \cap 1..cursor :
      \/ op \in ToSet(handed) \cup ToSet(batch)
      \/ \E letter \in ToSet(dead_letters) : op \in ToSet(letter)

=============================================================================
