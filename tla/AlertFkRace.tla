----------------------------- MODULE AlertFkRace -----------------------------
(***************************************************************************)
(* The race between an alert and the news item it is about, with time.     *)
(*                                                                         *)
(* A worker of news-processor publishes the alert before it hands the item *)
(* to saveBatcher, which saves a batch when it is full or when its ticker  *)
(* fires (internal/services/processor).  Meanwhile alert-worker asks       *)
(* main-service to insert the event; while the foreign key on news fails   *)
(* the handler waits and inserts again, pendingInsertRetryAttempts times   *)
(* with a doubling, capped pause (internal/handlers/news).  The offset of  *)
(* the alert is committed, so an alert that is refused is lost.            *)
(*                                                                         *)
(* One item that is no duplicate and one alert; of what can fail, only the *)
(* save call does, which loses the item and leaves nothing to alert about. *)
(***************************************************************************)
EXTENDS Integers

CONSTANTS
    FlushPeriod,    \* the ticker of saveBatcher
    Latency,        \* longest handover to the batch, and longest save call
    InitialBackoff, \* pendingInsertInitialRetryBackoff
    MaxBackoff,     \* pendingInsertMaxRetryBackoff
    MaxTime         \* bound: the clock

ASSUME RaceAssumption ==
    /\ FlushPeriod \in Nat \ {0} /\ Latency \in Nat
    /\ InitialBackoff \in Nat /\ MaxBackoff \in Nat /\ InitialBackoff <= MaxBackoff
    /\ MaxTime \in Nat

VARIABLES
    now,
    nextTick,  \* when the ticker fires next
    item,      \* "processing", "published" (its alert is), "batched", "saving", "saved", "lost"
    due,       \* when a published, batched or saving item gets on at the latest
    handler,   \* "idle", "waiting" (for wakeAt), "inserted", "refused"
    attempt, backoff,
    wakeAt     \* time of the next insert

raceVars == <<now, nextTick, item, due, handler, attempt, backoff, wakeAt>>
ticker == <<nextTick>>
call == <<handler, attempt, backoff, wakeAt>>

InsertAttempts == 5

Capped(b) == IF b <= MaxBackoff THEN b ELSE MaxBackoff

RaceInit ==
    /\ now = 0
    /\ nextTick = FlushPeriod
    /\ item = "processing" /\ due = 0
    /\ handler = "idle" /\ attempt = 1 /\ backoff = InitialBackoff /\ wakeAt = 0

-----------------------------------------------------------------------------
(* news-processor *)

\* publishAlertEvents: from now on alert-worker may read the alert.
PublishAlert ==
    /\ item = "processing"
    /\ item' = "published"
    /\ due' = now + Latency
    /\ UNCHANGED <<now, ticker, call>>

\* The worker's send to results, and saveBatcher's receive.
EnterBatch ==
    /\ item = "published"
    /\ item' = "batched"
    /\ due' = nextTick
    /\ UNCHANGED <<now, ticker, call>>

\* Other items have filled the batch.
FlushFull ==
    /\ item = "batched"
    /\ item' = "saving"
    /\ due' = now + Latency
    /\ UNCHANGED <<now, ticker, call>>

TickerFlush ==
    /\ now = nextTick
    /\ nextTick' = now + FlushPeriod
    /\ IF item = "batched"
       THEN item' = "saving" /\ due' = now + Latency
       ELSE UNCHANGED <<item, due>>
    /\ UNCHANGED <<now, call>>

\* SaveProcessedNews inserts the row of the item.
Save ==
    /\ item = "saving"
    /\ item' = "saved"
    /\ UNCHANGED <<now, ticker, due, call>>

\* The call returns an error; saveBatcher logs it and resets the batch.
SaveFails ==
    /\ item = "saving"
    /\ item' = "lost"
    /\ UNCHANGED <<now, ticker, due, call>>

-----------------------------------------------------------------------------
(* main-service *)

\* alert-worker has read the alert and calls ReserveAlertDelivery.
Reserve ==
    /\ handler = "idle"
    /\ item # "processing"
    /\ handler' = "waiting"
    /\ wakeAt' = now
    /\ UNCHANGED <<now, ticker, item, due, attempt, backoff>>

Insert ==
    /\ handler = "waiting" /\ now = wakeAt
    /\ item = "saved"
    /\ handler' = "inserted"
    /\ UNCHANGED <<now, ticker, item, due, attempt, backoff, wakeAt>>

\* Mutant: one attempt fewer.
LastAttemptEarly == attempt >= InsertAttempts - 1

LastAttempt == attempt >= InsertAttempts

\* The foreign key fails: wait and try again.
InsertAgain ==
    /\ handler = "waiting" /\ now = wakeAt
    /\ item # "saved"
    /\ ~LastAttempt
    /\ attempt' = attempt + 1
    /\ wakeAt' = now + backoff
    /\ backoff' = Capped(2 * backoff)
    /\ UNCHANGED <<now, ticker, item, due, handler>>

InsertRefused ==
    /\ handler = "waiting" /\ now = wakeAt
    /\ item # "saved"
    /\ LastAttempt
    /\ handler' = "refused"
    /\ UNCHANGED <<now, ticker, item, due, attempt, backoff, wakeAt>>

-----------------------------------------------------------------------------
\* Time passes up to the next thing that is due.
Tick ==
    /\ now < MaxTime
    /\ now < nextTick
    /\ item \in {"published", "batched", "saving"} => now < due
    /\ handler = "waiting" => now < wakeAt
    /\ now' = now + 1
    /\ UNCHANGED <<ticker, item, due, call>>

RaceNext ==
    \/ PublishAlert \/ EnterBatch \/ FlushFull \/ TickerFlush \/ Save \/ SaveFails
    \/ Reserve \/ Insert \/ InsertAgain \/ InsertRefused
    \/ Tick

RaceSpec == RaceInit /\ [][RaceNext]_raceVars

-----------------------------------------------------------------------------
(* Properties *)

\* Every variable has a value of its kind, and the counters their range.
RaceTypeOK ==
    /\ now \in Nat /\ nextTick \in Nat /\ now <= nextTick /\ nextTick <= now + FlushPeriod
    /\ item \in {"processing", "published", "batched", "saving", "saved", "lost"}
    /\ due \in Nat
    /\ handler \in {"idle", "waiting", "inserted", "refused"}
    /\ attempt \in 1 .. InsertAttempts
    /\ backoff \in 0 .. MaxBackoff
    /\ wakeAt \in Nat

\* How long createPendingEventWithRetry keeps trying.
Pause2 == Capped(2 * InitialBackoff)
Pause3 == Capped(2 * Pause2)
Pause4 == Capped(2 * Pause3)
RetryWindow == InitialBackoff + Pause2 + Pause3 + Pause4

\* An alert is refused only when its item was lost: the retries of the handler
\* outlast the way of every other item into the table.
AlertSurvives == handler = "refused" => item = "lost"
=============================================================================
