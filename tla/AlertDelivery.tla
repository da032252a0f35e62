---------------------------- MODULE AlertDelivery ----------------------------
(***************************************************************************)
(* Delivery of keyword alerts.                                             *)
(*                                                                         *)
(* news-processor publishes alert events to the Kafka topic news_alerts.   *)
(* One or more alert-worker processes read them (internal/services/        *)
(* alertworker) and, for every event, ask main-service over gRPC to        *)
(* reserve the delivery (internal/handlers/news, internal/store/alerting), *)
(* send the message to Telegram with retries, and ask main-service to      *)
(* record the outcome.  An event that was refused RetryAttempts times is   *)
(* published to the dead letter topic.                                     *)
(*                                                                         *)
(* A gRPC handler is a goroutine of its own: it takes several database     *)
(* steps, other handlers run between them, and it may outlive the worker   *)
(* that called it.  rpc[c] is handler slot c.                              *)
(***************************************************************************)
EXTENDS Integers, FiniteSets

CONSTANTS
    Workers,         \* alert-worker processes of one consumer group
    Calls,           \* slots for concurrent gRPC handlers of main-service
    Rules, News,     \* alert_rules.id, news.id
    Events,          \* alert event ids (a fresh uuid for every match)
    RuleOf, NewsOf,  \* the rule and the news item of an event
    Cooldown,        \* alert_rules.cooldown_seconds
    RetryAttempts,   \* sends per event: retryAttempts = 3 in the code
    InsertAttempts,  \* inserts per reservation: pendingInsertRetryAttempts = 5
    TicksPerSecond,  \* resolution of the clock below one second
    MaxCopies,       \* bound: times the producer may write one event
    MaxFaults,       \* bound: transport, database and broker errors
    MaxCrashes,      \* bound: stops of a worker in the middle of an event
    MaxTime,         \* bound: clock
    NoWorker, NoEvent

\* What the proofs and the runs assume of the constants.
ASSUME DeliveryAssumption ==
    /\ RuleOf \in [Events -> Rules]
    /\ NewsOf \in [Events -> News]
    /\ Cooldown \in [Rules -> Nat]
    /\ RetryAttempts \in Nat \ {0}
    /\ InsertAttempts \in Nat \ {0}
    /\ TicksPerSecond \in Nat \ {0}
    /\ MaxCopies \in Nat /\ MaxFaults \in Nat /\ MaxCrashes \in Nat /\ MaxTime \in Nat
    /\ NoWorker \notin Workers
    /\ NoEvent \notin Events

VARIABLES
    inbox,     \* unread copies of an event in news_alerts
    copies,    \* copies ever written (bounds Publish)
    rule,      \* is the row of alert_rules there
    news,      \* the row of news: not yet saved, saved, or removed by retention
    row,       \* delivery_status of the row of alert_events, "none" without one
    sentAt,    \* its column sent_at
    pc,        \* where handleEvent of a worker is
    event,     \* the event it handles
    attempt,   \* the loop variable of its send loop
    at,        \* sentAt of handleEvent: when Send returned without an error
    rpc,       \* the gRPC handlers running in main-service
    now,       \* clock shared by the processes
    faults, crashes,
    tg,        \* messages of an event that reached the Telegram chat
    toldAt,    \* when the last of them did
    errs,      \* sends of an event that returned an error
    dlt        \* events in the dead letter topic

topics  == <<inbox, copies, dlt>>
tables  == <<rule, news, row, sentAt>>
worker  == <<pc, event, attempt, at>>
chat    == <<tg, toldAt, errs>>
bounds  == <<now, faults, crashes>>
vars    == <<inbox, copies, rule, news, row, sentAt, pc, event, attempt, at,
             rpc, now, faults, crashes, tg, toldAt, errs, dlt>>

-----------------------------------------------------------------------------
(* Values *)

Statuses == {"none", "pending", "sent", "failed", "dropped"}
Terminal == {"sent", "failed", "dropped"}

\* "read": in ReadMessage.  "reserve", "sent", "failed": about to call
\* main-service.  "reserving", "finalizing": waiting for its answer.
PCs == {"read", "reserve", "reserving", "send", "backoff",
        "sent", "failed", "finalizing", "dlt"}

ReserveSteps  == {"insert", "cooldown", "lastsent", "drop"}
FinalizeSteps == {"sent", "failed"}

CallRecords == [step   : {"free"} \cup ReserveSteps \cup FinalizeSteps,
                event  : Events \cup {NoEvent},
                try    : Nat,
                client : Workers \cup {NoWorker},
                at     : Int]

FreeCall == [step |-> "free", event |-> NoEvent, try |-> 0,
             client |-> NoWorker, at |-> 0]

SamePair(e, f) == RuleOf[e] = RuleOf[f] /\ NewsOf[e] = NewsOf[f]

\* A parent of the event's row was deleted; neither comes back under its id.
Gone(e) == rule[RuleOf[e]] = "deleted" \/ news[NewsOf[e]] = "deleted"

\* time.Unix drops the fraction of a second.
Unix(t) == t - (t % TicksPerSecond)

-----------------------------------------------------------------------------
Init ==
    /\ inbox = [e \in Events |-> 0]
    /\ copies = [e \in Events |-> 0]
    /\ rule = [r \in Rules |-> "live"]
    /\ news = [n \in News |-> "unsaved"]
    /\ row = [e \in Events |-> "none"]
    /\ sentAt = [e \in Events |-> 0]
    /\ pc = [w \in Workers |-> "read"]
    /\ event = [w \in Workers |-> NoEvent]
    /\ attempt = [w \in Workers |-> 0]
    /\ at = [w \in Workers |-> 0]
    /\ rpc = [c \in Calls |-> FreeCall]
    /\ now = 0
    /\ faults = 0
    /\ crashes = 0
    /\ tg = [e \in Events |-> 0]
    /\ toldAt = [e \in Events |-> 0]
    /\ errs = [e \in Events |-> 0]
    /\ dlt = {}

Fault == faults < MaxFaults /\ faults' = faults + 1

-----------------------------------------------------------------------------
(* The producer, the owners of the parent rows, the clock *)

\* publishAlertEvents writes an event as soon as it matched, before the news
\* item is saved.  A retried write leaves a second copy of it in the topic.
Publish(e) ==
    /\ copies[e] < MaxCopies
    /\ copies' = [copies EXCEPT ![e] = @ + 1]
    /\ inbox' = [inbox EXCEPT ![e] = @ + 1]
    /\ UNCHANGED <<dlt, tables, worker, rpc, chat, bounds>>

\* UpsertBatch inserts the news row.
SaveNews(n) ==
    /\ news[n] = "unsaved"
    /\ news' = [news EXCEPT ![n] = "saved"]
    /\ UNCHANGED <<topics, rule, row, sentAt, worker, rpc, chat, bounds>>

\* Retention deletes a news row; ON DELETE CASCADE deletes its alert events.
DeleteNews(n) ==
    /\ news[n] = "saved"
    /\ news' = [news EXCEPT ![n] = "deleted"]
    /\ row' = [e \in Events |-> IF NewsOf[e] = n THEN "none" ELSE row[e]]
    /\ UNCHANGED <<topics, rule, sentAt, worker, rpc, chat, bounds>>

\* The user deletes a rule; ON DELETE CASCADE deletes its alert events.
DeleteRule(r) ==
    /\ rule[r] = "live"
    /\ rule' = [rule EXCEPT ![r] = "deleted"]
    /\ row' = [e \in Events |-> IF RuleOf[e] = r THEN "none" ELSE row[e]]
    /\ UNCHANGED <<topics, news, sentAt, worker, rpc, chat, bounds>>

Tick ==
    /\ now < MaxTime
    /\ now' = now + 1
    /\ UNCHANGED <<topics, tables, worker, rpc, chat, faults, crashes>>

-----------------------------------------------------------------------------
(* alert-worker: reading *)

\* Mutant: the message is fetched and its offset never committed.
ReadWithoutCommit(w, e) ==
    /\ pc[w] = "read"
    /\ inbox[e] > 0
    /\ pc' = [pc EXCEPT ![w] = "reserve"]
    /\ event' = [event EXCEPT ![w] = e]
    /\ attempt' = [attempt EXCEPT ![w] = 1]
    /\ UNCHANGED <<topics, tables, at, rpc, chat, bounds>>

\* ReadMessage of a consumer group commits the offset before it returns the
\* message, so a copy handed to handleEvent is never read again.
ReadMessage(w, e) ==
    /\ pc[w] = "read"
    /\ inbox[e] > 0
    /\ inbox' = [inbox EXCEPT ![e] = @ - 1]
    /\ pc' = [pc EXCEPT ![w] = "reserve"]
    /\ event' = [event EXCEPT ![w] = e]
    /\ attempt' = [attempt EXCEPT ![w] = 1]
    /\ UNCHANGED <<copies, dlt, tables, at, rpc, chat, bounds>>

\* Mutant: an offset is committed that no fetched message stands for.
CommitAhead(w, e) ==
    /\ pc[w] = "read"
    /\ Fault
    /\ \E applied \in {0, 1} : inbox' = [inbox EXCEPT ![e] = @ - applied]
    /\ UNCHANGED <<copies, dlt, tables, worker, rpc, chat, now, crashes>>

\* The commit fails: ReadMessage returns an error, Run logs it and goes on.
\* The broker may have applied the commit all the same; then the copy is lost.
CommitFails(w, e) ==
    /\ pc[w] = "read"
    /\ inbox[e] > 0
    /\ Fault
    /\ \E applied \in {0, 1} : inbox' = [inbox EXCEPT ![e] = @ - applied]
    /\ UNCHANGED <<copies, dlt, tables, worker, rpc, chat, now, crashes>>

-----------------------------------------------------------------------------
(* alert-worker: the client side of the two calls *)

\* The worker calls main-service and waits in pcNext.
StartCall(w, c, step, pcNext) ==
    /\ rpc[c].step = "free"
    /\ rpc' = [rpc EXCEPT ![c] = [step |-> step, event |-> event[w], try |-> 1,
                                  client |-> w, at |-> at[w]]]
    /\ pc' = [pc EXCEPT ![w] = pcNext]
    /\ UNCHANGED <<topics, tables, event, attempt, at, chat, bounds>>

CallReserve(w, c) ==
    /\ pc[w] = "reserve"
    /\ StartCall(w, c, "insert", "reserving")

CallFinalize(w, c) ==
    /\ pc[w] \in FinalizeSteps
    /\ StartCall(w, c, pc[w], "finalizing")

\* The service account token cannot be had: the call returns an error without
\* reaching main-service, handleEvent returns it and Run reads on.
TokenError(w) ==
    /\ pc[w] \in {"reserve", "sent", "failed"}
    /\ Fault
    /\ pc' = [pc EXCEPT ![w] = "read"]
    /\ UNCHANGED <<topics, tables, event, attempt, at, rpc, chat, now, crashes>>

Orphaned(w) == [c \in Calls |-> IF rpc[c].client = w
                                THEN [rpc[c] EXCEPT !.client = NoWorker]
                                ELSE rpc[c]]

\* The connection breaks: the call returns an error to the worker while the
\* handler runs on without a client (a lost answer is a late Disconnect).
Disconnect(w) ==
    /\ pc[w] \in {"reserving", "finalizing"}
    /\ Fault
    /\ pc' = [pc EXCEPT ![w] = "read"]
    /\ rpc' = Orphaned(w)
    /\ UNCHANGED <<topics, tables, event, attempt, at, chat, now, crashes>>

\* The worker crashes, or its context is cancelled, inside handleEvent; the
\* event it held is already committed.
Crash(w) ==
    /\ pc[w] # "read"
    /\ crashes < MaxCrashes
    /\ crashes' = crashes + 1
    /\ pc' = [pc EXCEPT ![w] = "read"]
    /\ rpc' = Orphaned(w)
    /\ UNCHANGED <<topics, tables, event, attempt, at, chat, now, faults>>

-----------------------------------------------------------------------------
(* main-service: the handlers *)

\* The handler returns; the worker that still waits for it goes to pcNext.
Reply(c, pcNext) ==
    /\ rpc' = [rpc EXCEPT ![c] = FreeCall]
    /\ pc' = [w \in Workers |-> IF w = rpc[c].client THEN pcNext ELSE pc[w]]

Step(c, step) == rpc' = [rpc EXCEPT ![c].step = step] /\ UNCHANGED pc

HandlerFrame == UNCHANGED <<topics, rule, news, event, attempt, at, chat>>

\* Mutant: ON CONFLICT (rule_id, news_id) DO UPDATE SET delivery_status = 'pending'.
DuplicateUpdates(c) ==
    /\ rpc[c].step = "insert"
    /\ \E f \in Events :
          /\ SamePair(f, rpc[c].event) /\ row[f] # "none"
          /\ row' = [row EXCEPT ![f] = "pending"]
    /\ Reply(c, "read")
    /\ HandlerFrame /\ UNCHANGED <<sentAt, bounds>>

\* ON CONFLICT (rule_id, news_id) DO NOTHING inserts no row.
Duplicate(c) ==
    /\ rpc[c].step = "insert"
    /\ \E f \in Events : SamePair(f, rpc[c].event) /\ row[f] # "none"
    /\ Reply(c, "read")
    /\ HandlerFrame /\ UNCHANGED <<row, sentAt, bounds>>

\* Mutant: the conflict target is the event id instead of (rule_id, news_id).
NoDuplicateId(e) == row[e] = "none"

NoDuplicate(e) == \A f \in Events : SamePair(f, e) => row[f] = "none"

InsertPending(c) ==
    LET e == rpc[c].event IN
    /\ rpc[c].step = "insert"
    /\ NoDuplicate(e)
    /\ rule[RuleOf[e]] = "live"
    /\ news[NewsOf[e]] = "saved"
    /\ row' = [row EXCEPT ![e] = "pending"]
    /\ Step(c, "cooldown")
    /\ HandlerFrame /\ UNCHANGED <<sentAt, bounds>>

\* The foreign key on news fails because the item is not saved (or no longer
\* there): wait and insert again, InsertAttempts times in all.
InsertAgain(c) ==
    LET e == rpc[c].event IN
    /\ rpc[c].step = "insert"
    /\ rule[RuleOf[e]] = "live"
    /\ news[NewsOf[e]] # "saved"
    /\ rpc[c].try < InsertAttempts
    /\ rpc' = [rpc EXCEPT ![c].try = @ + 1]
    /\ HandlerFrame /\ UNCHANGED <<pc, row, sentAt, bounds>>

\* The last insert failed on the news key, or the rule is gone.
InsertRefused(c) ==
    LET e == rpc[c].event IN
    /\ rpc[c].step = "insert"
    /\ \/ rule[RuleOf[e]] = "deleted"
       \/ news[NewsOf[e]] # "saved" /\ rpc[c].try >= InsertAttempts
    /\ Reply(c, "read")
    /\ HandlerFrame /\ UNCHANGED <<row, sentAt, bounds>>

GetRuleCooldown(c) ==
    /\ rpc[c].step = "cooldown"
    /\ IF rule[RuleOf[rpc[c].event]] = "live" THEN Step(c, "lastsent") ELSE Reply(c, "read")
    /\ HandlerFrame /\ UNCHANGED <<row, sentAt, bounds>>

\* Mutant: the cooldown ends a second early.
InShortCooldown(r) ==
    \E f \in Events : /\ RuleOf[f] = r
                      /\ row[f] = "sent"
                      /\ now - sentAt[f] < (Cooldown[r] - 1) * TicksPerSecond

\* The youngest sent_at of the rule is inside the cooldown iff some sent_at is.
InCooldown(r) ==
    \E f \in Events : /\ RuleOf[f] = r
                      /\ row[f] = "sent"
                      /\ now - sentAt[f] < Cooldown[r] * TicksPerSecond

\* Mutant: a delivery in its cooldown is refused and not marked.
CheckWithoutMark(c) ==
    /\ rpc[c].step = "lastsent"
    /\ Reply(c, IF InCooldown(RuleOf[rpc[c].event]) THEN "read" ELSE "send")
    /\ HandlerFrame /\ UNCHANGED <<row, sentAt, bounds>>

\* GetLastSentAt and the comparison with the cooldown.
CheckCooldown(c) ==
    /\ rpc[c].step = "lastsent"
    /\ IF InCooldown(RuleOf[rpc[c].event]) THEN Step(c, "drop") ELSE Reply(c, "send")
    /\ HandlerFrame /\ UNCHANGED <<row, sentAt, bounds>>

\* UPDATE ... WHERE id = e: no row is not an error.
Mark(e, status) == row' = [row EXCEPT ![e] = IF @ = "none" THEN @ ELSE status]

MarkDropped(c) ==
    /\ rpc[c].step = "drop"
    /\ Mark(rpc[c].event, "dropped")
    /\ Reply(c, "read")
    /\ HandlerFrame /\ UNCHANGED <<sentAt, bounds>>

MarkSent(c) ==
    /\ rpc[c].step = "sent"
    /\ Mark(rpc[c].event, "sent")
    /\ sentAt' = [sentAt EXCEPT ![rpc[c].event] = IF row[rpc[c].event] = "none" THEN @ ELSE Unix(rpc[c].at)]
    /\ Reply(c, "read")
    /\ HandlerFrame /\ UNCHANGED bounds

MarkFailed(c) ==
    /\ rpc[c].step = "failed"
    /\ Mark(rpc[c].event, "failed")
    /\ Reply(c, "dlt")
    /\ HandlerFrame /\ UNCHANGED <<sentAt, bounds>>

\* A database call of the handler fails; handleEvent gets Internal and returns.
DbError(c) ==
    /\ rpc[c].step # "free"
    /\ Fault
    /\ Reply(c, "read")
    /\ HandlerFrame /\ UNCHANGED <<row, sentAt, now, crashes>>

\* The client is gone, so the handler's context is cancelled and the next
\* database call fails; the handler may also get through before that.
HandlerCancelled(c) ==
    /\ rpc[c].step # "free"
    /\ rpc[c].client = NoWorker
    /\ Reply(c, "read")
    /\ HandlerFrame /\ UNCHANGED <<row, sentAt, bounds>>

-----------------------------------------------------------------------------
(* alert-worker: sending *)

SendOk(w) ==
    LET e == event[w] IN
    /\ pc[w] = "send"
    /\ tg' = [tg EXCEPT ![e] = @ + 1]
    /\ toldAt' = [toldAt EXCEPT ![e] = now]
    /\ at' = [at EXCEPT ![w] = now]
    /\ pc' = [pc EXCEPT ![w] = "sent"]
    /\ UNCHANGED <<topics, tables, event, attempt, rpc, errs, bounds>>

\* Mutant: the loop gives up one send early.
AfterErrorEarly(w) ==
    /\ errs' = [errs EXCEPT ![event[w]] = @ + 1]
    /\ pc' = [pc EXCEPT ![w] = IF attempt[w] < RetryAttempts - 1 THEN "backoff" ELSE "failed"]

\* Mutant: an exhausted event goes to the dead letter topic without FinalizeAlertDelivery.
AfterErrorUnmarked(w) ==
    /\ errs' = [errs EXCEPT ![event[w]] = @ + 1]
    /\ pc' = [pc EXCEPT ![w] = IF attempt[w] < RetryAttempts THEN "backoff" ELSE "dlt"]

\* Send returns an error: the loop waits and sends again, or gives up.
AfterError(w) ==
    /\ errs' = [errs EXCEPT ![event[w]] = @ + 1]
    /\ pc' = [pc EXCEPT ![w] = IF attempt[w] < RetryAttempts THEN "backoff" ELSE "failed"]

SendError(w) ==
    /\ pc[w] = "send"
    /\ AfterError(w)
    /\ UNCHANGED <<topics, tables, event, attempt, at, rpc, tg, toldAt, bounds>>

\* The message reached the chat and the answer did not reach the worker.
SendTimeout(w) ==
    /\ pc[w] = "send"
    /\ Fault
    /\ AfterError(w)
    /\ tg' = [tg EXCEPT ![event[w]] = @ + 1]
    /\ toldAt' = [toldAt EXCEPT ![event[w]] = now]
    /\ UNCHANGED <<topics, tables, event, attempt, at, rpc, now, crashes>>

Backoff(w) ==
    /\ pc[w] = "backoff"
    /\ attempt' = [attempt EXCEPT ![w] = @ + 1]
    /\ pc' = [pc EXCEPT ![w] = "send"]
    /\ UNCHANGED <<topics, tables, event, at, rpc, chat, bounds>>

PublishDLT(w) ==
    /\ pc[w] = "dlt"
    /\ dlt' = dlt \cup {event[w]}
    /\ pc' = [pc EXCEPT ![w] = "read"]
    /\ UNCHANGED <<inbox, copies, tables, event, attempt, at, rpc, chat, bounds>>

\* publishDLT returns an error, which Run only logs.
PublishDLTFails(w) ==
    /\ pc[w] = "dlt"
    /\ Fault
    /\ pc' = [pc EXCEPT ![w] = "read"]
    /\ UNCHANGED <<topics, tables, event, attempt, at, rpc, chat, now, crashes>>

-----------------------------------------------------------------------------
WorkerStep(w) ==
    \/ \E e \in Events : ReadMessage(w, e)
    \/ \E c \in Calls : CallReserve(w, c) \/ CallFinalize(w, c)
    \/ SendOk(w) \/ SendError(w) \/ Backoff(w) \/ PublishDLT(w)

HandlerStep(c) ==
    \/ Duplicate(c) \/ InsertPending(c) \/ InsertAgain(c) \/ InsertRefused(c)
    \/ GetRuleCooldown(c) \/ CheckCooldown(c)
    \/ MarkDropped(c) \/ MarkSent(c) \/ MarkFailed(c)

FaultStep ==
    \/ \E w \in Workers : \/ \E e \in Events : CommitFails(w, e)
                          \/ TokenError(w) \/ Disconnect(w) \/ Crash(w)
                          \/ SendTimeout(w) \/ PublishDLTFails(w)
    \/ \E c \in Calls : DbError(c) \/ HandlerCancelled(c)

EnvironmentStep ==
    \/ \E e \in Events : Publish(e)
    \/ \E n \in News : SaveNews(n) \/ DeleteNews(n)
    \/ \E r \in Rules : DeleteRule(r)
    \/ Tick

Next ==
    \/ \E w \in Workers : WorkerStep(w)
    \/ \E c \in Calls : HandlerStep(c)
    \/ FaultStep
    \/ EnvironmentStep

Spec == Init /\ [][Next]_vars

\* A worker that is up takes its next step, Kafka hands over the messages of a
\* topic in turn, and the Go scheduler runs every handler.  Nothing is assumed
\* of faults, crashes, the user or retention.
Fairness ==
    /\ \A w \in Workers : WF_vars(WorkerStep(w))
    /\ \A e \in Events : SF_vars(\E w \in Workers : ReadMessage(w, e))
    /\ \A c \in Calls : WF_vars(HandlerStep(c))

FairSpec == Spec /\ Fairness

-----------------------------------------------------------------------------
(* Properties *)

\* Every variable has a value of its kind.
TypeOK ==
    /\ inbox \in [Events -> Nat]
    /\ copies \in [Events -> Nat]
    /\ rule \in [Rules -> {"live", "deleted"}]
    /\ news \in [News -> {"unsaved", "saved", "deleted"}]
    /\ row \in [Events -> Statuses]
    /\ sentAt \in [Events -> Int]
    /\ pc \in [Workers -> PCs]
    /\ event \in [Workers -> Events \cup {NoEvent}]
    /\ attempt \in [Workers -> Nat]
    /\ at \in [Workers -> Int]
    /\ rpc \in [Calls -> CallRecords]
    /\ now \in Nat /\ faults \in Nat /\ crashes \in Nat
    /\ tg \in [Events -> Nat]
    /\ toldAt \in [Events -> Int]
    /\ errs \in [Events -> Nat]
    /\ dlt \subseteq Events

\* The unique key (rule_id, news_id) makes one event of a pair the owner for
\* good: whatever is duplicated, redelivered, abandoned or deleted by a
\* cascade, the chat gets messages about a pair from one event only, and never
\* more than the send loop of handleEvent makes.
OneAlertPerPair ==
    /\ \A e \in Events : tg[e] <= RetryAttempts
    /\ \A e, f \in Events : SamePair(e, f) /\ tg[e] > 0 /\ tg[f] > 0 => e = f

\* The status column tells the truth about Telegram: "sent" rows were
\* delivered, "dropped" rows never went out, and a "failed" row had every one
\* of its RetryAttempts sends refused.
StatusTruthful ==
    \A e \in Events :
        /\ row[e] = "sent" => tg[e] > 0
        /\ row[e] = "dropped" => tg[e] = 0 /\ errs[e] = 0
        /\ row[e] = "failed" => errs[e] = RetryAttempts

\* The dead letter topic holds only events whose sends were all refused and
\* whose row says so (or was removed with its rule or its news item).
DeadLettersExhausted ==
    \A e \in dlt : errs[e] = RetryAttempts /\ (row[e] = "failed" \/ Gone(e))

\* Where the right to deliver an event is: with a handler, or with a worker.
Handled(e, steps) == \E c \in Calls : rpc[c].event = e /\ rpc[c].step \in steps
Worked(e, pcs)    == \E w \in Workers : event[w] = e /\ pc[w] \in pcs

\* The stage of the conversation about an event.
StageOf(e) ==
    CASE Handled(e, {"cooldown", "lastsent", "drop"})            -> "deciding"
      [] Worked(e, {"send", "backoff"})                          -> "sending"
      [] Worked(e, {"sent"}) \/ Handled(e, {"sent"})             -> "told"
      [] Worked(e, {"failed"}) \/ Handled(e, {"failed"})         -> "exhausted"
      [] Worked(e, {"dlt"})                                      -> "burying"
      [] OTHER                                                   -> "idle"

Stage == [e \in Events |-> StageOf(e)]

Promise == INSTANCE AlertPromise
    WITH stage <- Stage, Pair <- [e \in Events |-> <<RuleOf[e], NewsOf[e]>>]

\* Whatever is duplicated, redelivered, lost or abandoned, the workers and the
\* handlers together do what one conversation per pair would do.  The updates of
\* FinalizeAlertDelivery and MarkDropped have no guard on the old status; still,
\* late and orphaned handlers never change a final one.
KeepsPromise == Promise!Spec

\* While nothing has failed, an alert of a rule follows another one, whose row
\* retention has not deleted meanwhile, by at least the rule's cooldown, less
\* the second that time.Unix may cut off.
CooldownKept ==
    [][\A e, f \in Events :
          /\ faults + crashes = 0 /\ tg'[e] > tg[e]
          /\ f # e /\ RuleOf[f] = RuleOf[e] /\ tg[f] > 0 /\ ~Gone(f)
          => now - toldAt[f] > (Cooldown[RuleOf[e]] - 1) * TicksPerSecond]_vars

\* Every copy in the topic is read, whatever the faults: no event and no answer of
\* main-service can hold handleEvent up for ever.
TopicDrained == \A e \in Events : inbox[e] > 0 ~> inbox[e] = 0

\* While nothing has failed, a reserved delivery is finalised, dropped, or removed
\* with a parent: no row is left pending.
PendingResolved ==
    \A e \in Events : row[e] = "pending" ~> (row[e] # "pending" \/ faults + crashes > 0)

\* Retry policy of the design document: three attempts, then the dead letter
\* topic.  Whenever the worker has returned from an event whose sends were all
\* refused, the event is in the topic.
ExhaustedIsDeadLettered ==
    \A e \in Events :
        (errs[e] = RetryAttempts /\ \A w \in Workers : event[w] = e => pc[w] = "read") => e \in dlt
=============================================================================
