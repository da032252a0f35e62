---------------------------- MODULE NewsProcessor ----------------------------
(***************************************************************************)
(* The pipeline of news-processor (internal/services/processor): a reader  *)
(* of the Kafka topic raw_news, a pool of workers, a batcher that saves    *)
(* through main-service, two bounded channels between them, and the order  *)
(* in which Run stops them.  A save is one gRPC call, which main-service   *)
(* (internal/store/news) executes item by item outside a transaction.      *)
(***************************************************************************)
EXTENDS Integers, Sequences, FiniteSets

CONSTANTS
    Items,        \* messages of raw_news
    UrlOf,        \* news.url of an item: two items may carry one URL
    HasContent,   \* items with a text to upload to the object store
    Rules, Match, \* alert rules; the <<item, rule>> pairs whose keyword occurs
    Workers,      \* worker goroutines: processor.workers
    Capacity,     \* of each channel: workers*2 in the code
    BatchSize,    \* processor.save_batch_size
    MaxFaults,    \* bound: errors of Kafka, the object store and main-service, and
                  \* crashes of the process
    None          \* no item

ASSUME ProcessorAssumption ==
    /\ HasContent \subseteq Items
    /\ Match \subseteq Items \X Rules
    /\ Capacity \in Nat \ {0} /\ BatchSize \in Nat \ {0}
    /\ MaxFaults \in Nat
    /\ None \notin Items

VARIABLES
    unread,     \* messages without a committed offset
    ctx,        \* the context of Run: "live" or "done"
    run,        \* Run: "reading", "waiting" (wg.Wait), "draining" (<-saveDone), "done"
    reader,     \* readLoop: "read", "hand" (sending to tasks), "stopped"
    hand,       \* the item readLoop sends
    tasks, results,
    resultsClosed,
    wpc, witem, \* a worker: "take", "upload", "alert", "emit", "exit", and its item
    spc,        \* saveBatcher: "select", "insert", "index", "exit"
    leaving,    \* saveBatcher returns after this flush
    batch,      \* its batch; during a call, what main-service has not yet stored
    cache,      \* cachedAlertRules.items
    store,      \* items whose text is in the object store
    alerts,     \* <<item, rule>> pairs written to news_alerts
    saved,      \* rows of news
    indexed,    \* rows of news_search_index
    fate,       \* what became of an item that left the pipeline
    faults

channels == <<tasks, results, resultsClosed>>
workers  == <<wpc, witem>>
saver    == <<spc, leaving, batch>>
outside  == <<store, alerts, saved, indexed>>
vars     == <<unread, ctx, run, reader, hand, tasks, results, resultsClosed, wpc, witem, spc,
              leaving, batch, cache, store, alerts, saved, indexed, fate, faults>>

\* "saved" and "duplicate" are answers of main-service; every other fate is a loss.
Losses == {"commit", "shutdown", "upload", "save", "cancelled", "crash"}
Fates  == {"none", "saved", "duplicate"} \cup Losses

Fault == faults < MaxFaults /\ faults' = faults + 1

Elements(s) == {s[k] : k \in 1 .. Len(s)}

\* The items of a set leave the pipeline.
Lose(S, cause) == fate' = [i \in Items |-> IF i \in S THEN cause ELSE fate[i]]

Init ==
    /\ ctx = "live"
    /\ run = "reading"
    /\ reader = "read" /\ hand = None
    /\ tasks = <<>> /\ results = <<>> /\ resultsClosed = FALSE
    /\ wpc = [w \in Workers |-> "take"]
    /\ witem = [w \in Workers |-> None]
    /\ spc = "select" /\ leaving = FALSE /\ batch = <<>>
    /\ cache = {}
    /\ unread = Items
    /\ store = {} /\ alerts = {} /\ saved = {} /\ indexed = {}
    /\ fate = [i \in Items |-> "none"]
    /\ faults = 0

-----------------------------------------------------------------------------
(* readLoop *)

ReadMessage(i) ==
    /\ reader = "read"
    /\ i \in unread
    /\ unread' = unread \ {i}
    /\ hand' = i
    /\ reader' = "hand"
    /\ UNCHANGED <<ctx, run, channels, workers, saver, cache, outside, fate, faults>>

\* The commit fails: the item is read again later, or, when the broker applied
\* the commit, never.
CommitFails(i) ==
    /\ reader = "read"
    /\ i \in unread
    /\ Fault
    /\ \/ UNCHANGED <<unread, fate>>
       \/ unread' = unread \ {i} /\ Lose({i}, "commit")
    /\ UNCHANGED <<ctx, run, reader, hand, channels, workers, saver, cache, outside>>

\* Mutant: the send to tasks does not wait for room.
HandOverOrDrop ==
    /\ reader = "hand"
    /\ IF Len(tasks) < Capacity
       THEN tasks' = Append(tasks, hand) /\ UNCHANGED fate
       ELSE Lose({hand}, "shutdown") /\ UNCHANGED tasks
    /\ hand' = None
    /\ reader' = "read"
    /\ UNCHANGED <<unread, ctx, run, results, resultsClosed, workers, saver, cache, outside, faults>>

HandOver ==
    /\ reader = "hand"
    /\ Len(tasks) < Capacity
    /\ tasks' = Append(tasks, hand)
    /\ hand' = None
    /\ reader' = "read"
    /\ UNCHANGED <<unread, ctx, run, results, resultsClosed, workers, saver, cache, outside, fate, faults>>

\* The context is done: ReadMessage returns an error, or the send to tasks gives
\* way to it and the item, committed long ago, is dropped.
ReaderStops ==
    /\ reader # "stopped"
    /\ ctx = "done"
    /\ reader' = "stopped"
    /\ hand' = None
    /\ Lose({hand}, "shutdown")
    /\ UNCHANGED <<unread, ctx, run, channels, workers, saver, cache, outside, faults>>

-----------------------------------------------------------------------------
(* workerLoop *)

\* Mutant: the item is left to the next worker that takes from tasks as well.
TakeShared(w) ==
    /\ wpc[w] = "take"
    /\ tasks # <<>>
    /\ witem' = [witem EXCEPT ![w] = Head(tasks)]
    /\ wpc' = [wpc EXCEPT ![w] = "alert"]
    /\ UNCHANGED <<unread, ctx, run, reader, hand, channels, saver, cache, outside, fate, faults>>

Take(w) ==
    /\ wpc[w] = "take"
    /\ tasks # <<>>
    /\ tasks' = Tail(tasks)
    /\ witem' = [witem EXCEPT ![w] = Head(tasks)]
    /\ wpc' = [wpc EXCEPT ![w] = IF Head(tasks) \in HasContent THEN "upload" ELSE "alert"]
    /\ UNCHANGED <<unread, ctx, run, reader, hand, results, resultsClosed, saver, cache, outside, fate, faults>>

Upload(w) ==
    /\ wpc[w] = "upload"
    /\ store' = store \cup {witem[w]}
    /\ wpc' = [wpc EXCEPT ![w] = "alert"]
    /\ UNCHANGED <<unread, ctx, run, reader, hand, channels, witem, saver, cache,
                   alerts, saved, indexed, fate, faults>>

\* Mutant: a failed upload is logged and the item goes on.
UploadErrorIgnored(w) ==
    /\ wpc[w] = "upload"
    /\ Fault \/ (ctx = "done" /\ UNCHANGED faults)
    /\ wpc' = [wpc EXCEPT ![w] = "alert"]
    /\ UNCHANGED <<unread, ctx, run, reader, hand, channels, witem, saver, cache, outside, fate>>

\* PutText fails, always so once the context is done: the item is dropped.
UploadError(w) ==
    /\ wpc[w] = "upload"
    /\ Fault \/ (ctx = "done" /\ UNCHANGED faults)
    /\ Lose({witem[w]}, "upload")
    /\ witem' = [witem EXCEPT ![w] = None]
    /\ wpc' = [wpc EXCEPT ![w] = "take"]
    /\ UNCHANGED <<unread, ctx, run, reader, hand, channels, saver, cache, outside>>

Matched(w) == {p \in Match : p[1] = witem[w] /\ p[2] \in cache}

\* Alerts go out before the item is saved.
PublishAlerts(w) ==
    /\ wpc[w] = "alert"
    /\ alerts' = alerts \cup Matched(w)
    /\ wpc' = [wpc EXCEPT ![w] = "emit"]
    /\ UNCHANGED <<unread, ctx, run, reader, hand, channels, witem, saver, cache,
                   store, saved, indexed, fate, faults>>

\* WriteMessages fails after part of the alerts; the worker logs it and goes on.
PublishError(w) ==
    /\ wpc[w] = "alert"
    /\ Matched(w) # {}
    /\ Fault \/ (ctx = "done" /\ UNCHANGED faults)
    /\ \E part \in SUBSET Matched(w) : alerts' = alerts \cup part
    /\ wpc' = [wpc EXCEPT ![w] = "emit"]
    /\ UNCHANGED <<unread, ctx, run, reader, hand, channels, witem, saver, cache,
                   store, saved, indexed, fate>>

Emit(w) ==
    /\ wpc[w] = "emit"
    /\ Len(results) < Capacity
    /\ results' = Append(results, witem[w])
    /\ witem' = [witem EXCEPT ![w] = None]
    /\ wpc' = [wpc EXCEPT ![w] = "take"]
    /\ UNCHANGED <<unread, ctx, run, reader, hand, tasks, resultsClosed, saver, cache, outside, fate, faults>>

\* Mutant: the send to results is tried again and does not watch the context.
EmitBlocks(w) == wpc[w] = "emit" /\ UNCHANGED vars

EmitCancelled(w) ==
    /\ wpc[w] = "emit"
    /\ ctx = "done"
    /\ Lose({witem[w]}, "shutdown")
    /\ witem' = [witem EXCEPT ![w] = None]
    /\ wpc' = [wpc EXCEPT ![w] = "exit"]
    /\ UNCHANGED <<unread, ctx, run, reader, hand, channels, saver, cache, outside, faults>>

\* tasks is closed as soon as Run is past the reader.
TasksClosed == run # "reading"

WorkerExit(w) ==
    /\ wpc[w] = "take"
    /\ tasks = <<>> /\ TasksClosed
    /\ wpc' = [wpc EXCEPT ![w] = "exit"]
    /\ UNCHANGED <<unread, ctx, run, reader, hand, channels, witem, saver, cache, outside, fate, faults>>

-----------------------------------------------------------------------------
(* saveBatcher *)

\* flush: with the context done, the call fails before it reaches main-service.
Flush(b, last) ==
    /\ leaving' = last
    /\ IF b = <<>> \/ ctx = "done"
       THEN /\ batch' = <<>>
            /\ spc' = IF last THEN "exit" ELSE "select"
            /\ Lose(Elements(b), "cancelled")
       ELSE /\ batch' = b
            /\ spc' = "insert"
            /\ UNCHANGED fate

SaverFrame == UNCHANGED <<unread, ctx, run, reader, hand, tasks, resultsClosed, workers, cache, outside, faults>>

\* Mutant: > instead of >=.
ReceiveOneMore ==
    /\ spc = "select"
    /\ results # <<>>
    /\ results' = Tail(results)
    /\ LET b == Append(batch, Head(results)) IN
       IF Len(b) > BatchSize
       THEN Flush(b, FALSE)
       ELSE batch' = b /\ UNCHANGED <<spc, leaving, fate>>
    /\ SaverFrame

Receive ==
    /\ spc = "select"
    /\ results # <<>>
    /\ results' = Tail(results)
    /\ LET b == Append(batch, Head(results)) IN
       IF Len(b) >= BatchSize
       THEN Flush(b, FALSE)
       ELSE batch' = b /\ UNCHANGED <<spc, leaving, fate>>
    /\ SaverFrame

\* Mutant: only a full batch is flushed.
NoTick == FALSE

\* The ticker of 5 seconds.
FlushTick ==
    /\ spc = "select"
    /\ batch # <<>>
    /\ Flush(batch, FALSE)
    /\ SaverFrame /\ UNCHANGED results

FlushOnClose ==
    /\ spc = "select"
    /\ results = <<>> /\ resultsClosed
    /\ Flush(batch, TRUE)
    /\ SaverFrame /\ UNCHANGED results

FlushOnDone ==
    /\ spc = "select"
    /\ ctx = "done"
    /\ Flush(batch, TRUE)
    /\ SaverFrame /\ UNCHANGED results

\* The call is over for its first item; after the last one it returns.
NextItem ==
    /\ batch' = Tail(batch)
    /\ spc' = IF Len(batch) > 1 THEN "insert" ELSE IF leaving THEN "exit" ELSE "select"

StoreFrame == UNCHANGED <<unread, ctx, run, reader, hand, channels, workers, leaving, cache, store, alerts>>

HasRow(url) == \E j \in saved : UrlOf[j] = url

\* INSERT INTO news ... ON CONFLICT (url) DO NOTHING.
InsertNews ==
    LET i == Head(batch) IN
    /\ spc = "insert"
    /\ ~HasRow(UrlOf[i])
    /\ saved' = saved \cup {i}
    /\ fate' = [fate EXCEPT ![i] = "saved"]
    /\ spc' = "index"
    /\ StoreFrame /\ UNCHANGED <<batch, indexed, faults>>

DuplicateNews ==
    LET i == Head(batch) IN
    /\ spc = "insert"
    /\ HasRow(UrlOf[i])
    /\ fate' = [fate EXCEPT ![i] = "duplicate"]
    /\ NextItem
    /\ StoreFrame /\ UNCHANGED <<saved, indexed, faults>>

UpsertIndex ==
    /\ spc = "index"
    /\ indexed' = indexed \cup {Head(batch)}
    /\ NextItem
    /\ StoreFrame /\ UNCHANGED <<saved, fate, faults>>

\* Items of the running call without a row: the first one has its row already
\* when its search index entry is next.
Unsaved == IF spc = "index" THEN Elements(Tail(batch)) ELSE Elements(batch)

\* The token, the transport or a statement fails, or the context is done during
\* the call: the batch is logged and reset.
SaveError ==
    /\ spc \in {"insert", "index"}
    /\ \/ Fault /\ Lose(Unsaved, "save")
       \/ ctx = "done" /\ UNCHANGED faults /\ Lose(Unsaved, "cancelled")
    /\ batch' = <<>>
    /\ spc' = IF leaving THEN "exit" ELSE "select"
    /\ StoreFrame /\ UNCHANGED <<saved, indexed>>

-----------------------------------------------------------------------------
(* Run, the rules cache, the process *)

RunFrame == UNCHANGED <<unread, ctx, reader, hand, tasks, results, workers, saver, cache, outside, fate, faults>>

\* close(tasks)
CloseTasks ==
    /\ run = "reading" /\ reader = "stopped"
    /\ run' = "waiting"
    /\ RunFrame /\ UNCHANGED resultsClosed

\* Mutant: close(results) comes before wg.Wait.
CloseResultsEarly ==
    /\ run = "waiting"
    /\ run' = "draining"
    /\ resultsClosed' = TRUE
    /\ RunFrame

\* wg.Wait, close(results)
CloseResults ==
    /\ run = "waiting" /\ \A w \in Workers : wpc[w] = "exit"
    /\ run' = "draining"
    /\ resultsClosed' = TRUE
    /\ RunFrame

\* <-saveDone, the Kafka clients are closed
Return ==
    /\ run = "draining" /\ spc = "exit"
    /\ run' = "done"
    /\ RunFrame /\ UNCHANGED resultsClosed

Cancel ==
    /\ ctx = "live"
    /\ ctx' = "done"
    /\ UNCHANGED <<unread, run, reader, hand, channels, workers, saver, cache, outside, fate, faults>>

\* The refresher replaces the cache by the rules active at that moment, which
\* main-service alone decides on; on an error it keeps the old ones.
RefreshRules ==
    /\ ctx = "live"
    /\ \E active \in SUBSET Rules : cache' = active
    /\ UNCHANGED <<unread, ctx, run, reader, hand, channels, workers, saver, outside, fate, faults>>

InMemory ==
    ({hand} \cup Elements(tasks) \cup {witem[w] : w \in Workers} \cup Elements(results) \cup Unsaved) \ {None}

\* The process dies and is started again; what was in its memory is gone, for
\* its offsets are committed.
Crash ==
    /\ run # "done"
    /\ Fault
    /\ Lose(InMemory, "crash")
    /\ ctx' = "live" /\ run' = "reading"
    /\ reader' = "read" /\ hand' = None
    /\ tasks' = <<>> /\ results' = <<>> /\ resultsClosed' = FALSE
    /\ wpc' = [w \in Workers |-> "take"] /\ witem' = [w \in Workers |-> None]
    /\ spc' = "select" /\ leaving' = FALSE /\ batch' = <<>>
    /\ cache' = {}
    /\ UNCHANGED <<unread, outside>>

Terminated == run = "done" /\ UNCHANGED vars

-----------------------------------------------------------------------------
ReaderStep == (\E i \in Items : ReadMessage(i)) \/ HandOver \/ ReaderStops

WorkerStep(w) ==
    \/ Take(w) \/ Upload(w) \/ PublishAlerts(w) \/ Emit(w) \/ EmitCancelled(w) \/ WorkerExit(w)

SaverStep ==
    \/ Receive \/ FlushTick \/ FlushOnClose \/ FlushOnDone
    \/ InsertNews \/ DuplicateNews \/ UpsertIndex

RunStep == CloseTasks \/ CloseResults \/ Return

FaultStep ==
    \/ \E i \in Items : CommitFails(i)
    \/ \E w \in Workers : UploadError(w) \/ PublishError(w)
    \/ SaveError \/ Crash

Next ==
    \/ ReaderStep \/ (\E w \in Workers : WorkerStep(w)) \/ SaverStep \/ RunStep
    \/ FaultStep \/ Cancel \/ RefreshRules \/ Terminated

Spec == Init /\ [][Next]_vars

\* Goroutines that can run do run, the calls they make return, and ReadMessage
\* and select do not overlook a context that is done.  Nothing is assumed of
\* faults, of the cancellation or of the refresher.
Fairness ==
    /\ WF_vars(ReaderStep) /\ WF_vars(ReaderStops)
    /\ \A w \in Workers : WF_vars(WorkerStep(w))
    /\ WF_vars(SaverStep)
    /\ WF_vars(RunStep)

FairSpec == Spec /\ Fairness

-----------------------------------------------------------------------------
(* Properties *)

\* Every variable has a value of its kind.
TypeOK ==
    /\ unread \subseteq Items /\ ctx \in {"live", "done"}
    /\ run \in {"reading", "waiting", "draining", "done"}
    /\ reader \in {"read", "hand", "stopped"} /\ hand \in Items \cup {None}
    /\ tasks \in Seq(Items) /\ Len(tasks) <= Capacity
    /\ results \in Seq(Items) /\ Len(results) <= Capacity
    /\ resultsClosed \in BOOLEAN
    /\ wpc \in [Workers -> {"take", "upload", "alert", "emit", "exit"}]
    /\ witem \in [Workers -> Items \cup {None}]
    /\ spc \in {"select", "insert", "index", "exit"} /\ leaving \in BOOLEAN
    /\ batch \in Seq(Items) /\ Len(batch) <= BatchSize
    /\ cache \subseteq Rules /\ store \subseteq Items /\ alerts \subseteq Items \X Rules
    /\ saved \subseteq Items /\ indexed \subseteq saved
    /\ fate \in [Items -> Fates]
    /\ faults \in Nat

Places(i) ==
    {<<"topic", 0>> : x \in {i} \cap unread}
    \cup {<<"reader", 0>> : x \in {i} \cap {hand}}
    \cup {<<"tasks", k>> : k \in {n \in 1 .. Len(tasks) : tasks[n] = i}}
    \cup {<<"worker", w>> : w \in {v \in Workers : witem[v] = i}}
    \cup {<<"results", k>> : k \in {n \in 1 .. Len(results) : results[n] = i}}
    \cup {<<"batch", k>> : k \in {n \in 1 .. Len(batch) : batch[n] = i /\ ~(n = 1 /\ spc = "index")}}
    \cup {<<"out", 0>> : x \in {j \in {i} : fate[j] # "none"}}

\* The pipeline neither copies nor forgets: at every moment an item is in one
\* place, the topic, a goroutine, a channel, the batch, or out with a fate.
OnePlace == \A i \in Items : Cardinality(Places(i)) = 1

\* While Run is not cancelled and nothing has failed, no item is lost, and every
\* row, but the one being stored, has its search index entry.
NoLossWhileRunning ==
    ctx = "live" /\ faults = 0 =>
        /\ \A i \in Items : fate[i] \notin Losses
        /\ \A i \in saved \ indexed : spc = "index" /\ i = Head(batch)

\* One row per URL, an item is refused as a duplicate only for the row of another
\* one, and the row of an item with a text refers to an uploaded object.
RowsSound ==
    /\ \A i, j \in saved : UrlOf[i] = UrlOf[j] => i = j
    /\ \A i \in Items : fate[i] = "duplicate" => \E j \in saved \ {i} : UrlOf[j] = UrlOf[i]
    /\ saved \cap HasContent \subseteq store

\* No goroutine sends on a closed channel (a panic in Go).
NoSendOnClosed ==
    /\ resultsClosed => \A w \in Workers : wpc[w] \notin {"upload", "alert", "emit"}
    /\ TasksClosed => reader = "stopped"

\* After the context is done, Run returns, whatever the channels hold.
RunReturns == ctx = "done" ~> (run = "done" \/ ctx = "live")

\* Unless something fails or Run is cancelled, every item is saved or is the
\* duplicate of a saved one: a batch that is not full is flushed too.
EverythingSaved ==
    \A i \in Items : <>(fate[i] \in {"saved", "duplicate"} \/ ctx = "done" \/ faults > 0)

\* The comment of saveBatcher: a flush is forced when the channel is closed.  No
\* item is lost by that flush while main-service answers.
FlushedOnClose == \A i \in Items : fate[i] # "cancelled"
=============================================================================
