------------------------- MODULE NewsProcessorProofs -------------------------
(***************************************************************************)
(* The pipeline of news-processor for any number of items, workers, rules, *)
(* faults and crashes, and any size of its channels and batches: an item   *)
(* is always in one place and never goes back, rows are sound, nobody      *)
(* sends on a closed channel, and full channels never stop everybody.      *)
(***************************************************************************)
EXTENDS NewsProcessor, FiniteSetTheorems, TLAPS

-----------------------------------------------------------------------------
(* The inductive invariant *)

\* What the program counters say of the variables next to them.
Control ==
    /\ reader = "hand" <=> hand # None
    /\ \A w \in Workers : wpc[w] \in {"take", "exit"} <=> witem[w] = None
    /\ \A w \in Workers : wpc[w] \notin {"take", "upload", "exit"} /\ witem[w] \in HasContent => witem[w] \in store
    /\ spc = "select" => Len(batch) < BatchSize
    /\ spc \in {"insert", "index"} => batch # <<>>
    /\ spc = "index" => Head(batch) \in saved
    /\ TasksClosed => reader = "stopped"
    /\ resultsClosed => \A w \in Workers : wpc[w] = "exit"

\* Positions of the batch that main-service has yet to store.
Ahead(k) == ~(k = 1 /\ spc = "index")

\* Item i is at place a, at position n of it, with worker w, and nowhere else.
At(i, a, n, w) ==
    /\ a \in {"topic", "reader", "tasks", "worker", "results", "batch", "out"} /\ n \in Nat
    /\ i \in unread <=> a = "topic"
    /\ hand = i <=> a = "reader"
    /\ \A k \in 1 .. Len(tasks) : tasks[k] = i <=> a = "tasks" /\ n = k
    /\ \A v \in Workers : witem[v] = i <=> a = "worker" /\ v = w
    /\ \A k \in 1 .. Len(results) : results[k] = i <=> a = "results" /\ n = k
    /\ \A k \in 1 .. Len(batch) : Ahead(k) => (batch[k] = i <=> a = "batch" /\ n = k)
    /\ fate[i] # "none" <=> a = "out"
    /\ a = "tasks" => n \in 1 .. Len(tasks)
    /\ a = "worker" => w \in Workers
    /\ a = "results" => n \in 1 .. Len(results)
    /\ a = "batch" => n \in 1 .. Len(batch) /\ Ahead(n)

Located == \A i \in Items : \E a, n, w : At(i, a, n, w)

\* Texts are uploaded before an item goes on, and a row is a fate of its own.
Uploaded ==
    /\ \A k \in 1 .. Len(results) : results[k] \in HasContent => results[k] \in store
    /\ \A k \in 1 .. Len(batch) : batch[k] \in HasContent => batch[k] \in store
    /\ \A i \in saved : fate[i] = "saved"

IInv == TypeOK /\ Control /\ Located /\ Uploaded /\ RowsSound /\ NoLossWhileRunning

-----------------------------------------------------------------------------
(* Sequences *)

USE ProcessorAssumption

\* Append puts an element behind the others.
LEMMA Appended ==
    ASSUME NEW s \in Seq(Items), NEW e \in Items
    PROVE  /\ Append(s, e) \in Seq(Items) /\ Len(s) \in Nat /\ Len(Append(s, e)) = Len(s) + 1
           /\ \A k \in 1 .. Len(s) : Append(s, e)[k] = s[k]
           /\ Append(s, e)[Len(s) + 1] = e
OBVIOUS

\* Tail moves every element but the first one place forward.
LEMMA Taken ==
    ASSUME NEW s \in Seq(Items), s # <<>>
    PROVE  /\ Head(s) = s[1] /\ Head(s) \in Items /\ Len(s) \in Nat \ {0}
           /\ Tail(s) \in Seq(Items) /\ Len(Tail(s)) = Len(s) - 1
           /\ \A k \in 1 .. Len(s) - 1 : Tail(s)[k] = s[k + 1]
OBVIOUS

\* The items of a running call without a row.
LEMMA UnsavedIs ==
    ASSUME TypeOK, Control, NEW i
    PROVE  i \in Unsaved <=> \E k \in 1 .. Len(batch) : batch[k] = i /\ Ahead(k)
<1>1. CASE spc = "index"
  <2>1. batch \in Seq(Items) /\ batch # <<>>
    BY <1>1 DEF TypeOK, Control
  <2>2. /\ Len(batch) \in Nat \ {0} /\ Len(Tail(batch)) = Len(batch) - 1
        /\ \A k \in 1 .. Len(batch) - 1 : Tail(batch)[k] = batch[k + 1]
    BY <2>1, Taken
  <2>3. ASSUME NEW k \in 1 .. Len(Tail(batch)), Tail(batch)[k] = i
        PROVE  \E m \in 1 .. Len(batch) : batch[m] = i /\ Ahead(m)
    BY <2>2, <2>3 DEF Ahead
  <2>4. ASSUME NEW m \in 1 .. Len(batch), batch[m] = i, Ahead(m)
        PROVE  \E k \in 1 .. Len(Tail(batch)) : Tail(batch)[k] = i
    <3>1. m - 1 \in 1 .. Len(Tail(batch)) /\ Tail(batch)[m - 1] = batch[m]
      BY <1>1, <2>2, <2>4 DEF Ahead
    <3> QED
      BY <3>1, <2>4
  <2> QED
    BY <1>1, <2>3, <2>4 DEF Unsaved, Elements
<1>2. CASE spc # "index"
  BY <1>2 DEF Unsaved, Elements, Ahead
<1> QED
  BY <1>1, <1>2

-----------------------------------------------------------------------------
(* Every item is in one place *)

LEMMA Stay ==
    ASSUME Located, UNCHANGED <<unread, hand, tasks, witem, results, batch, fate>>,
           spc' = "index" <=> spc = "index"
    PROVE  Located'
<1> SUFFICES ASSUME NEW i \in Items, NEW a, NEW n, NEW w, At(i, a, n, w) PROVE At(i, a, n, w)'
  BY DEF Located
<1> QED
  BY DEF At, Ahead

LEMMA ReaderPlaces ==
    ASSUME TypeOK, Control, Located, ReaderStep
    PROVE  Located'
<1> SUFFICES ASSUME NEW i \in Items, NEW a, NEW n, NEW w, At(i, a, n, w)
             PROVE  \E b, m, v : At(i, b, m, v)'
  BY DEF Located
<1>1. ASSUME NEW j \in Items, ReadMessage(j) PROVE \E b, m, v : At(i, b, m, v)'
  <2>0. hand = None /\ fate' = fate /\ None \notin Items /\ hand' = j /\ unread' = unread \ {j} /\ j \in unread
    BY <1>1 DEF ReadMessage, Control
  <2>1. CASE i = j
    <3>1. At(i, "reader", n, w)'
      BY <1>1, <2>0, <2>1 DEF ReadMessage, At, Ahead, channels, workers, saver
    <3> QED
      BY <3>1
  <2>2. CASE i # j
    <3>1. At(i, a, n, w)'
      BY <1>1, <2>0, <2>2 DEF ReadMessage, At, Ahead, channels, workers, saver
    <3> QED
      BY <3>1
  <2> QED
    BY <2>1, <2>2
<1>2. CASE HandOver
  <2>1. hand \in Items /\ tasks \in Seq(Items) /\ tasks' = Append(tasks, hand)
    BY <1>2, ProcessorAssumption DEF HandOver, Control, TypeOK
  <2>2. /\ Len(tasks) \in Nat /\ Len(tasks') = Len(tasks) + 1
        /\ \A k \in 1 .. Len(tasks) : tasks'[k] = tasks[k]
        /\ tasks'[Len(tasks) + 1] = hand
    BY <2>1, Appended
  <2>3. hand' = None /\ UNCHANGED <<unread, witem, results, batch, spc, fate>>
    BY <1>2 DEF HandOver, workers, saver
  <2>4. CASE a = "reader"
    <3>1. hand = i /\ None # i /\ \A k \in 1 .. Len(tasks) : tasks[k] # i
      BY <2>4 DEF At
    <3>2. PICK last \in Nat : last = Len(tasks')
      BY <2>2
    <3>3. last \in 1 .. Len(tasks') /\ \A k \in 1 .. Len(tasks') : tasks'[k] = i <=> last = k
      BY <2>2, <3>1, <3>2
    <3>4. At(i, "tasks", last, w)'
      BY <2>3, <2>4, <3>1, <3>2, <3>3 DEF At, Ahead
    <3> QED
      BY <3>4
  <2>5. CASE a # "reader"
    <3>1. At(i, a, n, w)'
      BY <2>2, <2>3, <2>5 DEF At, Ahead
    <3> QED
      BY <3>1
  <2> QED
    BY <2>4, <2>5
<1>3. CASE ReaderStops
  <2>1. /\ hand' = None /\ UNCHANGED <<unread, tasks, witem, results, batch, spc>>
        /\ fate' = [j \in Items |-> IF j \in {hand} THEN "shutdown" ELSE fate[j]]
    BY <1>3 DEF ReaderStops, Lose, channels, workers, saver
  <2>2. CASE a = "reader"
    <3>1. At(i, "out", n, w)'
      BY <2>1, <2>2 DEF At, Ahead
    <3> QED
      BY <3>1
  <2>3. CASE a # "reader"
    <3>1. At(i, a, n, w)'
      BY <2>1, <2>3 DEF At, Ahead
    <3> QED
      BY <3>1
  <2> QED
    BY <2>2, <2>3
<1> QED
  BY <1>1, <1>2, <1>3 DEF ReaderStep

LEMMA CommitPlaces ==
    ASSUME TypeOK, Control, Located, NEW j \in Items, CommitFails(j)
    PROVE  Located'
<1> SUFFICES ASSUME NEW i \in Items, NEW a, NEW n, NEW w, At(i, a, n, w)
             PROVE  \E b, m, v : At(i, b, m, v)'
  BY DEF Located
<1>1. UNCHANGED <<hand, tasks, witem, results, batch, spc>> /\ j \in unread
  BY DEF CommitFails, channels, workers, saver
<1>2. CASE UNCHANGED <<unread, fate>>
  <2>1. At(i, a, n, w)'
    BY <1>1, <1>2 DEF At, Ahead
  <2> QED
    BY <2>1
<1>3. CASE unread' = unread \ {j} /\ Lose({j}, "commit")
  <2>1. CASE i = j
    <3>1. At(i, "out", n, w)'
      BY <1>1, <1>3, <2>1 DEF At, Ahead, Lose
    <3> QED
      BY <3>1
  <2>2. CASE i # j
    <3>1. At(i, a, n, w)'
      BY <1>1, <1>3, <2>2 DEF At, Ahead, Lose
    <3> QED
      BY <3>1
  <2> QED
    BY <2>1, <2>2
<1> QED
  BY <1>2, <1>3 DEF CommitFails

\* A worker that moves its item nowhere or drops it.
LEMMA DroppedPlaces ==
    ASSUME TypeOK, Located, NEW w \in Workers, NEW cause \in Losses,
           witem' = [witem EXCEPT ![w] = None], Lose({witem[w]}, cause),
           UNCHANGED <<unread, hand, tasks, results, batch, spc>>
    PROVE  Located'
<1> SUFFICES ASSUME NEW i \in Items, NEW a, NEW n, NEW x, At(i, a, n, x)
             PROVE  \E b, m, v : At(i, b, m, v)'
  BY DEF Located
<1>0. cause # "none" /\ None # i
  BY DEF Losses
<1>1. witem'[w] = None /\ \A v \in Workers \ {w} : witem'[v] = witem[v]
  BY DEF TypeOK
<1>2. fate'[i] = IF i = witem[w] THEN cause ELSE fate[i]
  BY DEF Lose
<1>3. CASE a = "worker" /\ x = w
  <2>1. witem[w] = i
    BY <1>3 DEF At
  <2>2. At(i, "out", n, x)'
    BY <1>0, <1>1, <1>2, <1>3, <2>1 DEF At, Ahead
  <2> QED
    BY <2>2
<1>4. CASE ~(a = "worker" /\ x = w)
  <2>1. witem[w] # i
    BY <1>4 DEF At
  <2>2. At(i, a, n, x)'
    BY <1>0, <1>1, <1>2, <1>4, <2>1 DEF At, Ahead
  <2> QED
    BY <2>2
<1> QED
  BY <1>3, <1>4

LEMMA TakePlaces ==
    ASSUME TypeOK, Control, Located, NEW w \in Workers, Take(w)
    PROVE  Located'
<1> SUFFICES ASSUME NEW i \in Items, NEW a, NEW n, NEW x, At(i, a, n, x)
             PROVE  \E b, m, v : At(i, b, m, v)'
  BY DEF Located
<1>1. /\ Head(tasks) = tasks[1] /\ Len(tasks) \in Nat \ {0} /\ Len(tasks') = Len(tasks) - 1
      /\ \A k \in 1 .. Len(tasks) - 1 : tasks'[k] = tasks[k + 1]
  BY Taken DEF TypeOK, Take
<1>2. /\ witem'[w] = tasks[1] /\ \A v \in Workers \ {w} : witem'[v] = witem[v]
      /\ witem[w] = None /\ None # i
  BY <1>1 DEF TypeOK, Take, Control
<1>3. UNCHANGED <<unread, hand, results, batch, spc, fate>>
  BY DEF Take, saver
<1>4. CASE a = "tasks" /\ n = 1
  <2>1. tasks[1] = i /\ \A k \in 1 .. Len(tasks) : k # 1 => tasks[k] # i
    BY <1>1, <1>4 DEF At
  <2>2. At(i, "worker", n, w)'
    BY <1>1, <1>2, <1>3, <1>4, <2>1 DEF At, Ahead
  <2> QED
    BY <2>2
<1>5. CASE a = "tasks" /\ n # 1
  <2>1. n \in 2 .. Len(tasks) /\ tasks[1] # i /\ \A k \in 1 .. Len(tasks) : tasks[k] = i <=> n = k
    BY <1>1, <1>5 DEF At
  <2>2. n - 1 \in 1 .. Len(tasks') /\ n - 1 \in Nat /\ \A k \in 1 .. Len(tasks') : tasks'[k] = i <=> n - 1 = k
    BY <1>1, <2>1
  <2>3. At(i, "tasks", n - 1, x)'
    BY <1>2, <1>3, <1>5, <2>1, <2>2 DEF At, Ahead
  <2> QED
    BY <2>3
<1>6. CASE a # "tasks"
  <2>1. \A k \in 1 .. Len(tasks) : tasks[k] # i
    BY <1>6 DEF At
  <2>2. tasks[1] # i /\ \A k \in 1 .. Len(tasks') : tasks'[k] # i
    BY <1>1, <2>1
  <2>3. At(i, a, n, x)'
    BY <1>2, <1>3, <1>6, <2>2 DEF At, Ahead
  <2> QED
    BY <2>3
<1> QED
  BY <1>4, <1>5, <1>6

LEMMA EmitPlaces ==
    ASSUME TypeOK, Control, Located, NEW w \in Workers, Emit(w)
    PROVE  Located'
<1> SUFFICES ASSUME NEW i \in Items, NEW a, NEW n, NEW x, At(i, a, n, x)
             PROVE  \E b, m, v : At(i, b, m, v)'
  BY DEF Located
<1>1. witem[w] \in Items /\ results \in Seq(Items)
  BY DEF TypeOK, Emit, Control
<1>2. /\ Len(results) \in Nat /\ Len(results') = Len(results) + 1
      /\ \A k \in 1 .. Len(results) : results'[k] = results[k]
      /\ results'[Len(results) + 1] = witem[w]
  BY <1>1, Appended DEF Emit
<1>3. witem'[w] = None /\ (\A v \in Workers \ {w} : witem'[v] = witem[v]) /\ None # i
  BY DEF TypeOK, Emit
<1>4. UNCHANGED <<unread, hand, tasks, batch, spc, fate>>
  BY DEF Emit, saver
<1>5. CASE a = "worker" /\ x = w
  <2>1. witem[w] = i /\ \A k \in 1 .. Len(results) : results[k] # i
    BY <1>5 DEF At
  <2>2. PICK last \in Nat : last = Len(results')
    BY <1>2
  <2>3. last \in 1 .. Len(results') /\ \A k \in 1 .. Len(results') : results'[k] = i <=> last = k
    BY <1>2, <2>1, <2>2
  <2>4. At(i, "results", last, x)'
    BY <1>3, <1>4, <1>5, <2>2, <2>3 DEF At, Ahead
  <2> QED
    BY <2>4
<1>6. CASE ~(a = "worker" /\ x = w)
  <2>1. witem[w] # i
    BY <1>6 DEF At
  <2>2. At(i, a, n, x)'
    BY <1>2, <1>3, <1>4, <1>6, <2>1 DEF At, Ahead
  <2> QED
    BY <2>2
<1> QED
  BY <1>5, <1>6

LEMMA WorkerPlaces ==
    ASSUME TypeOK, Control, Located, NEW w \in Workers,
           WorkerStep(w) \/ UploadError(w) \/ PublishError(w)
    PROVE  Located'
<1>1. CASE Upload(w) \/ PublishAlerts(w) \/ PublishError(w) \/ WorkerExit(w)
  BY <1>1, Stay DEF Upload, PublishAlerts, PublishError, WorkerExit, channels, saver
<1>2. CASE UploadError(w)
  <2>1. /\ witem' = [witem EXCEPT ![w] = None] /\ Lose({witem[w]}, "upload")
        /\ UNCHANGED <<unread, hand, tasks, results, batch, spc>>
    BY <1>2 DEF UploadError, channels, saver
  <2> QED
    BY <2>1, DroppedPlaces DEF Losses
<1>3. CASE EmitCancelled(w)
  <2>1. /\ witem' = [witem EXCEPT ![w] = None] /\ Lose({witem[w]}, "shutdown")
        /\ UNCHANGED <<unread, hand, tasks, results, batch, spc>>
    BY <1>3 DEF EmitCancelled, channels, saver
  <2> QED
    BY <2>1, DroppedPlaces DEF Losses
<1> QED
  BY <1>1, <1>2, <1>3, TakePlaces, EmitPlaces DEF WorkerStep

\* A flush of what the batcher holds keeps the batch for the call or drops it.
LEMMA FlushPlaces ==
    ASSUME TypeOK, Control, Located, spc = "select", NEW last \in BOOLEAN, Flush(batch, last),
           UNCHANGED <<unread, hand, tasks, witem, results>>
    PROVE  Located'
<1>1. CASE batch' = batch /\ spc' = "insert" /\ UNCHANGED fate
  BY <1>1, Stay
<1>2. CASE batch' = <<>> /\ spc' \in {"select", "exit"} /\ Lose(Elements(batch), "cancelled")
  <2> SUFFICES ASSUME NEW i \in Items, NEW a, NEW n, NEW w, At(i, a, n, w)
               PROVE  \E b, m, v : At(i, b, m, v)'
    BY DEF Located
  <2>1. fate'[i] = IF i \in Elements(batch) THEN "cancelled" ELSE fate[i]
    BY <1>2 DEF Lose
  <2>2. i \in Elements(batch) <=> a = "batch"
    BY DEF Elements, At, Ahead
  <2>3. \A k \in 1 .. Len(batch') : FALSE
    BY <1>2
  <2>4. CASE a = "batch"
    <3>1. At(i, "out", n, w)'
      BY <2>1, <2>2, <2>3, <2>4 DEF At, Ahead
    <3> QED
      BY <3>1
  <2>5. CASE a # "batch"
    <3>1. At(i, a, n, w)'
      BY <2>1, <2>2, <2>3, <2>5 DEF At, Ahead
    <3> QED
      BY <3>1
  <2> QED
    BY <2>4, <2>5
<1> QED
  BY <1>1, <1>2 DEF Flush

\* What Receive does with the longer batch.
LEMMA Received ==
    ASSUME TypeOK, Control, Receive
    PROVE  /\ spc = "select" /\ results \in Seq(Items) /\ results # <<>> /\ results' = Tail(results)
           /\ UNCHANGED <<unread, hand, tasks, witem, wpc, store, saved, indexed>>
           /\ \/ /\ batch' = Append(batch, Head(results)) /\ UNCHANGED fate
                 /\ spc' = "insert" \/ (spc' = "select" /\ Len(batch') < BatchSize)
              \/ /\ batch' = <<>> /\ spc' = "select" /\ ctx = "done"
                 /\ Lose(Elements(Append(batch, Head(results))), "cancelled")
<1> DEFINE longer == Append(batch, Head(results))
<1>1. Head(results) \in Items /\ batch \in Seq(Items) /\ results # <<>> /\ results \in Seq(Items)
  BY Taken DEF Receive, TypeOK
<1>2. longer # <<>> /\ Len(longer) \in Nat /\ BatchSize \in Nat
  BY <1>1, Appended
<1>3. /\ spc = "select" /\ results' = Tail(results)
      /\ UNCHANGED <<unread, hand, tasks, witem, wpc, store, saved, indexed>>
  BY DEF Receive, SaverFrame, workers, outside
<1>4. CASE Len(longer) >= BatchSize
  <2>1. Flush(longer, FALSE)
    BY <1>4 DEF Receive
  <2> QED
    BY <1>1, <1>2, <1>3, <2>1 DEF Flush
<1>5. CASE ~(Len(longer) >= BatchSize)
  <2>1. batch' = longer /\ UNCHANGED <<spc, fate>>
    BY <1>5 DEF Receive
  <2> QED
    BY <1>1, <1>2, <1>3, <1>5, <2>1
<1> QED
  BY <1>4, <1>5

LEMMA ReceivePlaces ==
    ASSUME TypeOK, Control, Located, Receive
    PROVE  Located'
<1> SUFFICES ASSUME NEW i \in Items, NEW a, NEW n, NEW w, At(i, a, n, w)
             PROVE  \E b, m, v : At(i, b, m, v)'
  BY DEF Located
<1> DEFINE longer == Append(batch, Head(results))
<1>1. /\ Head(results) = results[1] /\ Len(results) \in Nat \ {0} /\ Len(results') = Len(results) - 1
      /\ \A k \in 1 .. Len(results) - 1 : results'[k] = results[k + 1]
  BY Received, Taken
<1>2. /\ Len(batch) \in Nat /\ Len(longer) = Len(batch) + 1
      /\ \A k \in 1 .. Len(batch) : longer[k] = batch[k]
      /\ longer[Len(batch) + 1] = Head(results)
  BY Received, Taken, Appended DEF TypeOK
<1>3. UNCHANGED <<unread, hand, tasks, witem>> /\ spc = "select" /\ spc' \in {"select", "insert"}
  BY Received
<1>4. i \in Elements(longer) <=> a = "batch" \/ (a = "results" /\ n = 1)
  <2>1. i \in Elements(longer) <=> (\E k \in 1 .. Len(batch) : batch[k] = i) \/ Head(results) = i
    BY <1>2 DEF Elements
  <2>2. (\E k \in 1 .. Len(batch) : batch[k] = i) <=> a = "batch"
    BY <1>3 DEF At, Ahead
  <2>3. Head(results) = i <=> a = "results" /\ n = 1
    BY <1>1 DEF At
  <2> QED
    BY <2>1, <2>2, <2>3
<1>5. a = "results" => n \in 1 .. Len(results) /\ \A k \in 1 .. Len(results) : results[k] = i <=> n = k
  BY DEF At
<1>6. a # "results" => \A k \in 1 .. Len(results') : results'[k] # i
  BY <1>1 DEF At
<1>7. a = "results" /\ n = 1 => \A k \in 1 .. Len(results') : results'[k] # i
  BY <1>1, <1>5
<1>8. PICK p \in Nat : a = "results" /\ n # 1 =>
        p \in 1 .. Len(results') /\ \A k \in 1 .. Len(results') : results'[k] = i <=> p = k
  <2>1. CASE a = "results" /\ n # 1
    <3>1. n - 1 \in Nat /\ n - 1 \in 1 .. Len(results')
      BY <1>1, <1>5, <2>1
    <3>2. \A k \in 1 .. Len(results') : results'[k] = i <=> n - 1 = k
      BY <1>1, <1>5, <2>1
    <3> QED
      BY <3>1, <3>2
  <2>2. CASE ~(a = "results" /\ n # 1)
    BY <2>2
  <2> QED
    BY <2>1, <2>2
<1>9. CASE batch' = longer /\ UNCHANGED fate
  <2>1. CASE a = "results" /\ n = 1
    <3>1. PICK last \in Nat : last = Len(batch')
      BY <1>2, <1>9
    <3>2. last \in 1 .. Len(batch') /\ \A k \in 1 .. Len(batch') : batch'[k] = i <=> last = k
      BY <1>1, <1>2, <1>3, <1>9, <2>1, <3>1 DEF At, Ahead
    <3>3. At(i, "batch", last, w)'
      BY <1>3, <1>7, <1>9, <2>1, <3>2 DEF At, Ahead
    <3> QED
      BY <3>3
  <2>2. CASE a = "results" /\ n # 1
    <3>1. \A k \in 1 .. Len(batch') : batch'[k] # i
      BY <1>2, <1>4, <1>9, <2>2 DEF Elements
    <3>2. At(i, "results", p, w)'
      BY <1>3, <1>8, <1>9, <2>2, <3>1 DEF At, Ahead
    <3> QED
      BY <3>2
  <2>3. CASE a # "results"
    <3>1. \A k \in 1 .. Len(batch') : batch'[k] = i <=> a = "batch" /\ n = k
      BY <1>1, <1>2, <1>3, <1>9, <2>3 DEF At, Ahead
    <3>2. At(i, a, n, w)'
      BY <1>2, <1>3, <1>6, <1>9, <2>3, <3>1 DEF At, Ahead
    <3> QED
      BY <3>2
  <2> QED
    BY <2>1, <2>2, <2>3
<1>10. CASE batch' = <<>> /\ Lose(Elements(longer), "cancelled")
  <2>1. fate'[i] = IF i \in Elements(longer) THEN "cancelled" ELSE fate[i]
    BY <1>10 DEF Lose
  <2>2. \A k \in 1 .. Len(batch') : FALSE
    BY <1>10
  <2>3. CASE a = "batch" \/ (a = "results" /\ n = 1)
    <3>1. At(i, "out", n, w)'
      BY <1>3, <1>4, <1>6, <1>7, <2>1, <2>2, <2>3 DEF At, Ahead
    <3> QED
      BY <3>1
  <2>4. CASE a = "results" /\ n # 1
    <3>1. At(i, "results", p, w)'
      BY <1>3, <1>4, <1>8, <2>1, <2>2, <2>4 DEF At, Ahead
    <3> QED
      BY <3>1
  <2>5. CASE a \notin {"batch", "results"}
    <3>1. At(i, a, n, w)'
      BY <1>3, <1>4, <1>6, <2>1, <2>2, <2>5 DEF At, Ahead
    <3> QED
      BY <3>1
  <2> QED
    BY <2>3, <2>4, <2>5
<1> QED
  BY <1>9, <1>10, Received

\* The call is through with the first item of the batch.
LEMMA NextPlaces ==
    ASSUME TypeOK, Control, Located, spc \in {"insert", "index"}, NextItem,
           UNCHANGED <<unread, hand, tasks, witem, results>>,
           \A j \in Items : fate'[j] # fate[j] => j = Head(batch),
           fate'[Head(batch)] # "none", spc = "index" => fate[Head(batch)] # "none"
    PROVE  Located'
<1> SUFFICES ASSUME NEW i \in Items, NEW a, NEW n, NEW w, At(i, a, n, w)
             PROVE  \E b, m, v : At(i, b, m, v)'
  BY DEF Located
<1>1. /\ Head(batch) = batch[1] /\ Len(batch) \in Nat \ {0} /\ Len(batch') = Len(batch) - 1
      /\ \A k \in 1 .. Len(batch) - 1 : batch'[k] = batch[k + 1]
  BY Taken DEF TypeOK, Control, NextItem
<1>2. spc' # "index"
  BY DEF NextItem
<1>3. CASE i = Head(batch)
  <2>1. a = "out" \/ (a = "batch" /\ n = 1)
    BY <1>1, <1>3 DEF At, Ahead, Control
  <2>2. \A k \in 1 .. Len(batch') : batch'[k] # i
    <3>1. \A k \in 2 .. Len(batch) : batch[k] # i
      BY <1>1, <2>1 DEF At, Ahead
    <3> QED
      BY <1>1, <3>1
  <2>3. At(i, "out", n, w)'
    BY <1>2, <1>3, <2>1, <2>2 DEF At, Ahead
  <2> QED
    BY <2>3
<1>4. CASE i # Head(batch) /\ a = "batch"
  <2>1. n \in 2 .. Len(batch) /\ \A k \in 2 .. Len(batch) : batch[k] = i <=> n = k
    BY <1>1, <1>4 DEF At, Ahead
  <2>2. PICK m \in Nat : m = n - 1
    BY <2>1
  <2>3. m \in 1 .. Len(batch') /\ \A k \in 1 .. Len(batch') : batch'[k] = i <=> m = k
    BY <1>1, <2>1, <2>2
  <2>4. At(i, "batch", m, w)'
    BY <1>2, <1>4, <2>3 DEF At, Ahead
  <2> QED
    BY <2>4
<1>5. CASE i # Head(batch) /\ a # "batch"
  <2>1. \A k \in 2 .. Len(batch) : batch[k] # i
    BY <1>1, <1>5 DEF At, Ahead
  <2>2. \A k \in 1 .. Len(batch') : batch'[k] # i
    BY <1>1, <2>1
  <2>3. At(i, a, n, w)'
    BY <1>2, <1>5, <2>2 DEF At, Ahead
  <2> QED
    BY <2>3
<1> QED
  BY <1>3, <1>4, <1>5

\* A failed call drops what it has not stored.
LEMMA SaveErrorPlaces ==
    ASSUME TypeOK, Control, Located, SaveError
    PROVE  Located'
<1> SUFFICES ASSUME NEW i \in Items, NEW a, NEW n, NEW w, At(i, a, n, w)
             PROVE  \E b, m, v : At(i, b, m, v)'
  BY DEF Located
<1>1. PICK cause \in {"save", "cancelled"} : Lose(Unsaved, cause)
  BY DEF SaveError
<1>2. batch' = <<>> /\ spc' # "index" /\ UNCHANGED <<unread, hand, tasks, witem, results>>
  BY DEF SaveError, StoreFrame, channels, workers
<1>3. i \in Unsaved <=> a = "batch"
  BY UnsavedIs DEF At
<1>4. fate'[i] = IF i \in Unsaved THEN cause ELSE fate[i]
  BY <1>1 DEF Lose
<1>5. \A k \in 1 .. Len(batch') : FALSE
  BY <1>2
<1>6. CASE a = "batch"
  <2>1. At(i, "out", n, w)'
    BY <1>2, <1>3, <1>4, <1>5, <1>6 DEF At, Ahead
  <2> QED
    BY <2>1
<1>7. CASE a # "batch"
  <2>1. At(i, a, n, w)'
    BY <1>2, <1>3, <1>4, <1>5, <1>7 DEF At, Ahead
  <2> QED
    BY <2>1
<1> QED
  BY <1>6, <1>7

LEMMA SaverPlaces ==
    ASSUME TypeOK, Control, Located, Uploaded, SaverStep \/ SaveError
    PROVE  Located'
<1>1. CASE FlushTick
  <2>1. /\ spc = "select" /\ Flush(batch, FALSE)
        /\ UNCHANGED <<unread, hand, tasks, witem, results>>
    BY <1>1 DEF FlushTick, SaverFrame, workers
  <2> QED
    BY <2>1, FlushPlaces
<1>2. CASE FlushOnClose \/ FlushOnDone
  <2>1. /\ spc = "select" /\ Flush(batch, TRUE)
        /\ UNCHANGED <<unread, hand, tasks, witem, results>>
    BY <1>2 DEF FlushOnClose, FlushOnDone, SaverFrame, workers
  <2> QED
    BY <2>1, FlushPlaces
<1>3. CASE InsertNews
  <2> SUFFICES ASSUME NEW i \in Items, NEW a, NEW n, NEW w, At(i, a, n, w)
               PROVE  \E b, m, v : At(i, b, m, v)'
    BY DEF Located
  <2>1. /\ spc = "insert" /\ spc' = "index" /\ fate' = [fate EXCEPT ![Head(batch)] = "saved"]
        /\ UNCHANGED <<unread, hand, tasks, witem, results, batch>>
    BY <1>3 DEF InsertNews, StoreFrame, channels, workers
  <2>2. /\ Head(batch) = batch[1] /\ Head(batch) \in Items /\ 1 \in 1 .. Len(batch)
    BY <2>1, Taken DEF TypeOK, Control
  <2>3. fate'[i] = IF i = Head(batch) THEN "saved" ELSE fate[i]
    BY <2>1 DEF TypeOK
  <2>4. CASE i = Head(batch)
    <3>1. a = "batch" /\ n = 1
      BY <2>1, <2>2, <2>4 DEF At, Ahead
    <3>2. At(i, "out", n, w)'
      BY <2>1, <2>3, <2>4, <3>1 DEF At, Ahead
    <3> QED
      BY <3>2
  <2>5. CASE i # Head(batch)
    <3>1. ~(a = "batch" /\ n = 1)
      BY <2>1, <2>2, <2>5 DEF At, Ahead
    <3>2. At(i, a, n, w)'
      BY <2>1, <2>3, <2>5, <3>1 DEF At, Ahead
    <3> QED
      BY <3>2
  <2> QED
    BY <2>4, <2>5
<1>4. CASE DuplicateNews
  <2>1. /\ spc = "insert" /\ NextItem /\ fate' = [fate EXCEPT ![Head(batch)] = "duplicate"]
        /\ UNCHANGED <<unread, hand, tasks, witem, results>>
    BY <1>4 DEF DuplicateNews, StoreFrame, channels, workers
  <2>2. Head(batch) \in Items
    BY <2>1, Taken DEF TypeOK, Control
  <2>3. fate'[Head(batch)] # "none" /\ \A j \in Items : fate'[j] # fate[j] => j = Head(batch)
    BY <2>1, <2>2 DEF TypeOK
  <2> QED
    BY <2>1, <2>3, NextPlaces
<1>5. CASE UpsertIndex
  <2>1. /\ spc = "index" /\ NextItem /\ fate' = fate
        /\ UNCHANGED <<unread, hand, tasks, witem, results>>
    BY <1>5 DEF UpsertIndex, StoreFrame, channels, workers
  <2>2. fate[Head(batch)] = "saved"
    BY <2>1 DEF Control, Uploaded
  <2> QED
    BY <2>1, <2>2, NextPlaces
<1> QED
  BY <1>1, <1>2, <1>3, <1>4, <1>5, ReceivePlaces, SaveErrorPlaces DEF SaverStep

LEMMA CrashPlaces ==
    ASSUME TypeOK, Control, Located, Crash
    PROVE  Located'
<1> SUFFICES ASSUME NEW i \in Items, NEW a, NEW n, NEW w, At(i, a, n, w)
             PROVE  \E b, m, v : At(i, b, m, v)'
  BY DEF Located
<1>1. /\ hand' = None /\ tasks' = <<>> /\ results' = <<>> /\ batch' = <<>> /\ spc' = "select"
      /\ witem' = [v \in Workers |-> None] /\ unread' = unread /\ None # i
      /\ fate' = [j \in Items |-> IF j \in InMemory THEN "crash" ELSE fate[j]]
  BY DEF Crash, Lose
<1>2. i \in InMemory <=> a \notin {"topic", "out"}
  BY <1>1, UnsavedIs DEF InMemory, Elements, At
<1>3. fate'[i] = IF i \in InMemory THEN "crash" ELSE fate[i]
  BY <1>1
<1>4. \A k \in 1 .. 0 : FALSE
  OBVIOUS
<1>5. CASE a \notin {"topic", "out"}
  <2>1. At(i, "out", n, w)'
    BY <1>1, <1>2, <1>3, <1>4, <1>5 DEF At, Ahead
  <2> QED
    BY <2>1
<1>6. CASE a \in {"topic", "out"}
  <2>1. At(i, a, n, w)'
    BY <1>1, <1>2, <1>3, <1>4, <1>6 DEF At, Ahead
  <2> QED
    BY <2>1
<1> QED
  BY <1>5, <1>6

LEMMA PlacesKept ==
    ASSUME TypeOK, Control, Located, Uploaded, [Next]_vars
    PROVE  Located'
<1>1. CASE RunStep \/ Cancel \/ RefreshRules \/ Terminated \/ UNCHANGED vars
  BY <1>1, Stay
  DEF RunStep, CloseTasks, CloseResults, Return, Cancel, RefreshRules, Terminated, RunFrame, vars,
      channels, workers, saver
<1>2. CASE FaultStep
  BY <1>2, CommitPlaces, WorkerPlaces, SaverPlaces, CrashPlaces DEF FaultStep
<1> QED
  BY <1>1, <1>2, ReaderPlaces, WorkerPlaces, SaverPlaces DEF Next

-----------------------------------------------------------------------------
(* Types and program counters *)

LEMMA ReaderKeeps ==
    ASSUME TypeOK, Control, ReaderStep \/ (\E i \in Items : CommitFails(i))
    PROVE  TypeOK' /\ Control'
<1>1. CASE \E i \in Items : ReadMessage(i)
  <2>1. TypeOK'
    BY <1>1 DEF ReadMessage, TypeOK, channels, workers, saver, outside
  <2>2. Control'
    BY <1>1, ProcessorAssumption DEF ReadMessage, Control, TasksClosed, channels, workers, saver, outside
  <2> QED
    BY <2>1, <2>2
<1>2. CASE HandOver
  <2>1. hand \in Items
    BY <1>2 DEF HandOver, Control, TypeOK
  <2>2. tasks' \in Seq(Items) /\ Len(tasks') <= Capacity
    BY <1>2, <2>1, Appended DEF HandOver, TypeOK
  <2>3. TypeOK'
    BY <1>2, <2>2 DEF HandOver, TypeOK, workers, saver, outside
  <2>4. Control'
    BY <1>2 DEF HandOver, Control, TasksClosed, workers, saver, outside
  <2> QED
    BY <2>3, <2>4
<1>3. CASE ReaderStops
  <2>1. TypeOK'
    BY <1>3 DEF ReaderStops, TypeOK, Lose, Fates, Losses, channels, workers, saver, outside
  <2>2. Control'
    BY <1>3 DEF ReaderStops, Control, TasksClosed, channels, workers, saver, outside
  <2> QED
    BY <2>1, <2>2
<1>4. CASE \E i \in Items : CommitFails(i)
  <2>1. TypeOK'
    BY <1>4 DEF CommitFails, TypeOK, Lose, Fates, Losses, Fault, channels, workers, saver, outside
  <2>2. Control'
    BY <1>4 DEF CommitFails, Control, TasksClosed, channels, workers, saver, outside
  <2> QED
    BY <2>1, <2>2
<1> QED
  BY <1>1, <1>2, <1>3, <1>4 DEF ReaderStep

LEMMA WorkerKeeps ==
    ASSUME TypeOK, Control, NEW w \in Workers,
           WorkerStep(w) \/ UploadError(w) \/ PublishError(w)
    PROVE  TypeOK' /\ Control'
<1>1. CASE Take(w)
  <2>1. tasks' \in Seq(Items) /\ Len(tasks') <= Capacity /\ Head(tasks) \in Items
    BY <1>1, Taken DEF Take, TypeOK
  <2>2. TypeOK'
    BY <1>1, <2>1 DEF Take, TypeOK, saver, outside
  <2>3. Control'
    BY <1>1, <2>1, ProcessorAssumption DEF Take, TypeOK, Control, TasksClosed, saver, outside
  <2> QED
    BY <2>2, <2>3
<1>2. CASE Upload(w)
  <2>1. witem[w] \in Items
    BY <1>2 DEF Upload, TypeOK, Control
  <2>2. TypeOK'
    BY <1>2, <2>1 DEF Upload, TypeOK, channels, saver
  <2>3. Control'
    BY <1>2 DEF Upload, TypeOK, Control, TasksClosed, channels, saver
  <2> QED
    BY <2>2, <2>3
<1>3. CASE UploadError(w)
  <2>1. TypeOK'
    BY <1>3 DEF UploadError, TypeOK, Lose, Fates, Losses, Fault, channels, saver, outside
  <2>2. Control'
    BY <1>3 DEF UploadError, TypeOK, Control, TasksClosed, channels, saver, outside
  <2> QED
    BY <2>1, <2>2
<1>4. CASE PublishAlerts(w) \/ PublishError(w)
  <2>1. /\ wpc[w] = "alert" /\ wpc' = [wpc EXCEPT ![w] = "emit"] /\ alerts' \subseteq alerts \cup Matched(w)
        /\ faults' \in {faults, faults + 1}
        /\ UNCHANGED <<unread, ctx, run, reader, hand, channels, witem, saver, cache, store, saved, indexed, fate>>
    BY <1>4 DEF PublishAlerts, PublishError, Fault
  <2>2. Matched(w) \subseteq Items \X Rules
    BY ProcessorAssumption DEF Matched
  <2>3. TypeOK'
    BY <2>1, <2>2 DEF TypeOK, channels, saver
  <2>4. Control'
    BY <2>1 DEF TypeOK, Control, TasksClosed, channels, saver
  <2> QED
    BY <2>3, <2>4
<1>5. CASE Emit(w)
  <2>1. witem[w] \in Items
    BY <1>5 DEF Emit, TypeOK, Control
  <2>2. results' \in Seq(Items) /\ Len(results') <= Capacity
    BY <1>5, <2>1, Appended DEF Emit, TypeOK
  <2>3. TypeOK'
    BY <1>5, <2>2 DEF Emit, TypeOK, saver, outside
  <2>4. Control'
    BY <1>5 DEF Emit, TypeOK, Control, TasksClosed, saver, outside
  <2> QED
    BY <2>3, <2>4
<1>6. CASE EmitCancelled(w)
  <2>1. TypeOK'
    BY <1>6 DEF EmitCancelled, TypeOK, Lose, Fates, Losses, channels, saver, outside
  <2>2. Control'
    BY <1>6 DEF EmitCancelled, TypeOK, Control, TasksClosed, channels, saver, outside
  <2> QED
    BY <2>1, <2>2
<1>7. CASE WorkerExit(w)
  <2>1. TypeOK'
    BY <1>7 DEF WorkerExit, TypeOK, channels, saver, outside
  <2>2. Control'
    BY <1>7 DEF WorkerExit, TypeOK, Control, TasksClosed, channels, saver, outside
  <2> QED
    BY <2>1, <2>2
<1> QED
  BY <1>1, <1>2, <1>3, <1>4, <1>5, <1>6, <1>7 DEF WorkerStep

\* The batcher leaves the reader, the workers and Run alone.
LEMMA SaverMoves ==
    ASSUME TypeOK, Control,
           UNCHANGED <<unread, ctx, run, reader, hand, tasks, resultsClosed, wpc, witem, cache, store, alerts>>,
           results' \in Seq(Items), Len(results') <= Capacity,
           spc' \in {"select", "insert", "index", "exit"}, leaving' \in BOOLEAN,
           batch' \in Seq(Items), Len(batch') <= BatchSize,
           saved' \subseteq Items, indexed' \subseteq saved', fate' \in [Items -> Fates], faults' \in Nat,
           spc' = "select" => Len(batch') < BatchSize,
           spc' \in {"insert", "index"} => batch' # <<>>,
           spc' = "index" => Head(batch') \in saved'
    PROVE  TypeOK' /\ Control'
<1>1. TypeOK'
  BY DEF TypeOK
<1>2. Control'
  BY DEF Control, TasksClosed
<1> QED
  BY <1>1, <1>2

LEMMA FlushKeeps ==
    ASSUME TypeOK, Control, FlushTick \/ FlushOnClose \/ FlushOnDone
    PROVE  TypeOK' /\ Control'
<1>1. PICK last \in BOOLEAN : Flush(batch, last)
  BY DEF FlushTick, FlushOnClose, FlushOnDone
<1>2. /\ spc = "select" /\ UNCHANGED results /\ SaverFrame
  BY DEF FlushTick, FlushOnClose, FlushOnDone
<1>3. /\ leaving' \in BOOLEAN
      /\ \/ batch' = <<>> /\ spc' \in {"select", "exit"}
         \/ batch' = batch /\ batch # <<>> /\ spc' = "insert"
      /\ fate' \in [Items -> Fates]
  BY <1>1 DEF Flush, TypeOK, Lose, Fates, Losses
<1>4. Len(<<>>) = 0 /\ 0 < BatchSize /\ <<>> \in Seq(Items)
  OBVIOUS
<1>5. /\ UNCHANGED <<unread, ctx, run, reader, hand, tasks, resultsClosed, wpc, witem, cache, store, alerts>>
      /\ UNCHANGED <<saved, indexed, faults, results>>
  BY <1>2 DEF SaverFrame, workers, outside
<1>6. /\ results \in Seq(Items) /\ Len(results) <= Capacity /\ batch \in Seq(Items) /\ Len(batch) <= BatchSize
      /\ saved \subseteq Items /\ indexed \subseteq saved /\ faults \in Nat
  BY DEF TypeOK
<1>7. batch' \in Seq(Items) /\ Len(batch') <= BatchSize /\ (spc' = "select" => Len(batch') < BatchSize)
  <2>1. CASE batch' = <<>>
    <3>1. BatchSize \in Nat \ {0} /\ Len(batch') = 0
      BY <1>4, <2>1
    <3> QED
      BY <1>4, <2>1, <3>1
  <2>2. CASE batch' = batch /\ spc' = "insert"
    BY <1>6, <2>2
  <2> QED
    BY <1>3, <2>1, <2>2
<1>8. results' \in Seq(Items) /\ Len(results') <= Capacity /\ saved' \subseteq Items /\ indexed' \subseteq saved' /\ faults' \in Nat
  BY <1>5, <1>6
<1>9. spc' \in {"select", "insert", "index", "exit"} /\ spc' # "index" /\ (spc' = "insert" => batch' # <<>>)
  BY <1>3
<1> QED
  BY <1>3, <1>5, <1>7, <1>8, <1>9, SaverMoves

LEMMA ReceiveKeeps ==
    ASSUME TypeOK, Control, Receive
    PROVE  TypeOK' /\ Control'
<1>1. /\ Head(results) \in Items /\ results' \in Seq(Items) /\ Len(results') <= Capacity
  <2>1. results \in Seq(Items) /\ results # <<>> /\ results' = Tail(results)
    BY Received
  <2>2. /\ Head(results) \in Items /\ results' \in Seq(Items)
        /\ Len(results) \in Nat \ {0} /\ Len(results') = Len(results) - 1
    BY <2>1, Taken
  <2> QED
    BY <2>2 DEF TypeOK
<1>2. Len(batch) < BatchSize /\ batch \in Seq(Items)
  BY Received DEF Control, TypeOK
<1>3. Append(batch, Head(results)) \in Seq(Items) /\ Len(Append(batch, Head(results))) = Len(batch) + 1 /\ Len(batch) \in Nat
  BY <1>1, <1>2, Appended
<1>4. Len(<<>>) = 0 /\ 0 < BatchSize /\ <<>> \in Seq(Items)
  OBVIOUS
<1>5. /\ spc' \in {"select", "insert"} /\ batch' \in Seq(Items) /\ Len(batch') <= BatchSize
      /\ spc' = "select" => Len(batch') < BatchSize
      /\ spc' = "insert" => batch' # <<>>
  <2>1. CASE batch' = Append(batch, Head(results)) /\ (spc' = "insert" \/ (spc' = "select" /\ Len(batch') < BatchSize))
    <3>1. Len(batch') = Len(batch) + 1 /\ batch' \in Seq(Items) /\ Len(batch) + 1 <= BatchSize
      BY <1>2, <1>3, <2>1
    <3>2. Len(batch') # 0
      BY <1>3, <3>1
    <3> QED
      BY <1>4, <2>1, <3>1, <3>2
  <2>2. CASE batch' = <<>> /\ spc' = "select"
    BY <1>4, <2>2
  <2> QED
    BY <2>1, <2>2, Received
<1>6. /\ UNCHANGED <<unread, ctx, run, reader, hand, tasks, resultsClosed, wpc, witem, cache, store, alerts>>
      /\ UNCHANGED <<saved, indexed, faults>>
  BY DEF Receive, SaverFrame, workers, outside
<1>7. leaving' \in BOOLEAN
  BY DEF Receive, Flush, TypeOK
<1>8. fate' \in [Items -> Fates]
  BY Received DEF Lose, TypeOK, Fates, Losses
<1>9. saved \subseteq Items /\ indexed \subseteq saved /\ faults \in Nat
  BY DEF TypeOK
<1> QED
  BY <1>1, <1>5, <1>6, <1>7, <1>8, <1>9, SaverMoves

\* The batch and the program counter after NextItem.
LEMMA NextItemKeeps ==
    ASSUME TypeOK, Control, spc \in {"insert", "index"}, NextItem
    PROVE  /\ batch' \in Seq(Items) /\ Len(batch') <= BatchSize
           /\ spc' \in {"select", "insert", "exit"}
           /\ spc' = "select" => Len(batch') < BatchSize
           /\ spc' = "insert" => batch' # <<>>
<1>1. batch \in Seq(Items) /\ batch # <<>> /\ batch' = Tail(batch) /\ Len(batch) <= BatchSize
  BY DEF TypeOK, Control, NextItem
<1>2. batch' \in Seq(Items) /\ Len(batch) \in Nat \ {0} /\ Len(batch') = Len(batch) - 1
  BY <1>1, Taken
<1>3. Len(batch') > 0 => batch' # <<>>
  OBVIOUS
<1> QED
  BY <1>1, <1>2, <1>3 DEF NextItem

LEMMA StoreKeeps ==
    ASSUME TypeOK, Control, InsertNews \/ DuplicateNews \/ UpsertIndex \/ SaveError
    PROVE  TypeOK' /\ Control'
<1>1. /\ UNCHANGED <<unread, ctx, run, reader, hand, tasks, resultsClosed, wpc, witem, cache, store, alerts>>
      /\ results' = results /\ leaving' = leaving /\ spc \in {"insert", "index"}
  BY DEF InsertNews, DuplicateNews, UpsertIndex, SaveError, StoreFrame, channels, workers
<1>2. /\ results' \in Seq(Items) /\ Len(results') <= Capacity /\ leaving' \in BOOLEAN
      /\ batch \in Seq(Items) /\ Len(batch) <= BatchSize /\ batch # <<>>
      /\ saved \subseteq Items /\ indexed \subseteq saved /\ fate \in [Items -> Fates] /\ faults \in Nat
  BY <1>1 DEF TypeOK, Control
<1>3. Head(batch) \in Items
  BY <1>2, Taken
<1>4. CASE InsertNews
  <2>1. /\ spc' = "index" /\ batch' = batch /\ Head(batch') \in saved' /\ saved' \subseteq Items
        /\ indexed' \subseteq saved' /\ fate' \in [Items -> Fates] /\ faults' \in Nat
    BY <1>2, <1>3, <1>4 DEF InsertNews, StoreFrame, Fates
  <2> QED
    BY <1>1, <1>2, <2>1, SaverMoves
<1>5. CASE DuplicateNews \/ UpsertIndex
  <2>1. NextItem /\ saved' = saved /\ indexed' \subseteq saved' /\ fate' \in [Items -> Fates] /\ faults' \in Nat
    BY <1>2, <1>3, <1>5 DEF DuplicateNews, UpsertIndex, StoreFrame, Fates, Control
  <2> QED
    BY <1>1, <1>2, <2>1, NextItemKeeps, SaverMoves
<1>6. CASE SaveError
  <2>1. /\ batch' = <<>> /\ spc' \in {"exit", "select"} /\ UNCHANGED <<saved, indexed>>
        /\ fate' \in [Items -> Fates] /\ faults' \in Nat
    BY <1>2, <1>6 DEF SaveError, StoreFrame, Lose, Fates, Losses, Fault
  <2>2. Len(<<>>) = 0 /\ 0 < BatchSize /\ <<>> \in Seq(Items)
    OBVIOUS
  <2> QED
    BY <1>1, <1>2, <2>1, <2>2, SaverMoves
<1> QED
  BY <1>4, <1>5, <1>6

LEMMA RunKeeps ==
    ASSUME TypeOK, Control, RunStep \/ Cancel \/ RefreshRules
    PROVE  TypeOK' /\ Control'
<1>1. TypeOK'
  BY DEF RunStep, CloseTasks, CloseResults, Return, Cancel, RefreshRules, RunFrame, TypeOK,
         channels, workers, saver, outside
<1>2. Control'
  BY DEF RunStep, CloseTasks, CloseResults, Return, Cancel, RefreshRules, RunFrame, Control, TasksClosed,
         channels, workers, saver, outside
<1> QED
  BY <1>1, <1>2

LEMMA CrashKeeps ==
    ASSUME TypeOK, Control, Crash
    PROVE  TypeOK' /\ Control'
<1>1. Len(<<>>) = 0 /\ 0 < BatchSize /\ <<>> \in Seq(Items) /\ 0 <= Capacity
  OBVIOUS
<1>2. TypeOK'
  <2>1. fate' \in [Items -> Fates] /\ faults' \in Nat
    BY DEF Crash, TypeOK, Lose, Fates, Losses, Fault
  <2>2. /\ tasks' \in Seq(Items) /\ Len(tasks') <= Capacity /\ results' \in Seq(Items) /\ Len(results') <= Capacity
        /\ batch' \in Seq(Items) /\ Len(batch') <= BatchSize
    BY <1>1 DEF Crash
  <2>3. /\ wpc' \in [Workers -> {"take", "upload", "alert", "emit", "exit"}]
        /\ witem' \in [Workers -> Items \cup {None}]
    BY DEF Crash
  <2> QED
    BY <2>1, <2>2, <2>3 DEF Crash, TypeOK, outside
<1>3. Control'
  BY <1>1 DEF Crash, Control, TasksClosed, outside
<1> QED
  BY <1>2, <1>3

LEMMA TypesKept ==
    ASSUME TypeOK, Control, [Next]_vars
    PROVE  TypeOK' /\ Control'
<1>1. CASE Terminated \/ UNCHANGED vars
  <2>1. TypeOK'
    BY <1>1 DEF Terminated, vars, TypeOK
  <2>2. Control'
    BY <1>1 DEF Terminated, vars, Control, TasksClosed
  <2> QED
    BY <2>1, <2>2
<1>2. CASE SaverStep
  BY <1>2, FlushKeeps, ReceiveKeeps, StoreKeeps DEF SaverStep
<1>3. CASE FaultStep
  BY <1>3, ReaderKeeps, WorkerKeeps, StoreKeeps, CrashKeeps DEF FaultStep
<1> QED
  BY <1>1, <1>2, <1>3, ReaderKeeps, WorkerKeeps, RunKeeps DEF Next

-----------------------------------------------------------------------------
(* Fates and rows *)

\* What the pipeline holds has no fate yet.
LEMMA HeldHasNone ==
    ASSUME TypeOK, Control, Located, NEW i \in Items, i \in unread \cup InMemory
    PROVE  fate[i] = "none"
<1>1. PICK a, n, w : At(i, a, n, w)
  BY DEF Located
<1>2. a # "out"
  <2>1. CASE i \in unread \/ i = hand \/ (\E v \in Workers : witem[v] = i)
    BY <1>1, <2>1 DEF At
  <2>2. CASE i \in Elements(tasks) \cup Elements(results)
    BY <1>1, <2>2 DEF At, Elements
  <2>3. CASE i \in Unsaved
    BY <1>1, <2>3, UnsavedIs DEF At
  <2> QED
    BY <2>1, <2>2, <2>3 DEF InMemory
<1> QED
  BY <1>1, <1>2 DEF At

\* A fate is given once, to an item the pipeline holds, and it is a loss only
\* once the context is done or something fails.
Given ==
    /\ \A i \in Items : fate'[i] # fate[i] =>
          /\ fate[i] = "none"
          /\ \/ fate'[i] \in Losses /\ (ctx = "done" \/ faults' = faults + 1)
             \/ DuplicateNews /\ i = Head(batch) /\ fate'[i] = "duplicate"
             \/ InsertNews /\ i = Head(batch) /\ fate'[i] = "saved"
    /\ InsertNews \/ saved' = saved

LEMMA Lost ==
    ASSUME TypeOK, Control, Located, NEW S, NEW cause \in Losses, Lose(S, cause),
           S \cap Items \subseteq unread \cup InMemory,
           S \cap Items # {} => ctx = "done" \/ faults' = faults + 1,
           saved' = saved
    PROVE  Given
<1> SUFFICES ASSUME NEW i \in Items, fate'[i] # fate[i]
             PROVE  fate[i] = "none" /\ fate'[i] \in Losses /\ (ctx = "done" \/ faults' = faults + 1)
  BY DEF Given
<1>1. i \in S /\ fate'[i] = cause
  BY DEF Lose
<1> QED
  BY <1>1, HeldHasNone

LEMMA SaverGives ==
    ASSUME TypeOK, Control, Located, SaverStep \/ SaveError
    PROVE  Given
<1>1. CASE FlushTick \/ FlushOnClose \/ FlushOnDone
  <2>1. PICK last \in BOOLEAN : Flush(batch, last)
    BY <1>1 DEF FlushTick, FlushOnClose, FlushOnDone
  <2>2. spc = "select" /\ saved' = saved
    BY <1>1 DEF FlushTick, FlushOnClose, FlushOnDone, SaverFrame, outside
  <2>3. CASE UNCHANGED fate
    BY <2>2, <2>3 DEF Given
  <2>4. CASE (batch = <<>> \/ ctx = "done") /\ Lose(Elements(batch), "cancelled")
    <3>1. Elements(batch) \cap Items \subseteq InMemory
      BY <2>2, ProcessorAssumption DEF InMemory, Unsaved
    <3>2. Elements(batch) # {} => ctx = "done"
      BY <2>4 DEF Elements
    <3> QED
      BY <2>2, <2>4, <3>1, <3>2, Lost DEF Losses
  <2> QED
    BY <2>1, <2>3, <2>4 DEF Flush
<1>2. CASE Receive
  <2>1. saved' = saved /\ spc = "select"
    BY <1>2, Received
  <2>2. CASE UNCHANGED fate
    BY <2>1, <2>2 DEF Given
  <2>3. CASE ctx = "done" /\ Lose(Elements(Append(batch, Head(results))), "cancelled")
    <3>1. /\ Len(batch) \in Nat /\ Len(Append(batch, Head(results))) = Len(batch) + 1
          /\ \A k \in 1 .. Len(batch) : Append(batch, Head(results))[k] = batch[k]
          /\ Append(batch, Head(results))[Len(batch) + 1] = Head(results)
          /\ Head(results) = results[1] /\ 1 \in 1 .. Len(results)
      BY <1>2, Received, Taken, Appended DEF TypeOK
    <3>2. Elements(Append(batch, Head(results))) \subseteq Elements(batch) \cup Elements(results)
      BY <3>1 DEF Elements
    <3>3. Elements(Append(batch, Head(results))) \cap Items \subseteq InMemory
      BY <2>1, <3>2, ProcessorAssumption DEF InMemory, Unsaved
    <3> QED
      BY <2>1, <2>3, <3>3, Lost DEF Losses
  <2> QED
    BY <1>2, <2>2, <2>3, Received
<1>3. CASE SaveError
  <2>1. saved' = saved /\ Unsaved \cap Items \subseteq InMemory
    BY <1>3, ProcessorAssumption DEF SaveError, InMemory
  <2>2. \/ faults' = faults + 1 /\ Lose(Unsaved, "save")
        \/ ctx = "done" /\ Lose(Unsaved, "cancelled")
    BY <1>3 DEF SaveError, Fault
  <2> QED
    BY <2>1, <2>2, Lost DEF Losses
<1>4. CASE InsertNews \/ DuplicateNews
  <2>1. spc = "insert" /\ Head(batch) = batch[1] /\ 1 \in 1 .. Len(batch) /\ Head(batch) \in Items
    BY <1>4, Taken DEF InsertNews, DuplicateNews, TypeOK, Control
  <2>2. fate[Head(batch)] = "none"
    BY <2>1, HeldHasNone, ProcessorAssumption DEF InMemory, Unsaved, Elements
  <2> QED
    BY <1>4, <2>1, <2>2 DEF InsertNews, DuplicateNews, Given, TypeOK
<1>5. CASE UpsertIndex
  BY <1>5 DEF UpsertIndex, Given
<1> QED
  BY <1>1, <1>2, <1>3, <1>4, <1>5 DEF SaverStep

LEMMA FatesGiven ==
    ASSUME TypeOK, Control, Located, [Next]_vars
    PROVE  Given
<1>1. CASE ReaderStep
  <2>1. CASE (\E i \in Items : ReadMessage(i)) \/ HandOver
    BY <2>1 DEF ReadMessage, HandOver, outside, Given
  <2>2. CASE ReaderStops
    BY <2>2, Lost DEF ReaderStops, outside, InMemory, Losses
  <2> QED
    BY <1>1, <2>1, <2>2 DEF ReaderStep
<1>2. CASE \E i \in Items : CommitFails(i)
  <2>1. PICK i \in Items : CommitFails(i)
    BY <1>2
  <2>2. i \in unread /\ faults' = faults + 1 /\ saved' = saved /\ (UNCHANGED fate \/ Lose({i}, "commit"))
    BY <2>1 DEF CommitFails, Fault, outside
  <2> QED
    BY <2>2, Lost DEF Losses, Given
<1>3. ASSUME NEW w \in Workers, WorkerStep(w) \/ UploadError(w) \/ PublishError(w) PROVE Given
  <2>1. CASE Take(w) \/ Upload(w) \/ PublishAlerts(w) \/ PublishError(w) \/ Emit(w) \/ WorkerExit(w)
    BY <2>1 DEF Take, Upload, PublishAlerts, PublishError, Emit, WorkerExit, outside, Given
  <2>2. {witem[w]} \cap Items \subseteq InMemory
    BY ProcessorAssumption DEF InMemory
  <2>3. CASE UploadError(w)
    BY <2>2, <2>3, Lost DEF UploadError, Fault, outside, Losses
  <2>4. CASE EmitCancelled(w)
    BY <2>2, <2>4, Lost DEF EmitCancelled, outside, Losses
  <2> QED
    BY <1>3, <2>1, <2>3, <2>4 DEF WorkerStep
<1>4. CASE Crash
  BY <1>4, Lost DEF Crash, Fault, outside, Losses
<1>5. CASE RunStep \/ Cancel \/ RefreshRules \/ Terminated \/ UNCHANGED vars
  BY <1>5
  DEF RunStep, CloseTasks, CloseResults, Return, Cancel, RefreshRules, Terminated, RunFrame, vars, outside, Given
<1> QED
  BY <1>1, <1>2, <1>3, <1>4, <1>5, SaverGives DEF Next, FaultStep

LEMMA RowsKept ==
    ASSUME TypeOK, Control, Uploaded, RowsSound, Given, store \subseteq store'
    PROVE  RowsSound' /\ \A i \in saved' : fate'[i] = "saved"
<1>1. CASE saved' = saved
  <2>1. \A i \in saved : fate'[i] = "saved"
    BY DEF Given, Uploaded, TypeOK
  <2>2. ASSUME NEW i \in Items, fate'[i] = "duplicate"
        PROVE  \E j \in saved' \ {i} : UrlOf[j] = UrlOf[i]
    <3>1. CASE fate[i] = "duplicate"
      BY <1>1, <3>1 DEF RowsSound
    <3>2. CASE fate[i] # "duplicate"
      <4>1. DuplicateNews /\ i = Head(batch) /\ fate[i] = "none"
        BY <2>2, <3>2 DEF Given, Losses
      <4>2. PICK j \in saved : UrlOf[j] = UrlOf[i]
        BY <4>1 DEF DuplicateNews, HasRow
      <4>3. j # i
        BY <4>1, <4>2 DEF Uploaded
      <4> QED
        BY <1>1, <4>2, <4>3
    <3> QED
      BY <3>1, <3>2
  <2> QED
    BY <1>1, <2>1, <2>2 DEF RowsSound
<1>2. CASE InsertNews
  <2>1. /\ spc = "insert" /\ Head(batch) = batch[1] /\ 1 \in 1 .. Len(batch) /\ Head(batch) \in Items
        /\ saved' = saved \cup {Head(batch)} /\ fate' = [fate EXCEPT ![Head(batch)] = "saved"]
        /\ \A j \in saved : UrlOf[j] # UrlOf[Head(batch)]
    BY <1>2, Taken DEF InsertNews, TypeOK, Control, HasRow
  <2>2. \A i \in Items : fate'[i] = IF i = Head(batch) THEN "saved" ELSE fate[i]
    BY <2>1 DEF TypeOK
  <2>3. \A i, j \in saved' : UrlOf[i] = UrlOf[j] => i = j
    BY <2>1 DEF RowsSound
  <2>4. ASSUME NEW i \in Items, fate'[i] = "duplicate"
        PROVE  \E j \in saved' \ {i} : UrlOf[j] = UrlOf[i]
    BY <2>1, <2>2, <2>4 DEF RowsSound
  <2>5. saved' \cap HasContent \subseteq store'
    BY <2>1 DEF RowsSound, Uploaded
  <2>6. \A i \in saved' : fate'[i] = "saved"
    BY <2>1, <2>2 DEF Uploaded, TypeOK
  <2> QED
    BY <2>3, <2>4, <2>5, <2>6 DEF RowsSound
<1> QED
  BY <1>1, <1>2 DEF Given

\* An item is past its upload before it is in results or in the batch.
LEMMA TextsKept ==
    ASSUME TypeOK, Control, Uploaded, [Next]_vars
    PROVE  /\ store \subseteq store'
           /\ \A k \in 1 .. Len(results') : results'[k] \in HasContent => results'[k] \in store'
           /\ \A k \in 1 .. Len(batch') : batch'[k] \in HasContent => batch'[k] \in store'
<1>1. CASE UNCHANGED <<results, batch>> /\ store \subseteq store'
  BY <1>1 DEF Uploaded
<1>2. CASE \E w \in Workers : Emit(w)
  <2>1. PICK w \in Workers : Emit(w)
    BY <1>2
  <2>2. witem[w] \in Items /\ (witem[w] \in HasContent => witem[w] \in store) /\ results \in Seq(Items)
    BY <2>1 DEF Emit, Control, TypeOK
  <2>3. /\ Len(results) \in Nat /\ Len(results') = Len(results) + 1
        /\ \A k \in 1 .. Len(results) : results'[k] = results[k]
        /\ results'[Len(results) + 1] = witem[w]
    BY <2>1, <2>2, Appended DEF Emit
  <2>4. batch' = batch /\ store' = store
    BY <2>1 DEF Emit, saver, outside
  <2>5. ASSUME NEW k \in 1 .. Len(results'), results'[k] \in HasContent PROVE results'[k] \in store
    <3>1. CASE k \in 1 .. Len(results)
      BY <2>3, <2>5, <3>1 DEF Uploaded
    <3>2. CASE k = Len(results) + 1
      BY <2>2, <2>3, <2>5, <3>2
    <3> QED
      BY <2>3, <3>1, <3>2
  <2> QED
    BY <2>4, <2>5 DEF Uploaded
<1>3. CASE Receive
  <2>1. /\ Head(results) = results[1] /\ Len(results) \in Nat \ {0} /\ Len(results') = Len(results) - 1
        /\ \A k \in 1 .. Len(results) - 1 : results'[k] = results[k + 1]
    BY <1>3, Received, Taken
  <2>2. \A k \in 1 .. Len(results') : results'[k] \in HasContent => results'[k] \in store
    BY <2>1 DEF Uploaded
  <2>3. /\ Len(batch) \in Nat /\ Len(Append(batch, Head(results))) = Len(batch) + 1
        /\ \A k \in 1 .. Len(batch) : Append(batch, Head(results))[k] = batch[k]
        /\ Append(batch, Head(results))[Len(batch) + 1] = results[1]
    BY <1>3, <2>1, Received, Taken, Appended DEF TypeOK
  <2>4. results[1] \in HasContent => results[1] \in store
    BY <2>1 DEF Uploaded
  <2>5. ASSUME batch' = Append(batch, Head(results)), NEW k \in 1 .. Len(batch'), batch'[k] \in HasContent
        PROVE  batch'[k] \in store
    <3>1. CASE k \in 1 .. Len(batch)
      BY <2>3, <2>5, <3>1 DEF Uploaded
    <3>2. CASE k = Len(batch) + 1
      BY <2>3, <2>4, <2>5, <3>2
    <3> QED
      BY <2>3, <2>5, <3>1, <3>2
  <2>6. batch' = <<>> => \A k \in 1 .. Len(batch') : FALSE
    OBVIOUS
  <2>7. store' = store /\ (batch' = Append(batch, Head(results)) \/ batch' = <<>>)
    BY <1>3, Received
  <2> QED
    BY <2>2, <2>5, <2>6, <2>7
<1>4. CASE FlushTick \/ FlushOnClose \/ FlushOnDone \/ SaveError
  <2>1. UNCHANGED <<results, store>> /\ (batch' = batch \/ batch' = <<>>)
    BY <1>4 DEF FlushTick, FlushOnClose, FlushOnDone, SaveError, Flush, SaverFrame, StoreFrame, outside, channels
  <2>2. batch' = <<>> => \A k \in 1 .. Len(batch') : FALSE
    OBVIOUS
  <2> QED
    BY <2>1, <2>2 DEF Uploaded
<1>5. CASE DuplicateNews \/ UpsertIndex
  <2>1. UNCHANGED <<results, store>> /\ batch' = Tail(batch) /\ batch \in Seq(Items) /\ batch # <<>>
    BY <1>5 DEF DuplicateNews, UpsertIndex, NextItem, StoreFrame, channels, TypeOK, Control
  <2>2. /\ Len(batch) \in Nat \ {0} /\ Len(batch') = Len(batch) - 1
        /\ \A k \in 1 .. Len(batch) - 1 : batch'[k] = batch[k + 1]
    BY <2>1, Taken
  <2> QED
    BY <2>1, <2>2 DEF Uploaded
<1>6. CASE Crash
  <2>1. results' = <<>> /\ batch' = <<>> /\ store' = store
    BY <1>6 DEF Crash, outside
  <2>2. \A k \in 1 .. Len(<<>>) : FALSE
    OBVIOUS
  <2> QED
    BY <2>1, <2>2
<1>7. CASE \/ ReaderStep \/ RunStep \/ Cancel \/ RefreshRules \/ Terminated \/ UNCHANGED vars \/ InsertNews
           \/ \E i \in Items : CommitFails(i)
           \/ \E w \in Workers : Take(w) \/ Upload(w) \/ UploadError(w) \/ PublishAlerts(w) \/ PublishError(w)
                                   \/ EmitCancelled(w) \/ WorkerExit(w)
  <2>1. UNCHANGED <<results, batch>> /\ store \subseteq store'
    BY <1>7
    DEF ReaderStep, ReadMessage, HandOver, ReaderStops, RunStep, CloseTasks, CloseResults, Return, Cancel,
        RefreshRules, Terminated, vars, InsertNews, CommitFails, Take, Upload, UploadError, PublishAlerts,
        PublishError, EmitCancelled, WorkerExit, RunFrame, StoreFrame, channels, saver, outside
  <2> QED
    BY <1>1, <2>1
<1> QED
  BY <1>2, <1>3, <1>4, <1>5, <1>6, <1>7 DEF Next, WorkerStep, SaverStep, FaultStep

\* Only InsertNews adds a row, and the batcher works on nothing else before the
\* search index has it.
LEMMA NothingLost ==
    ASSUME TypeOK, Control, Given, NoLossWhileRunning, [Next]_vars
    PROVE  NoLossWhileRunning'
<1> SUFFICES ASSUME ctx' = "live", faults' = 0
             PROVE  /\ \A i \in Items : fate'[i] \notin Losses
                    /\ \A i \in saved' \ indexed' : spc' = "index" /\ i = Head(batch')
  BY DEF NoLossWhileRunning
<1>1. ~Crash /\ ~SaveError /\ (\A w \in Workers : ~PublishError(w) \/ faults' = faults) /\ ctx = "live" /\ faults = 0
  <2>1. faults \in Nat
    BY DEF TypeOK
  <2>2. faults' = faults \/ faults' = faults + 1
    BY DEF Next, ReaderStep, ReadMessage, HandOver, ReaderStops, WorkerStep, Take, Upload, PublishAlerts, Emit,
           EmitCancelled, WorkerExit, SaverStep, Receive, FlushTick, FlushOnClose, FlushOnDone, SaverFrame,
           InsertNews, DuplicateNews, UpsertIndex, RunStep, CloseTasks, CloseResults, Return, RunFrame,
           FaultStep, CommitFails, UploadError, PublishError, SaveError, Crash, Fault, Cancel, RefreshRules,
           Terminated, vars
  <2>3. ~Crash
    BY <2>1 DEF Crash, Fault
  <2>4. ctx' = ctx \/ ctx' = "done"
    BY <2>3
    DEF Next, ReaderStep, ReadMessage, HandOver, ReaderStops, WorkerStep, Take, Upload, PublishAlerts, Emit,
        EmitCancelled, WorkerExit, SaverStep, Receive, FlushTick, FlushOnClose, FlushOnDone, SaverFrame,
        InsertNews, DuplicateNews, UpsertIndex, RunStep, CloseTasks, CloseResults, Return, RunFrame, StoreFrame,
        FaultStep, CommitFails, UploadError, PublishError, SaveError, Cancel, RefreshRules, Terminated, vars
  <2>5. ctx = "live" /\ faults = 0
    BY <2>1, <2>2, <2>4
  <2>6. ~SaveError
    BY <2>5 DEF SaveError, Fault
  <2> QED
    BY <2>2, <2>3, <2>5, <2>6
<1>2. \A i \in Items : fate'[i] \notin Losses
  BY <1>1 DEF Given, NoLossWhileRunning, Losses
<1>3. \A i \in saved \ indexed : spc = "index" /\ i = Head(batch)
  BY <1>1 DEF NoLossWhileRunning
<1>4. CASE InsertNews
  BY <1>2, <1>3, <1>4 DEF InsertNews, StoreFrame
<1>5. CASE UpsertIndex
  BY <1>2, <1>3, <1>5 DEF UpsertIndex, StoreFrame
<1>6. CASE DuplicateNews \/ Receive \/ FlushTick \/ FlushOnClose \/ FlushOnDone
  <2>1. spc # "index" /\ UNCHANGED <<saved, indexed>>
    BY <1>6 DEF DuplicateNews, Receive, FlushTick, FlushOnClose, FlushOnDone, SaverFrame, StoreFrame, outside
  <2> QED
    BY <1>2, <1>3, <2>1
<1>7. CASE ~SaverStep
  <2>1. UNCHANGED <<spc, batch, saved, indexed>>
    BY <1>1, <1>7
    DEF Next, ReaderStep, ReadMessage, HandOver, ReaderStops, WorkerStep, Take, Upload, PublishAlerts, Emit,
        EmitCancelled, WorkerExit, RunStep, CloseTasks, CloseResults, Return, RunFrame, FaultStep,
        CommitFails, UploadError, PublishError, Cancel, RefreshRules, Terminated, vars, saver, outside
  <2> QED
    BY <1>2, <1>3, <2>1
<1> QED
  BY <1>2, <1>4, <1>5, <1>6, <1>7 DEF SaverStep

-----------------------------------------------------------------------------
(* Theorems *)

LEMMA Start == Init => IInv
<1> SUFFICES ASSUME Init PROVE IInv
  OBVIOUS
<1>1. /\ tasks = <<>> /\ results = <<>> /\ batch = <<>> /\ Len(<<>>) = 0 /\ <<>> \in Seq(Items)
      /\ 0 <= Capacity /\ 0 < BatchSize /\ 0 <= BatchSize /\ \A k \in 1 .. 0 : FALSE
  BY DEF Init
<1>2. TypeOK
  BY <1>1 DEF Init, TypeOK, Fates
<1>3. Control
  BY <1>1 DEF Init, Control, TasksClosed
<1>4. Located
  <2> SUFFICES ASSUME NEW i \in Items PROVE \E a, n, w : At(i, a, n, w)
    BY DEF Located
  <2>1. At(i, "topic", 0, None)
    BY <1>1, ProcessorAssumption DEF Init, At, Ahead
  <2> QED
    BY <2>1
<1>5. Uploaded /\ RowsSound
  BY <1>1 DEF Init, Uploaded, RowsSound
<1>6. NoLossWhileRunning
  BY DEF Init, NoLossWhileRunning, Losses
<1> QED
  BY <1>2, <1>3, <1>4, <1>5, <1>6 DEF IInv

LEMMA Inductive == IInv /\ [Next]_vars => IInv'
<1> SUFFICES ASSUME IInv, [Next]_vars PROVE IInv'
  OBVIOUS
<1>1. TypeOK /\ Control /\ Located /\ Uploaded /\ RowsSound /\ NoLossWhileRunning
  BY DEF IInv
<1>2. TypeOK' /\ Control'
  BY <1>1, TypesKept
<1>3. Located'
  BY <1>1, PlacesKept
<1>4. Given
  BY <1>1, FatesGiven
<1>5. RowsSound' /\ Uploaded'
  BY <1>1, <1>4, RowsKept, TextsKept DEF Uploaded
<1>6. NoLossWhileRunning'
  BY <1>1, <1>4, NothingLost
<1> QED
  BY <1>2, <1>3, <1>5, <1>6 DEF IInv

LEMMA Always == Spec => []IInv
BY Start, Inductive, PTL DEF Spec

\* Every variable has a value of its kind, and neither a channel nor the batch
\* ever holds more than it may.
THEOREM PipelineTypeCorrect == Spec => []TypeOK
BY Always, PTL DEF IInv

\* One row per URL, a duplicate is one of another item, and what a row refers to
\* was uploaded, whatever fails and wherever the process dies.
THEOREM RowsAreSound == Spec => []RowsSound
BY Always, PTL DEF IInv

\* Nothing is lost and no row stays without its search index entry, unless the
\* context is done or something failed.
THEOREM NothingLostWhileRunning == Spec => []NoLossWhileRunning
BY Always, PTL DEF IInv

\* Run closes a channel after the last goroutine that sends on it.
THEOREM ClosedInOrder == Spec => []NoSendOnClosed
<1>1. IInv => NoSendOnClosed
  BY DEF IInv, Control, NoSendOnClosed
<1> QED
  BY <1>1, Always, PTL

\* An item is in one place: the topic, a goroutine, a channel, the batch or out.
THEOREM InOnePlace == Spec => []OnePlace
<1>1. ASSUME IInv, NEW i \in Items PROVE Cardinality(Places(i)) = 1
  <2>1. PICK a, n, w : At(i, a, n, w)
    BY <1>1 DEF IInv, Located
  <2>2. CASE a = "topic"
    <3>1. Places(i) = {<<"topic", 0>>}
      BY <2>1, <2>2 DEF Places, At, Ahead
    <3> QED
      BY <3>1, FS_Singleton
  <2>3. CASE a = "reader"
    <3>1. Places(i) = {<<"reader", 0>>}
      BY <2>1, <2>3 DEF Places, At, Ahead
    <3> QED
      BY <3>1, FS_Singleton
  <2>4. CASE a = "tasks"
    <3>1. Places(i) = {<<"tasks", n>>}
      BY <2>1, <2>4 DEF Places, At, Ahead
    <3> QED
      BY <3>1, FS_Singleton
  <2>5. CASE a = "worker"
    <3>1. Places(i) = {<<"worker", w>>}
      BY <2>1, <2>5 DEF Places, At, Ahead
    <3> QED
      BY <3>1, FS_Singleton
  <2>6. CASE a = "results"
    <3>1. Places(i) = {<<"results", n>>}
      BY <2>1, <2>6 DEF Places, At, Ahead
    <3> QED
      BY <3>1, FS_Singleton
  <2>7. CASE a = "batch"
    <3>1. Places(i) = {<<"batch", n>>}
      BY <2>1, <2>7 DEF Places, At, Ahead
    <3> QED
      BY <3>1, FS_Singleton
  <2>8. CASE a = "out"
    <3>1. Places(i) = {<<"out", 0>>}
      BY <2>1, <2>8 DEF Places, At, Ahead
    <3> QED
      BY <3>1, FS_Singleton
  <2> QED
    BY <2>1, <2>2, <2>3, <2>4, <2>5, <2>6, <2>7, <2>8 DEF At
<1>2. IInv => OnePlace
  BY <1>1 DEF OnePlace
<1> QED
  BY <1>2, Always, PTL
-----------------------------------------------------------------------------
(* Nobody waits for everybody *)

\* What a goroutine waits for at each of its steps has come.
ReaderMoves ==
    \/ reader = "read" /\ unread # {}
    \/ reader = "hand" /\ Len(tasks) < Capacity
    \/ reader # "stopped" /\ ctx = "done"

WorkerMoves(w) ==
    \/ wpc[w] = "take" /\ (tasks # <<>> \/ TasksClosed)
    \/ wpc[w] \in {"upload", "alert"}
    \/ wpc[w] = "emit" /\ (Len(results) < Capacity \/ ctx = "done")

SaverMovesOn ==
    \/ spc = "select" /\ (results # <<>> \/ batch # <<>> \/ resultsClosed \/ ctx = "done")
    \/ spc \in {"insert", "index"}

RunMoves ==
    \/ run = "reading" /\ reader = "stopped"
    \/ run = "waiting" /\ \A w \in Workers : wpc[w] = "exit"
    \/ run = "draining" /\ spc = "exit"

Moves == ReaderMoves \/ (\E w \in Workers : WorkerMoves(w)) \/ SaverMovesOn \/ RunMoves

\* Run has not returned, and is to return or has an item to bring further.
Busy == run # "done" /\ (ctx = "done" \/ \E i \in Items : fate[i] = "none")

\* Nobody stops before the context is done, and results is closed on the way out.
Stopping ==
    /\ ctx = "live" => /\ run = "reading" /\ reader # "stopped"
                       /\ spc # "exit" /\ ~leaving
                       /\ \A w \in Workers : wpc[w] # "exit"
    /\ resultsClosed <=> run \in {"draining", "done"}

\* Everybody runs at the start.
LEMMA StoppingInit == Init => Stopping
BY DEF Init, Stopping

\* What a goroutine does while the context is live, and that it closes nothing.
LEMMA StoppingNext ==
    ASSUME TypeOK, Control, Stopping, [Next]_vars
    PROVE  Stopping'
<1>1. CASE ReaderStep \/ \E i \in Items : CommitFails(i)
  <2>1. UNCHANGED <<ctx, run, wpc, spc, leaving, resultsClosed>>
    BY <1>1 DEF ReaderStep, ReadMessage, HandOver, ReaderStops, CommitFails, channels, workers, saver
  <2>2. ctx = "live" /\ reader # "stopped" => reader' # "stopped"
    BY <1>1 DEF ReaderStep, ReadMessage, HandOver, ReaderStops, CommitFails
  <2> QED
    BY <2>1, <2>2 DEF Stopping
<1>2. ASSUME NEW w \in Workers, WorkerStep(w) \/ UploadError(w) \/ PublishError(w) PROVE Stopping'
  <2>1. UNCHANGED <<ctx, run, reader, spc, leaving, resultsClosed>>
    BY <1>2 DEF WorkerStep, UploadError, PublishError, Take, Upload, PublishAlerts, Emit, EmitCancelled,
       WorkerExit, channels, saver
  <2>2. ctx = "live" => \A v \in Workers : wpc'[v] # "exit"
    BY <1>2 DEF WorkerStep, UploadError, PublishError, Take, Upload, PublishAlerts, Emit, EmitCancelled,
       WorkerExit, TasksClosed, Stopping, TypeOK
  <2> QED
    BY <2>1, <2>2 DEF Stopping
<1>3. CASE SaverStep \/ SaveError
  <2>1. UNCHANGED <<ctx, run, reader, wpc, resultsClosed>>
    BY <1>3 DEF SaverStep, SaveError, Receive, FlushTick, FlushOnClose, FlushOnDone, InsertNews, DuplicateNews,
       UpsertIndex, SaverFrame, StoreFrame, channels, workers
  <2>2. ctx = "live" => spc' # "exit" /\ ~leaving'
    BY <1>3 DEF SaverStep, SaveError, Receive, FlushTick, FlushOnClose, FlushOnDone, Flush, InsertNews,
       DuplicateNews, UpsertIndex, NextItem, StoreFrame, Stopping
  <2> QED
    BY <2>1, <2>2 DEF Stopping
<1>4. CASE RunStep
  BY <1>4 DEF RunStep, CloseTasks, CloseResults, Return, RunFrame, Stopping, workers, saver
<1>5. CASE Crash
  BY <1>5 DEF Crash, Stopping
<1>6. CASE Cancel \/ RefreshRules \/ Terminated \/ UNCHANGED vars
  BY <1>6 DEF Cancel, RefreshRules, Terminated, vars, Stopping, channels, workers, saver
<1> QED
  BY <1>1, <1>2, <1>3, <1>4, <1>5, <1>6 DEF Next, FaultStep

\* On the way out, each of the four has what the next one waits for.
LEMMA StopMoves ==
    ASSUME TypeOK, Control, Stopping, run # "done", ctx = "done"
    PROVE  Moves
<1>1. CASE run = "reading"
  BY <1>1 DEF TypeOK, Moves, ReaderMoves, RunMoves
<1>2. CASE run = "waiting"
  BY <1>2 DEF TypeOK, TasksClosed, Moves, WorkerMoves, RunMoves
<1>3. CASE run = "draining"
  BY <1>3 DEF TypeOK, Stopping, Moves, SaverMovesOn, RunMoves
<1> QED
  BY <1>1, <1>2, <1>3 DEF TypeOK

\* Before that, full channels empty from behind.
LEMMA WorkMoves ==
    ASSUME Workers # {}, TypeOK, Control, Located, Stopping, ctx = "live",
           NEW i \in Items, fate[i] = "none", ~Moves
    PROVE  FALSE
<1>1. spc = "select" /\ results = <<>> /\ batch = <<>>
  BY DEF Moves, SaverMovesOn, Stopping, TypeOK
<1>2. Len(results) < Capacity /\ Len(<<>>) = 0 /\ 0 < Capacity
  BY <1>1
<1>3. \A w \in Workers : wpc[w] = "take"
  BY <1>2 DEF Moves, WorkerMoves, Stopping, TypeOK
<1>4. tasks = <<>> /\ \A w \in Workers : witem[w] = None
  BY <1>3 DEF Moves, WorkerMoves, Control
<1>5. reader = "read" /\ unread = {}
  BY <1>2, <1>4 DEF Moves, ReaderMoves, Stopping, TypeOK
<1>6. hand = None /\ i # None
  BY <1>5 DEF Control, TypeOK
<1>7. PICK a, n, w : At(i, a, n, w)
  BY DEF Located
<1>8. a \notin {"topic", "reader", "worker", "out"}
  BY <1>4, <1>5, <1>6, <1>7 DEF At
<1>9. a \notin {"tasks", "results", "batch"}
  BY <1>1, <1>2, <1>4, <1>7 DEF At
<1> QED
  BY <1>7, <1>8, <1>9 DEF At

\* Full channels never bring the pipeline to a stand: until Run has returned, as
\* long as it is to return or an item has no fate yet, some goroutine, or Run,
\* has what it waits for.
THEOREM PipelineNeverStuck ==
    ASSUME Workers # {}
    PROVE  Spec => [](Busy => Moves)
<1>1. TypeOK /\ Control /\ Located /\ Stopping => (Busy => Moves)
  BY StopMoves, WorkMoves DEF Busy, TypeOK
<1>2. IInv /\ Stopping /\ [Next]_vars => Stopping'
  BY StoppingNext DEF IInv
<1>3. IInv => TypeOK /\ Control /\ Located
  BY DEF IInv
<1> QED
  BY <1>1, <1>2, <1>3, StoppingInit, Always, PTL DEF Spec

\* A fate is final, and a loss has a reason: a crash, a call that failed or a
\* context that is done.
THEOREM FatesFinal ==
    Spec => [][\A i \in Items : fate'[i] # fate[i] =>
                  /\ fate[i] = "none"
                  /\ fate'[i] \in Losses => ctx = "done" \/ faults' = faults + 1]_vars
<1>1. IInv /\ [Next]_vars =>
        [\A i \in Items : fate'[i] # fate[i] =>
            /\ fate[i] = "none"
            /\ fate'[i] \in Losses => ctx = "done" \/ faults' = faults + 1]_vars
  <2> SUFFICES ASSUME IInv, [Next]_vars, NEW i \in Items, fate'[i] # fate[i]
               PROVE  /\ fate[i] = "none"
                      /\ fate'[i] \in Losses => ctx = "done" \/ faults' = faults + 1
    OBVIOUS
  <2> QED
    BY FatesGiven DEF IInv, Given, Losses
<1> QED
  BY <1>1, Always, PTL DEF Spec

-----------------------------------------------------------------------------
(* Nothing goes back *)

\* How far an item has come.
StageOf(i) ==
    CASE i \in unread                    -> 0
      [] i = hand                        -> 1
      [] i \in Elements(tasks)           -> 2
      [] \E w \in Workers : witem[w] = i -> 3
      [] i \in Elements(results)         -> 4
      [] i \in Unsaved                   -> 5
      [] OTHER                           -> 6

\* An item goes from one goroutine to the next, through both channels, or meets
\* its fate; no error, shutdown or restart takes it back to one it has left.
ItemsForward ==
    [][\A i \in Items : StageOf(i)' \in {StageOf(i), StageOf(i) + 1, 6}]_vars

\* The place of an item says its stage.
StageTold ==
    \A i \in Items : \A a, n, w : At(i, a, n, w) =>
        /\ i \in unread <=> a = "topic"
        /\ i = hand <=> a = "reader"
        /\ i \in Elements(tasks) <=> a = "tasks"
        /\ (\E v \in Workers : witem[v] = i) <=> a = "worker"
        /\ i \in Elements(results) <=> a = "results"
        /\ i \in Unsaved <=> a = "batch"
        /\ StageOf(i) = CASE a = "topic"   -> 0
                          [] a = "reader"  -> 1
                          [] a = "tasks"   -> 2
                          [] a = "worker"  -> 3
                          [] a = "results" -> 4
                          [] a = "batch"   -> 5
                          [] OTHER         -> 6

\* It does, because an item is nowhere else.
LEMMA StageIs == TypeOK /\ Control => StageTold
<1> SUFFICES ASSUME TypeOK, Control, NEW i \in Items, NEW a, NEW n, NEW w, At(i, a, n, w)
             PROVE  /\ i \in unread <=> a = "topic"
                    /\ i = hand <=> a = "reader"
                    /\ i \in Elements(tasks) <=> a = "tasks"
                    /\ (\E v \in Workers : witem[v] = i) <=> a = "worker"
                    /\ i \in Elements(results) <=> a = "results"
                    /\ i \in Unsaved <=> a = "batch"
                    /\ StageOf(i) = CASE a = "topic"   -> 0
                                      [] a = "reader"  -> 1
                                      [] a = "tasks"   -> 2
                                      [] a = "worker"  -> 3
                                      [] a = "results" -> 4
                                      [] a = "batch"   -> 5
                                      [] OTHER         -> 6
  BY DEF StageTold
<1>1. (i \in unread <=> a = "topic") /\ (i = hand <=> a = "reader")
  BY DEF At
<1>2. i \in Elements(tasks) <=> a = "tasks"
  BY DEF At, Elements
<1>3. (\E v \in Workers : witem[v] = i) <=> a = "worker"
  BY DEF At
<1>4. i \in Elements(results) <=> a = "results"
  BY DEF At, Elements
<1>5. i \in Unsaved <=> a = "batch"
  BY UnsavedIs DEF At
<1> QED
  BY <1>1, <1>2, <1>3, <1>4, <1>5 DEF StageOf

\* Each place gets its items from the one before it.
ComesFrom(i) ==
    /\ i \in unread' => i \in unread
    /\ i = hand' => i = hand \/ i \in unread
    /\ i \in Elements(tasks)' => i \in Elements(tasks) \/ i = hand
    /\ (\E w \in Workers : witem'[w] = i) => (\E w \in Workers : witem[w] = i) \/ i \in Elements(tasks)
    /\ i \in Elements(results)' => i \in Elements(results) \/ \E w \in Workers : witem[w] = i
    /\ i \in Unsaved' => i \in Unsaved \/ i \in Elements(results)

\* Append adds one element, Tail takes the first one away.
LEMMA ElementsOf ==
    ASSUME NEW s \in Seq(Items)
    PROVE  /\ \A e \in Items : Elements(Append(s, e)) = Elements(s) \cup {e}
           /\ s # <<>> => Elements(Tail(s)) \subseteq Elements(s) /\ Head(s) \in Elements(s)
           /\ Elements(<<>>) = {}
<1>1. ASSUME NEW e \in Items PROVE Elements(Append(s, e)) = Elements(s) \cup {e}
  BY Appended DEF Elements
<1>2. ASSUME s # <<>> PROVE Elements(Tail(s)) \subseteq Elements(s) /\ Head(s) \in Elements(s)
  <2>1. /\ Head(s) = s[1] /\ Len(s) \in Nat \ {0} /\ Len(Tail(s)) = Len(s) - 1
        /\ \A k \in 1 .. Len(s) - 1 : Tail(s)[k] = s[k + 1]
    BY <1>2, Taken
  <2> QED
    BY <2>1 DEF Elements
<1>3. Elements(<<>>) = {}
  BY DEF Elements
<1> QED
  BY <1>1, <1>2, <1>3

\* saveBatcher takes from results, and its batch only gets shorter otherwise.
LEMMA SaverTakes ==
    ASSUME TypeOK, Control, NEW i \in Items, SaverStep \/ SaveError
    PROVE  ComesFrom(i)
<1>0. batch \in Seq(Items) /\ results \in Seq(Items)
  BY DEF TypeOK
<1>1. UNCHANGED <<unread, hand, tasks, witem>>
  BY DEF SaverStep, SaveError, Receive, FlushTick, FlushOnClose, FlushOnDone, InsertNews, DuplicateNews,
         UpsertIndex, SaverFrame, StoreFrame, channels, workers
<1>2. ASSUME NEW b \in Seq(Items), NEW last, Flush(b, last) PROVE i \in Unsaved' => i \in Elements(b)
  BY <1>2, ElementsOf DEF Flush, Unsaved
<1>3. ASSUME NextItem, batch # <<>> PROVE i \in Unsaved' => i \in Elements(Tail(batch))
  BY <1>3 DEF NextItem, Unsaved
<1>4. CASE Receive
  <2>1. results # <<>> /\ results' = Tail(results) /\ spc = "select"
    BY <1>4 DEF Receive
  <2>2. Head(results) \in Items /\ Head(results) \in Elements(results) /\ Elements(results)' \subseteq Elements(results)
    BY <1>0, <2>1, ElementsOf, Taken
  <2> DEFINE b == Append(batch, Head(results))
  <2>3. b \in Seq(Items) /\ Elements(b) = Elements(batch) \cup {Head(results)}
    BY <1>0, <2>2, ElementsOf, Appended
  <2>4. Flush(b, FALSE) \/ (batch' = b /\ spc' = spc)
    BY <1>4 DEF Receive
  <2> HIDE DEF b
  <2>5. i \in Unsaved' => i \in Elements(b)
    BY <1>2, <2>1, <2>3, <2>4 DEF Unsaved
  <2> QED
    BY <1>1, <2>1, <2>2, <2>3, <2>5 DEF ComesFrom, Unsaved
<1>5. CASE FlushTick \/ FlushOnClose \/ FlushOnDone
  <2>1. spc = "select" /\ UNCHANGED results /\ (Flush(batch, TRUE) \/ Flush(batch, FALSE))
    BY <1>5 DEF FlushTick, FlushOnClose, FlushOnDone
  <2>2. i \in Unsaved' => i \in Elements(batch)
    BY <1>0, <1>2, <2>1
  <2> QED
    BY <1>1, <2>1, <2>2 DEF ComesFrom, Unsaved
<1>6. CASE InsertNews
  <2>1. /\ spc = "insert" /\ spc' = "index" /\ batch' = batch /\ results' = results
        /\ Elements(Tail(batch)) \subseteq Elements(batch)
    BY <1>0, <1>6, ElementsOf DEF InsertNews, StoreFrame, channels, Control
  <2> QED
    BY <1>1, <2>1 DEF ComesFrom, Unsaved
<1>7. CASE DuplicateNews \/ UpsertIndex
  <2>1. /\ spc \in {"insert", "index"} /\ batch # <<>> /\ NextItem /\ results' = results
        /\ Elements(Tail(batch)) \subseteq Elements(batch)
    BY <1>0, <1>7, ElementsOf DEF DuplicateNews, UpsertIndex, StoreFrame, channels, Control
  <2> QED
    BY <1>1, <1>3, <2>1 DEF ComesFrom, Unsaved
<1>8. CASE SaveError
  <2>1. batch' = <<>> /\ spc' # "index" /\ results' = results
    BY <1>8 DEF SaveError, StoreFrame, channels
  <2> QED
    BY <1>0, <1>1, <2>1, ElementsOf DEF ComesFrom, Unsaved
<1> QED
  BY <1>4, <1>5, <1>6, <1>7, <1>8 DEF SaverStep

\* A worker takes from tasks and sends to results.
LEMMA WorkerTakes ==
    ASSUME TypeOK, Control, NEW i \in Items, NEW w \in Workers, WorkerStep(w) \/ UploadError(w) \/ PublishError(w)
    PROVE  ComesFrom(i)
<1>0. tasks \in Seq(Items) /\ results \in Seq(Items) /\ witem \in [Workers -> Items \cup {None}]
  BY DEF TypeOK
<1>1. UNCHANGED <<unread, hand, spc, batch>>
  BY DEF WorkerStep, UploadError, PublishError, Take, Upload, PublishAlerts, Emit, EmitCancelled, WorkerExit, saver
<1>2. Unsaved' = Unsaved
  BY <1>1 DEF Unsaved
<1>3. CASE Take(w)
  <2>1. /\ tasks # <<>> /\ tasks' = Tail(tasks) /\ results' = results
        /\ witem' = [witem EXCEPT ![w] = Head(tasks)]
    BY <1>3 DEF Take
  <2>2. Elements(tasks)' \subseteq Elements(tasks) /\ Head(tasks) \in Elements(tasks)
    BY <1>0, <2>1, ElementsOf
  <2> QED
    BY <1>0, <1>1, <1>2, <2>1, <2>2 DEF ComesFrom
<1>4. CASE Emit(w)
  <2>1. /\ results' = Append(results, witem[w]) /\ tasks' = tasks
        /\ witem' = [witem EXCEPT ![w] = None] /\ witem[w] \in Items
    BY <1>0, <1>4 DEF Emit, Control
  <2>2. Elements(results)' = Elements(results) \cup {witem[w]}
    BY <1>0, <2>1, ElementsOf
  <2> QED
    BY <1>0, <1>1, <1>2, <2>1, <2>2 DEF ComesFrom
<1>5. CASE UploadError(w) \/ EmitCancelled(w)
  <2>1. UNCHANGED <<tasks, results>> /\ witem' = [witem EXCEPT ![w] = None]
    BY <1>5 DEF UploadError, EmitCancelled, channels
  <2> QED
    BY <1>0, <1>1, <1>2, <2>1 DEF ComesFrom
<1>6. CASE Upload(w) \/ PublishAlerts(w) \/ PublishError(w) \/ WorkerExit(w)
  <2>1. UNCHANGED <<tasks, results, witem>>
    BY <1>6 DEF Upload, PublishAlerts, PublishError, WorkerExit, channels
  <2> QED
    BY <1>1, <1>2, <2>1 DEF ComesFrom
<1> QED
  BY <1>3, <1>4, <1>5, <1>6 DEF WorkerStep

\* The reader takes from the topic; the others move nothing, a crash drops all.
LEMMA OthersTake ==
    ASSUME TypeOK, Control, NEW i \in Items, [Next]_vars,
           ~(SaverStep \/ SaveError), \A w \in Workers : ~(WorkerStep(w) \/ UploadError(w) \/ PublishError(w))
    PROVE  ComesFrom(i)
<1>0. tasks \in Seq(Items) /\ None \notin Items
  BY DEF TypeOK
<1>1. ASSUME NEW j \in Items, ReadMessage(j) \/ CommitFails(j) PROVE ComesFrom(i)
  BY <1>1 DEF ReadMessage, CommitFails, channels, workers, saver, ComesFrom, Unsaved
<1>2. CASE HandOver
  <2>1. Elements(tasks)' = Elements(tasks) \cup {hand}
    BY <1>0, <1>2, ElementsOf DEF HandOver, Control, TypeOK
  <2> QED
    BY <1>0, <1>2, <2>1 DEF HandOver, workers, saver, ComesFrom, Unsaved
<1>3. CASE ReaderStops
  BY <1>0, <1>3 DEF ReaderStops, channels, workers, saver, ComesFrom, Unsaved
<1>4. CASE RunStep \/ Cancel \/ RefreshRules \/ Terminated \/ UNCHANGED vars
  <2>1. UNCHANGED <<unread, hand, tasks, witem, results, spc, batch>>
    BY <1>4 DEF RunStep, CloseTasks, CloseResults, Return, RunFrame, Cancel, RefreshRules, Terminated, vars,
       channels, workers, saver
  <2> QED
    BY <2>1 DEF ComesFrom, Unsaved
<1>5. CASE Crash
  <2>1. /\ hand' = None /\ tasks' = <<>> /\ results' = <<>> /\ batch' = <<>> /\ spc' = "select"
        /\ \A w \in Workers : witem'[w] = None
        /\ unread' = unread
    BY <1>5 DEF Crash
  <2> QED
    BY <1>0, <2>1, ElementsOf DEF ComesFrom, Unsaved
<1> QED
  BY <1>1, <1>2, <1>3, <1>4, <1>5 DEF Next, FaultStep, ReaderStep

\* No item comes back to a goroutine or a channel that it has left.
THEOREM NothingGoesBack == Spec => ItemsForward
<1>1. ASSUME TypeOK, Control, Located, Located', StageTold, StageTold', [Next]_vars, NEW i \in Items
      PROVE  StageOf(i)' \in {StageOf(i), StageOf(i) + 1, 6}
  <2>1. ComesFrom(i)
    BY <1>1, SaverTakes, WorkerTakes, OthersTake
  <2>2. PICK a, n, w : At(i, a, n, w)
    BY <1>1 DEF Located
  <2>3. PICK b, m, v : At(i, b, m, v)'
    BY <1>1 DEF Located
  <2>4. /\ b = "topic" => a = "topic"
        /\ b = "reader" => a \in {"reader", "topic"}
        /\ b = "tasks" => a \in {"tasks", "reader"}
        /\ b = "worker" => a \in {"worker", "tasks"}
        /\ b = "results" => a \in {"results", "worker"}
        /\ b = "batch" => a \in {"batch", "results"}
    BY <1>1, <2>1, <2>2, <2>3 DEF StageTold, ComesFrom
  <2>5. /\ StageOf(i) = CASE a = "topic" -> 0 [] a = "reader" -> 1 [] a = "tasks" -> 2 [] a = "worker" -> 3
                          [] a = "results" -> 4 [] a = "batch" -> 5 [] OTHER -> 6
        /\ StageOf(i)' = CASE b = "topic" -> 0 [] b = "reader" -> 1 [] b = "tasks" -> 2 [] b = "worker" -> 3
                           [] b = "results" -> 4 [] b = "batch" -> 5 [] OTHER -> 6
    BY <1>1, <2>2, <2>3 DEF StageTold
  <2>6. b \in {"topic", "reader", "tasks", "worker", "results", "batch", "out"}
    BY <2>3 DEF At
  <2> QED
    BY <2>4, <2>5, <2>6
<1>2. TypeOK /\ Control /\ Located /\ StageTold /\ (Located /\ StageTold)' /\ [Next]_vars =>
        [\A i \in Items : StageOf(i)' \in {StageOf(i), StageOf(i) + 1, 6}]_vars
  BY <1>1
<1>3. IInv => TypeOK /\ Control /\ Located /\ StageTold
  BY StageIs DEF IInv
<1> QED
  BY <1>2, <1>3, Always, PTL DEF Spec, ItemsForward
=============================================================================
