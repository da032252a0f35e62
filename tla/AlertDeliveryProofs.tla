------------------------- MODULE AlertDeliveryProofs -------------------------
(***************************************************************************)
(* Proofs about AlertDelivery, for any number of workers, handlers, rules, *)
(* news items and events and for any number of faults, crashes and copies: *)
(* one alert per pair, true records, the cooldown, and bounded handling.   *)
(***************************************************************************)
EXTENDS AlertDelivery, TLAPS

USE DeliveryAssumption

-----------------------------------------------------------------------------
(* The inductive invariant.  The right to deliver an event is a token: the  *)
(* handler that inserted the pending row has it, hands it to the waiting    *)
(* worker with the answer "ready", gets it back with FinalizeAlertDelivery, *)
(* and it disappears with the last answer, a fault or a crash.              *)

HoldingSteps == {"cooldown", "lastsent", "drop", "sent", "failed"}
HoldingPCs   == {"send", "backoff", "sent", "failed", "dlt"}

\* A handler's client waits for this very handler, and for no other one.
WaitsFor(w, c) ==
    /\ rpc[c].event = event[w]
    /\ \/ rpc[c].step \in ReserveSteps /\ pc[w] = "reserving"
       \/ rpc[c].step \in FinalizeSteps /\ pc[w] = "finalizing"

ClientInv ==
    /\ \A w \in Workers : pc[w] # "read" => event[w] \in Events
    /\ \A c \in Calls : rpc[c].step # "free" => rpc[c].event \in Events
    /\ \A c \in Calls : \A w \in Workers : rpc[c].client = w => WaitsFor(w, c)
    /\ \A c, d \in Calls : \A w \in Workers : rpc[c].client = w /\ rpc[d].client = w => c = d

\* No two tokens for one pair of rule and news item.
OneToken ==
    /\ \A c, d \in Calls :
          rpc[c].step \in HoldingSteps /\ rpc[d].step \in HoldingSteps
             /\ SamePair(rpc[c].event, rpc[d].event) => c = d
    /\ \A w, v \in Workers :
          pc[w] \in HoldingPCs /\ pc[v] \in HoldingPCs /\ SamePair(event[w], event[v]) => w = v
    /\ \A c \in Calls, w \in Workers :
          ~(rpc[c].step \in HoldingSteps /\ pc[w] \in HoldingPCs /\ SamePair(rpc[c].event, event[w]))

\* The pair of the event is used up: the event has the row, or no event of the
\* pair can get one any more.
Claimed(e) == row[e] # "none" \/ Gone(e)

\* What the token of an event stands for.
TokenFor(e) ==
    /\ Claimed(e)
    /\ \A f \in Events : f # e /\ SamePair(e, f) => tg[f] = 0 /\ errs[f] = 0

CallInv ==
    \A c \in Calls :
        LET e == rpc[c].event IN
        rpc[c].step \in HoldingSteps =>
            /\ TokenFor(e)
            /\ row[e] \in {"pending", "none"}
            /\ rpc[c].step \in ReserveSteps => tg[e] = 0 /\ errs[e] = 0
            /\ rpc[c].step = "sent" => tg[e] > 0
            /\ rpc[c].step = "failed" => errs[e] = RetryAttempts

WorkerInv ==
    \A w \in Workers :
        LET e == event[w] IN
        /\ pc[w] \in {"reserve", "reserving"} => attempt[w] = 1
        /\ pc[w] \in HoldingPCs =>
            /\ TokenFor(e)
            /\ pc[w] # "dlt" => attempt[w] <= RetryAttempts /\ tg[e] <= attempt[w]
            /\ row[e] \in (IF pc[w] = "dlt" THEN {"failed", "none"} ELSE {"pending", "none"})
            /\ pc[w] = "send" => errs[e] = attempt[w] - 1 /\ tg[e] <= attempt[w] - 1
            /\ pc[w] = "backoff" => errs[e] = attempt[w] /\ attempt[w] < RetryAttempts
            /\ pc[w] = "sent" => tg[e] > 0
            /\ pc[w] \in {"failed", "dlt"} => errs[e] = RetryAttempts

\* An event that was ever sent has used up its pair.
UsedUp == \A e \in Events : tg[e] > 0 \/ errs[e] > 0 => Claimed(e)

DeliveryInv ==
    /\ OneToken
    /\ CallInv
    /\ WorkerInv
    /\ UsedUp
    /\ OneAlertPerPair
    /\ StatusTruthful
    /\ DeadLettersExhausted

IInv == TypeOK /\ ClientInv /\ DeliveryInv

-----------------------------------------------------------------------------
(* Types *)

\* A time without its fraction is a time.
LEMMA UnixType == ASSUME NEW t \in Int PROVE Unix(t) \in Int
BY DEF Unix

\* Free and running handlers are call records.
LEMMA CallTypes ==
    /\ FreeCall \in CallRecords
    /\ \A r \in CallRecords : [r EXCEPT !.client = NoWorker] \in CallRecords
BY DEF FreeCall, CallRecords

\* Orphaning the calls of a worker and answering a call keep the types.
LEMMA OrphanType ==
    ASSUME TypeOK, NEW w \in Workers
    PROVE  Orphaned(w) \in [Calls -> CallRecords]
BY CallTypes DEF TypeOK, Orphaned

\* Reply keeps the handlers and the program counters in their types.
LEMMA ReplyType ==
    ASSUME TypeOK, NEW c \in Calls, NEW q \in PCs, Reply(c, q)
    PROVE  rpc' \in [Calls -> CallRecords] /\ pc' \in [Workers -> PCs]
BY CallTypes DEF TypeOK, Reply

\* Step keeps the handlers in their type.
LEMMA StepType ==
    ASSUME TypeOK, NEW c \in Calls, NEW s \in ReserveSteps, Step(c, s)
    PROVE  rpc' \in [Calls -> CallRecords] /\ pc' \in [Workers -> PCs]
<1>1. rpc[c] \in CallRecords
  BY DEF TypeOK
<1>2. [rpc[c] EXCEPT !.step = s] \in CallRecords
  BY <1>1 DEF CallRecords
<1>3. rpc' = [rpc EXCEPT ![c] = [rpc[c] EXCEPT !.step = s]] /\ pc' = pc
  BY DEF Step
<1>. QED
  BY <1>2, <1>3 DEF TypeOK

\* Counting for an event keeps the type of the counter.
LEMMA CountType ==
    ASSUME NEW f \in [Events -> Nat], NEW e
    PROVE  [f EXCEPT ![e] = @ + 1] \in [Events -> Nat]
<1>1. CASE e \in Events
  BY <1>1
<1>2. CASE e \notin Events
  BY <1>2
<1>. QED
  BY <1>1, <1>2

\* A function changed at one point keeps its type.
LEMMA SetType ==
    ASSUME NEW S, NEW f \in [Events -> S], NEW e, NEW v \in S
    PROVE  [f EXCEPT ![e] = v] \in [Events -> S]
OBVIOUS

\* Mark keeps the status column in its type.
LEMMA MarkType ==
    ASSUME TypeOK, NEW e, NEW s \in Statuses, Mark(e, s)
    PROVE  row' \in [Events -> Statuses]
<1>1. CASE e \in Events
  BY <1>1 DEF TypeOK, Mark
<1>2. CASE e \notin Events
  BY <1>2 DEF TypeOK, Mark
<1>. QED
  BY <1>1, <1>2

\* The initial state is well typed.
LEMMA TypeInit == Init => TypeOK
BY CallTypes DEF Init, TypeOK, PCs, Statuses

\* Every step keeps the types.
LEMMA TypeNext == TypeOK /\ ClientInv /\ [Next]_vars => TypeOK'
<1> SUFFICES ASSUME TypeOK, ClientInv, [Next]_vars PROVE TypeOK'
  OBVIOUS
<1> USE DEF topics, tables, worker, chat, bounds, HandlerFrame, Fault
<1>1. CASE UNCHANGED vars
  BY <1>1 DEF vars, TypeOK
<1>2. ASSUME NEW w \in Workers, WorkerStep(w) PROVE TypeOK'
  <2>1. ASSUME NEW e \in Events, ReadMessage(w, e) PROVE TypeOK'
    BY <2>1 DEF ReadMessage, TypeOK, PCs
  <2>2. ASSUME NEW c \in Calls, CallReserve(w, c) PROVE TypeOK'
    BY <2>2 DEF CallReserve, StartCall, TypeOK, PCs, CallRecords, ReserveSteps
  <2>3. ASSUME NEW c \in Calls, CallFinalize(w, c) PROVE TypeOK'
    BY <2>3 DEF CallFinalize, StartCall, TypeOK, PCs, CallRecords, FinalizeSteps
  <2>4. CASE SendOk(w)
    <3>1. tg' \in [Events -> Nat]
      BY <2>4, CountType DEF SendOk, TypeOK
    <3>2. now \in Int /\ toldAt' = [toldAt EXCEPT ![event[w]] = now]
      BY <2>4 DEF SendOk, TypeOK
    <3>3. toldAt' \in [Events -> Int]
      BY <3>2, SetType DEF TypeOK
    <3>. QED
      BY <2>4, <3>1, <3>3 DEF SendOk, TypeOK, PCs
  <2>5. CASE SendError(w)
    <3>1. errs' \in [Events -> Nat]
      BY <2>5, CountType DEF SendError, AfterError, TypeOK
    <3>. QED
      BY <2>5, <3>1 DEF SendError, AfterError, TypeOK, PCs
  <2>6. CASE Backoff(w)
    BY <2>6 DEF Backoff, TypeOK, PCs
  <2>7. CASE PublishDLT(w)
    BY <2>7 DEF PublishDLT, TypeOK, PCs, ClientInv
  <2>. QED
    BY <1>2, <2>1, <2>2, <2>3, <2>4, <2>5, <2>6, <2>7 DEF WorkerStep
<1>3. ASSUME NEW c \in Calls, HandlerStep(c) PROVE TypeOK'
  <2>1. CASE Duplicate(c)
    BY <2>1, ReplyType DEF Duplicate, TypeOK, PCs
  <2>2. CASE InsertPending(c)
    <3>1. row' \in [Events -> Statuses]
      BY <2>2, SetType DEF InsertPending, TypeOK, Statuses
    <3>2. rpc' \in [Calls -> CallRecords] /\ pc' \in [Workers -> PCs]
      BY <2>2, StepType DEF InsertPending, ReserveSteps
    <3>. QED
      BY <2>2, <3>1, <3>2 DEF InsertPending, TypeOK
  <2>3. CASE InsertAgain(c)
    <3>1. [rpc[c] EXCEPT !.try = @ + 1] \in CallRecords
      BY DEF TypeOK, CallRecords
    <3>2. rpc' = [rpc EXCEPT ![c] = [rpc[c] EXCEPT !.try = @ + 1]]
      BY <2>3 DEF InsertAgain
    <3>. QED
      BY <2>3, <3>1, <3>2 DEF InsertAgain, TypeOK
  <2>4. CASE InsertRefused(c)
    BY <2>4, ReplyType DEF InsertRefused, TypeOK, PCs
  <2>5. CASE GetRuleCooldown(c)
    <3>1. rpc' \in [Calls -> CallRecords] /\ pc' \in [Workers -> PCs]
      BY <2>5, ReplyType, StepType DEF GetRuleCooldown, PCs, ReserveSteps
    <3>. QED
      BY <2>5, <3>1 DEF GetRuleCooldown, TypeOK
  <2>6. CASE CheckCooldown(c)
    <3>1. rpc' \in [Calls -> CallRecords] /\ pc' \in [Workers -> PCs]
      BY <2>6, ReplyType, StepType DEF CheckCooldown, PCs, ReserveSteps
    <3>. QED
      BY <2>6, <3>1 DEF CheckCooldown, TypeOK
  <2>7. CASE MarkDropped(c)
    <3>1. row' \in [Events -> Statuses]
      BY <2>7, MarkType DEF MarkDropped, Statuses
    <3>. QED
      BY <2>7, <3>1, ReplyType DEF MarkDropped, TypeOK, PCs
  <2>8. CASE MarkSent(c)
    <3>1. row' \in [Events -> Statuses]
      BY <2>8, MarkType DEF MarkSent, Statuses
    <3>2. Unix(rpc[c].at) \in Int
      BY UnixType DEF TypeOK, CallRecords
    <3>3. sentAt' \in [Events -> Int]
      <4>1. CASE rpc[c].event \in Events
        BY <2>8, <3>2, <4>1 DEF MarkSent, TypeOK
      <4>2. CASE rpc[c].event \notin Events
        BY <2>8, <4>2 DEF MarkSent, TypeOK
      <4>. QED
        BY <4>1, <4>2
    <3>. QED
      BY <2>8, <3>1, <3>3, ReplyType DEF MarkSent, TypeOK, PCs
  <2>9. CASE MarkFailed(c)
    <3>1. row' \in [Events -> Statuses]
      BY <2>9, MarkType DEF MarkFailed, Statuses
    <3>. QED
      BY <2>9, <3>1, ReplyType DEF MarkFailed, TypeOK, PCs
  <2>. QED
    BY <1>3, <2>1, <2>2, <2>3, <2>4, <2>5, <2>6, <2>7, <2>8, <2>9 DEF HandlerStep
<1>4. CASE FaultStep
  <2>1. ASSUME NEW w \in Workers, NEW e \in Events, CommitFails(w, e) PROVE TypeOK'
    BY <2>1 DEF CommitFails, TypeOK
  <2>2. ASSUME NEW w \in Workers, TokenError(w) PROVE TypeOK'
    BY <2>2 DEF TokenError, TypeOK, PCs
  <2>3. ASSUME NEW w \in Workers, Disconnect(w) PROVE TypeOK'
    BY <2>3, OrphanType DEF Disconnect, TypeOK, PCs
  <2>4. ASSUME NEW w \in Workers, Crash(w) PROVE TypeOK'
    BY <2>4, OrphanType DEF Crash, TypeOK, PCs
  <2>5. ASSUME NEW w \in Workers, SendTimeout(w) PROVE TypeOK'
    <3>1. tg' \in [Events -> Nat] /\ errs' \in [Events -> Nat]
      BY <2>5, CountType DEF SendTimeout, AfterError, TypeOK
    <3>2. now \in Int /\ toldAt' = [toldAt EXCEPT ![event[w]] = now]
      BY <2>5 DEF SendTimeout, TypeOK
    <3>3. toldAt' \in [Events -> Int]
      BY <3>2, SetType DEF TypeOK
    <3>. QED
      BY <2>5, <3>1, <3>3 DEF SendTimeout, AfterError, TypeOK, PCs
  <2>6. ASSUME NEW w \in Workers, PublishDLTFails(w) PROVE TypeOK'
    BY <2>6 DEF PublishDLTFails, TypeOK, PCs
  <2>7. ASSUME NEW c \in Calls, DbError(c) PROVE TypeOK'
    BY <2>7, ReplyType DEF DbError, TypeOK, PCs
  <2>8. ASSUME NEW c \in Calls, HandlerCancelled(c) PROVE TypeOK'
    BY <2>8, ReplyType DEF HandlerCancelled, TypeOK, PCs
  <2>. QED
    BY <1>4, <2>1, <2>2, <2>3, <2>4, <2>5, <2>6, <2>7, <2>8 DEF FaultStep
<1>5. CASE EnvironmentStep
  <2>1. ASSUME NEW e \in Events, Publish(e) PROVE TypeOK'
    BY <2>1 DEF Publish, TypeOK
  <2>2. ASSUME NEW n \in News, SaveNews(n) PROVE TypeOK'
    BY <2>2 DEF SaveNews, TypeOK
  <2>3. ASSUME NEW n \in News, DeleteNews(n) PROVE TypeOK'
    BY <2>3 DEF DeleteNews, TypeOK, Statuses
  <2>4. ASSUME NEW r \in Rules, DeleteRule(r) PROVE TypeOK'
    BY <2>4 DEF DeleteRule, TypeOK, Statuses
  <2>5. CASE Tick
    BY <2>5 DEF Tick, TypeOK
  <2>. QED
    BY <1>5, <2>1, <2>2, <2>3, <2>4, <2>5 DEF EnvironmentStep
<1>. QED
  BY <1>1, <1>2, <1>3, <1>4, <1>5 DEF Next

-----------------------------------------------------------------------------
(* Clients and their handlers *)

\* What an answer, a step and a disconnection do to handlers and workers.
LEMMA ReplyFacts ==
    ASSUME TypeOK, NEW c \in Calls, NEW q, Reply(c, q)
    PROVE  /\ \A d \in Calls : rpc'[d] = IF d = c THEN FreeCall ELSE rpc[d]
           /\ \A w \in Workers : pc'[w] = IF w = rpc[c].client THEN q ELSE pc[w]
BY DEF TypeOK, Reply

\* Step changes the step of one handler and nothing else.
LEMMA StepFacts ==
    ASSUME TypeOK, NEW c \in Calls, NEW s, Step(c, s)
    PROVE  /\ \A d \in Calls : d # c => rpc'[d] = rpc[d]
           /\ rpc'[c].step = s
           /\ rpc'[c].event = rpc[c].event /\ rpc'[c].client = rpc[c].client
           /\ pc' = pc
<1>1. rpc[c] \in CallRecords
  BY DEF TypeOK
<1>. QED
  BY <1>1 DEF TypeOK, Step, CallRecords

\* Orphaned takes the client away and leaves the handlers' work alone.
LEMMA OrphanFacts ==
    ASSUME TypeOK, NEW w \in Workers, rpc' = Orphaned(w)
    PROVE  \A c \in Calls : /\ rpc'[c].step = rpc[c].step
                            /\ rpc'[c].event = rpc[c].event
                            /\ rpc'[c].client = IF rpc[c].client = w THEN NoWorker ELSE rpc[c].client
<1>1. SUFFICES ASSUME NEW c \in Calls
               PROVE  /\ rpc'[c].step = rpc[c].step
                      /\ rpc'[c].event = rpc[c].event
                      /\ rpc'[c].client = IF rpc[c].client = w THEN NoWorker ELSE rpc[c].client
  OBVIOUS
<1>2. rpc[c] \in CallRecords
  BY DEF TypeOK
<1>3. rpc'[c] = IF rpc[c].client = w THEN [rpc[c] EXCEPT !.client = NoWorker] ELSE rpc[c]
  BY DEF Orphaned
<1>. QED
  BY <1>2, <1>3 DEF CallRecords

\* StartCall gives the worker's event to the new handler.
LEMMA StartFacts ==
    ASSUME TypeOK, NEW w \in Workers, NEW c \in Calls, NEW s, NEW q, StartCall(w, c, s, q)
    PROVE  /\ \A d \in Calls : d # c => rpc'[d] = rpc[d]
           /\ rpc'[c].step = s /\ rpc'[c].event = event[w] /\ rpc'[c].client = w
           /\ rpc[c].step = "free"
           /\ \A v \in Workers : pc'[v] = IF v = w THEN q ELSE pc[v]
           /\ UNCHANGED <<event, attempt, row, rule, news, tg, errs, dlt>>
BY DEF TypeOK, StartCall, tables, chat, topics

\* A free slot has neither a step nor a client.
LEMMA FreeFacts ==
    FreeCall.step = "free" /\ FreeCall.client = NoWorker
BY DEF FreeCall

\* An answer leaves the other clients and their handlers alone.
LEMMA ReplyClients ==
    ASSUME TypeOK, ClientInv, NEW c \in Calls, NEW q, Reply(c, q), UNCHANGED event,
           rpc[c].step # "free"
    PROVE  ClientInv'
<1>1. \A d \in Calls : rpc'[d] = IF d = c THEN FreeCall ELSE rpc[d]
  BY ReplyFacts
<1>2. \A w \in Workers : pc'[w] = IF w = rpc[c].client THEN q ELSE pc[w]
  BY ReplyFacts
<1>3. \A w \in Workers : rpc[c].client = w => event[w] \in Events
  BY DEF ClientInv, WaitsFor
<1>4. \A w \in Workers : FreeCall.client # w /\ FreeCall.step = "free"
  BY FreeFacts
<1>5. \A w \in Workers : pc'[w] # "read" => event'[w] \in Events
  BY <1>2, <1>3 DEF ClientInv
<1>6. \A d \in Calls : rpc'[d].step # "free" => rpc'[d].event \in Events
  BY <1>1, <1>4, FreeFacts DEF ClientInv
<1>7. \A d \in Calls : \A w \in Workers : rpc'[d].client = w => WaitsFor(w, d)'
  BY <1>1, <1>2, <1>4 DEF ClientInv, WaitsFor
<1>8. \A d, b \in Calls : \A w \in Workers : rpc'[d].client = w /\ rpc'[b].client = w => d = b
  BY <1>1, <1>4 DEF ClientInv
<1>. QED
  BY <1>5, <1>6, <1>7, <1>8 DEF ClientInv

\* A handler that goes on inside its procedure keeps its client waiting.
LEMMA StepClients ==
    ASSUME TypeOK, ClientInv, NEW c \in Calls, NEW s \in ReserveSteps, Step(c, s), UNCHANGED event,
           rpc[c].step \in ReserveSteps
    PROVE  ClientInv'
BY StepFacts DEF ClientInv, WaitsFor, TypeOK, CallRecords, ReserveSteps, FinalizeSteps

\* A worker that waits for no handler may go anywhere, given an event.
LEMMA MoveClients ==
    ASSUME TypeOK, ClientInv, NEW w \in Workers, UNCHANGED rpc,
           pc[w] \notin {"reserving", "finalizing"},
           event' \in [Workers -> Events \cup {NoEvent}],
           \A v \in Workers : v # w => pc'[v] = pc[v] /\ event'[v] = event[v],
           pc'[w] # "read" => event'[w] \in Events
    PROVE  ClientInv'
BY DEF ClientInv, WaitsFor, TypeOK, CallRecords

\* A worker that leaves its handler behind.
LEMMA OrphanClients ==
    ASSUME TypeOK, ClientInv, NEW w \in Workers, rpc' = Orphaned(w), UNCHANGED event,
           pc' = [pc EXCEPT ![w] = "read"]
    PROVE  ClientInv'
<1>1. \A c \in Calls : /\ rpc'[c].step = rpc[c].step
                       /\ rpc'[c].event = rpc[c].event
                       /\ rpc'[c].client = IF rpc[c].client = w THEN NoWorker ELSE rpc[c].client
  BY OrphanFacts
<1>2. \A v \in Workers : pc'[v] = IF v = w THEN "read" ELSE pc[v]
  BY DEF TypeOK
<1>3. \A c \in Calls : \A v \in Workers : rpc'[c].client = v => v # w /\ rpc[c].client = v
  BY <1>1
<1>4. \A c \in Calls : \A v \in Workers : rpc'[c].client = v => WaitsFor(v, c)'
  BY <1>1, <1>2, <1>3 DEF ClientInv, WaitsFor
<1>. QED
  BY <1>1, <1>2, <1>3, <1>4 DEF ClientInv

\* A started call has the one client that waits for it.
LEMMA StartClients ==
    ASSUME TypeOK, ClientInv, NEW w \in Workers, NEW c \in Calls, NEW s, NEW q,
           StartCall(w, c, s, q), pc[w] \notin {"read", "reserving", "finalizing"},
           \/ s = "insert" /\ q = "reserving"
           \/ s \in FinalizeSteps /\ q = "finalizing"
    PROVE  ClientInv'
<1>1. /\ \A d \in Calls : d # c => rpc'[d] = rpc[d]
      /\ rpc'[c].step = s /\ rpc'[c].event = event[w] /\ rpc'[c].client = w
      /\ \A v \in Workers : pc'[v] = IF v = w THEN q ELSE pc[v]
      /\ event' = event
  BY StartFacts
<1>2. event[w] \in Events /\ \A d \in Calls : rpc[d].client # w
  BY DEF ClientInv, WaitsFor
<1>3. \A d \in Calls : \A v \in Workers : rpc'[d].client = v => WaitsFor(v, d)'
  BY <1>1, <1>2 DEF ClientInv, WaitsFor, ReserveSteps
<1>. QED
  BY <1>1, <1>2, <1>3 DEF ClientInv

\* In the initial state nobody calls.
LEMMA ClientInit == Init => ClientInv
BY FreeFacts DEF Init, ClientInv

\* Every step keeps workers and handlers in agreement.
LEMMA ClientNext == TypeOK /\ ClientInv /\ [Next]_vars => ClientInv'
<1> SUFFICES ASSUME TypeOK, ClientInv, [Next]_vars PROVE ClientInv'
  OBVIOUS
<1> USE DEF topics, tables, worker, chat, bounds, HandlerFrame
<1>1. CASE UNCHANGED <<pc, event, rpc>>
  BY <1>1 DEF ClientInv, WaitsFor
<1>2. ASSUME NEW w \in Workers, WorkerStep(w) PROVE ClientInv'
  <2>1. ASSUME NEW e \in Events, ReadMessage(w, e) PROVE ClientInv'
    BY <2>1, MoveClients DEF ReadMessage, TypeOK
  <2>2. ASSUME NEW c \in Calls, CallReserve(w, c) PROVE ClientInv'
    BY <2>2, StartClients DEF CallReserve
  <2>3. ASSUME NEW c \in Calls, CallFinalize(w, c) PROVE ClientInv'
    BY <2>3, StartClients DEF CallFinalize, FinalizeSteps
  <2>4. CASE SendOk(w)
    <3>1. event[w] \in Events
      BY <2>4 DEF SendOk, ClientInv
    <3>. QED
      BY <2>4, <3>1, MoveClients DEF SendOk, TypeOK
  <2>5. CASE SendError(w)
    <3>1. event[w] \in Events
      BY <2>5 DEF SendError, ClientInv
    <3>. QED
      BY <2>5, <3>1, MoveClients DEF SendError, AfterError, TypeOK
  <2>6. CASE Backoff(w)
    <3>1. event[w] \in Events
      BY <2>6 DEF Backoff, ClientInv
    <3>. QED
      BY <2>6, <3>1, MoveClients DEF Backoff, TypeOK
  <2>7. CASE PublishDLT(w)
    BY <2>7, MoveClients DEF PublishDLT, TypeOK
  <2>. QED
    BY <1>2, <2>1, <2>2, <2>3, <2>4, <2>5, <2>6, <2>7 DEF WorkerStep
<1>3. ASSUME NEW c \in Calls, HandlerStep(c) PROVE ClientInv'
  <2>1. CASE Duplicate(c)
    BY <2>1, ReplyClients DEF Duplicate
  <2>2. CASE InsertPending(c)
    BY <2>2, StepClients DEF InsertPending, ReserveSteps
  <2>3. CASE InsertAgain(c)
    <3>1. rpc[c] \in CallRecords
      BY DEF TypeOK
    <3>2. \A d \in Calls : /\ rpc'[d].step = rpc[d].step
                           /\ rpc'[d].event = rpc[d].event
                           /\ rpc'[d].client = rpc[d].client
      BY <2>3, <3>1 DEF InsertAgain, TypeOK, CallRecords
    <3>. QED
      BY <2>3, <3>2 DEF InsertAgain, ClientInv, WaitsFor
  <2>4. CASE InsertRefused(c)
    BY <2>4, ReplyClients DEF InsertRefused
  <2>5. CASE GetRuleCooldown(c)
    BY <2>5, ReplyClients, StepClients DEF GetRuleCooldown, ReserveSteps
  <2>6. CASE CheckCooldown(c)
    BY <2>6, ReplyClients, StepClients DEF CheckCooldown, ReserveSteps
  <2>7. CASE MarkDropped(c)
    BY <2>7, ReplyClients DEF MarkDropped
  <2>8. CASE MarkSent(c)
    BY <2>8, ReplyClients DEF MarkSent
  <2>9. CASE MarkFailed(c)
    BY <2>9, ReplyClients DEF MarkFailed
  <2>. QED
    BY <1>3, <2>1, <2>2, <2>3, <2>4, <2>5, <2>6, <2>7, <2>8, <2>9 DEF HandlerStep
<1>4. CASE FaultStep
  <2>1. ASSUME NEW w \in Workers, NEW e \in Events, CommitFails(w, e) PROVE ClientInv'
    BY <2>1, <1>1 DEF CommitFails
  <2>2. ASSUME NEW w \in Workers, TokenError(w) PROVE ClientInv'
    BY <2>2, MoveClients DEF TokenError, TypeOK
  <2>3. ASSUME NEW w \in Workers, Disconnect(w) PROVE ClientInv'
    BY <2>3, OrphanClients DEF Disconnect
  <2>4. ASSUME NEW w \in Workers, Crash(w) PROVE ClientInv'
    BY <2>4, OrphanClients DEF Crash
  <2>5. ASSUME NEW w \in Workers, SendTimeout(w) PROVE ClientInv'
    <3>1. event[w] \in Events
      BY <2>5 DEF SendTimeout, ClientInv
    <3>. QED
      BY <2>5, <3>1, MoveClients DEF SendTimeout, AfterError, TypeOK
  <2>6. ASSUME NEW w \in Workers, PublishDLTFails(w) PROVE ClientInv'
    BY <2>6, MoveClients DEF PublishDLTFails, TypeOK
  <2>7. ASSUME NEW c \in Calls, DbError(c) PROVE ClientInv'
    BY <2>7, ReplyClients DEF DbError
  <2>8. ASSUME NEW c \in Calls, HandlerCancelled(c) PROVE ClientInv'
    BY <2>8, ReplyClients DEF HandlerCancelled
  <2>. QED
    BY <1>4, <2>1, <2>2, <2>3, <2>4, <2>5, <2>6, <2>7, <2>8 DEF FaultStep
<1>5. CASE EnvironmentStep
  BY <1>1, <1>5 DEF EnvironmentStep, Publish, SaveNews, DeleteNews, DeleteRule, Tick
<1>6. CASE UNCHANGED vars
  BY <1>1, <1>6 DEF vars
<1>. QED
  BY <1>2, <1>3, <1>4, <1>5, <1>6 DEF Next

\* Every reachable state of AlertDelivery is well typed.
THEOREM TypeCorrect == Spec => []TypeOK
<1>1. Init => TypeOK /\ ClientInv
  BY TypeInit, ClientInit
<1>2. TypeOK /\ ClientInv /\ [Next]_vars => (TypeOK /\ ClientInv)'
  BY TypeNext, ClientNext
<1>. QED
  BY <1>1, <1>2, PTL DEF Spec

-----------------------------------------------------------------------------
(* Tokens *)

\* A step that changes no row, no parent row and no history, and by which
\* tokens can only disappear, keeps the invariant.
LEMMA QuietKeeps ==
    ASSUME IInv, UNCHANGED <<row, rule, news, tg, errs, dlt>>,
           \A w \in Workers : pc'[w] \in HoldingPCs =>
               pc'[w] = pc[w] /\ event'[w] = event[w] /\ attempt'[w] = attempt[w],
           \A w \in Workers : pc'[w] \in {"reserve", "reserving"} => attempt'[w] = 1,
           \A c \in Calls : rpc'[c].step \in HoldingSteps =>
               rpc'[c].step = rpc[c].step /\ rpc'[c].event = rpc[c].event
    PROVE  DeliveryInv'
<1> USE DEF IInv, DeliveryInv
<1>1. \A e : Gone(e)' = Gone(e) /\ Claimed(e)' = Claimed(e) /\ TokenFor(e)' = TokenFor(e)
  BY DEF Gone, Claimed, TokenFor
<1>2. OneToken'
  BY DEF OneToken
<1>3. CallInv'
  BY <1>1 DEF CallInv
<1>4. WorkerInv'
  BY <1>1 DEF WorkerInv
<1>5. UsedUp'
  BY <1>1 DEF UsedUp
<1>6. OneAlertPerPair' /\ StatusTruthful' /\ DeadLettersExhausted'
  BY <1>1 DEF OneAlertPerPair, StatusTruthful, DeadLettersExhausted
<1>. QED
  BY <1>2, <1>3, <1>4, <1>5, <1>6

\* A row that disappears with its parent keeps the invariant.
LEMMA CascadeKeeps ==
    ASSUME IInv, UNCHANGED <<tg, errs, dlt, event, attempt, pc, rpc>>,
           \A e \in Events : /\ row'[e] = row[e] \/ (row'[e] = "none" /\ Gone(e)')
                             /\ Gone(e) => Gone(e)'
    PROVE  DeliveryInv'
<1> USE DEF IInv, DeliveryInv
<1>1. \A e \in Events : Claimed(e) => Claimed(e)'
  BY DEF Claimed
<1>2. \A e \in Events : TokenFor(e) => TokenFor(e)'
  BY <1>1 DEF TokenFor
<1>3. \A c \in Calls : rpc[c].step \in HoldingSteps => rpc[c].event \in Events
  BY DEF ClientInv, HoldingSteps
<1>4. \A w \in Workers : pc[w] \in HoldingPCs => event[w] \in Events
  BY DEF ClientInv, HoldingPCs
<1>5. OneToken'
  BY DEF OneToken
<1>6. CallInv'
  BY <1>2, <1>3 DEF CallInv
<1>7. WorkerInv'
  BY <1>2, <1>4 DEF WorkerInv
<1>8. UsedUp'
  BY <1>1 DEF UsedUp
<1>9. OneAlertPerPair' /\ StatusTruthful' /\ DeadLettersExhausted'
  BY DEF OneAlertPerPair, StatusTruthful, DeadLettersExhausted, TypeOK
<1>. QED
  BY <1>5, <1>6, <1>7, <1>8, <1>9

\* A send of the worker with the token: the message reached the chat (a = 1) or
\* not, the worker saw an error (b = 1) or not.
LEMMA SendKeeps ==
    ASSUME IInv, NEW w \in Workers, pc[w] = "send",
           UNCHANGED <<row, rule, news, dlt, event, attempt, rpc>>,
           NEW a \in {0, 1}, NEW b \in {0, 1}, NEW q,
           \A e \in Events : /\ tg'[e] = IF e = event[w] THEN tg[e] + a ELSE tg[e]
                             /\ errs'[e] = IF e = event[w] THEN errs[e] + b ELSE errs[e],
           \A v \in Workers : pc'[v] = IF v = w THEN q ELSE pc[v],
           \/ q = "sent" /\ a = 1 /\ b = 0
           \/ b = 1 /\ q = IF attempt[w] < RetryAttempts THEN "backoff" ELSE "failed"
    PROVE  DeliveryInv'
<1> USE DEF IInv, DeliveryInv
<1> DEFINE e0 == event[w]
<1>1. /\ e0 \in Events
      /\ TokenFor(e0) /\ row[e0] \in {"pending", "none"}
      /\ errs[e0] = attempt[w] - 1 /\ tg[e0] <= attempt[w] - 1 /\ attempt[w] <= RetryAttempts
  BY DEF ClientInv, WorkerInv, HoldingPCs
<1>2. attempt[w] \in Nat /\ tg \in [Events -> Nat] /\ errs \in [Events -> Nat] /\ RetryAttempts \in Nat
  BY DEF TypeOK
<1>3. q \in HoldingPCs /\ q # "dlt"
  BY DEF HoldingPCs
<1>4. \A e \in Events : Claimed(e)' = Claimed(e) /\ Gone(e)' = Gone(e)
  BY DEF Claimed, Gone
<1>5. \A c \in Calls : rpc[c].step \in HoldingSteps =>
        rpc[c].event \in Events /\ ~SamePair(rpc[c].event, e0)
  BY DEF OneToken, ClientInv, HoldingSteps, HoldingPCs
<1>6. \A v \in Workers : v # w /\ pc[v] \in HoldingPCs =>
        event[v] \in Events /\ ~SamePair(event[v], e0)
  BY DEF OneToken, ClientInv, HoldingPCs
<1>7. \A e \in Events : TokenFor(e) /\ (e = e0 \/ ~SamePair(e, e0)) => TokenFor(e)'
  BY <1>1, <1>4 DEF TokenFor, SamePair
<1>8. OneToken'
  BY <1>3 DEF OneToken, HoldingPCs
<1>9. CallInv'
  <2>1. ASSUME NEW c \in Calls, rpc[c].step \in HoldingSteps
        PROVE  /\ TokenFor(rpc[c].event)'
               /\ tg'[rpc[c].event] = tg[rpc[c].event] /\ errs'[rpc[c].event] = errs[rpc[c].event]
    BY <1>5, <1>7, <2>1 DEF CallInv, SamePair
  <2>. QED
    BY <2>1 DEF CallInv
<1>10. WorkerInv'
  <2>1. ASSUME NEW v \in Workers, v # w, pc[v] \in HoldingPCs
        PROVE  /\ TokenFor(event[v])'
               /\ tg'[event[v]] = tg[event[v]] /\ errs'[event[v]] = errs[event[v]]
    BY <1>6, <1>7, <2>1 DEF WorkerInv, SamePair
  <2>2. TokenFor(e0)'
    BY <1>1, <1>7
  <2>3. /\ tg'[e0] <= attempt[w]
        /\ q = "backoff" => errs'[e0] = attempt[w] /\ attempt[w] < RetryAttempts
        /\ q = "sent" => tg'[e0] > 0
        /\ q = "failed" => errs'[e0] = RetryAttempts
    BY <1>1, <1>2
  <2>. QED
    BY <1>1, <1>3, <2>1, <2>2, <2>3 DEF WorkerInv
<1>11. UsedUp'
  BY <1>1, <1>2, <1>4 DEF UsedUp, TokenFor
<1>12. OneAlertPerPair'
  <2>1. \A e \in Events : tg'[e] <= RetryAttempts
    BY <1>1, <1>2 DEF OneAlertPerPair
  <2>2. \A f \in Events : f # e0 /\ SamePair(e0, f) => tg[f] = 0
    BY <1>1 DEF TokenFor
  <2>. QED
    BY <1>1, <1>2, <2>1, <2>2 DEF OneAlertPerPair, SamePair
<1>13. StatusTruthful'
  BY <1>1, <1>2 DEF StatusTruthful
<1>14. DeadLettersExhausted'
  <2>1. e0 \notin dlt \/ errs[e0] = RetryAttempts
    BY DEF DeadLettersExhausted
  <2>. QED
    BY <1>1, <1>2, <1>4, <2>1 DEF DeadLettersExhausted, TypeOK
<1>. QED
  BY <1>8, <1>9, <1>10, <1>11, <1>12, <1>13, <1>14

\* Taking the next attempt, and the publication to the dead letter topic.
LEMMA BackoffKeeps ==
    ASSUME IInv, NEW w \in Workers, Backoff(w)
    PROVE  DeliveryInv'
<1> USE DEF IInv, DeliveryInv
<1>1. /\ UNCHANGED <<row, rule, news, tg, errs, dlt, event, rpc>>
      /\ \A v \in Workers : pc'[v] = IF v = w THEN "send" ELSE pc[v]
      /\ \A v \in Workers : attempt'[v] = IF v = w THEN attempt[v] + 1 ELSE attempt[v]
      /\ pc[w] = "backoff"
  BY DEF Backoff, TypeOK, tables, chat, topics
<1>2. \A e : Gone(e)' = Gone(e) /\ Claimed(e)' = Claimed(e) /\ TokenFor(e)' = TokenFor(e)
  BY <1>1 DEF Gone, Claimed, TokenFor
<1>3. OneToken'
  BY <1>1 DEF OneToken, HoldingPCs
<1>4. CallInv'
  BY <1>1, <1>2 DEF CallInv
<1>5. WorkerInv'
  <2>1. /\ attempt'[w] <= RetryAttempts
        /\ errs[event[w]] = attempt'[w] - 1
        /\ tg[event[w]] <= attempt'[w] - 1 /\ tg[event[w]] <= attempt'[w]
        /\ TokenFor(event[w]) /\ row[event[w]] \in {"pending", "none"}
    <3>1. /\ event[w] \in Events /\ tg[event[w]] \in Nat
          /\ errs[event[w]] = attempt[w] /\ attempt[w] < RetryAttempts
          /\ tg[event[w]] <= attempt[w]
          /\ TokenFor(event[w]) /\ row[event[w]] \in {"pending", "none"}
      BY <1>1 DEF WorkerInv, HoldingPCs, ClientInv, TypeOK
    <3>2. attempt[w] \in Nat /\ attempt'[w] = attempt[w] + 1 /\ RetryAttempts \in Nat
      BY <1>1 DEF TypeOK
    <3>. QED
      BY <3>1, <3>2
  <2>. QED
    BY <1>1, <1>2, <2>1 DEF WorkerInv
<1>6. UsedUp'
  BY <1>1, <1>2 DEF UsedUp
<1>7. OneAlertPerPair' /\ StatusTruthful' /\ DeadLettersExhausted'
  BY <1>1, <1>2 DEF OneAlertPerPair, StatusTruthful, DeadLettersExhausted
<1>. QED
  BY <1>3, <1>4, <1>5, <1>6, <1>7

\* Publishing to the dead letter topic keeps the delivery invariant.
LEMMA PublishDLTKeeps ==
    ASSUME IInv, NEW w \in Workers, PublishDLT(w)
    PROVE  DeliveryInv'
<1> USE DEF IInv, DeliveryInv
<1>1. /\ UNCHANGED <<row, rule, news, tg, errs, event, attempt, rpc>>
      /\ dlt' = dlt \cup {event[w]}
      /\ \A v \in Workers : pc'[v] = IF v = w THEN "read" ELSE pc[v]
      /\ pc[w] = "dlt"
  BY DEF PublishDLT, TypeOK, tables, chat
<1>2. \A e : Gone(e)' = Gone(e) /\ Claimed(e)' = Claimed(e) /\ TokenFor(e)' = TokenFor(e)
  BY <1>1 DEF Gone, Claimed, TokenFor
<1>3. errs[event[w]] = RetryAttempts /\ (row[event[w]] = "failed" \/ Gone(event[w]))
  BY <1>1 DEF WorkerInv, HoldingPCs, TokenFor, Claimed
<1>4. OneToken' /\ CallInv'
  BY <1>1, <1>2 DEF OneToken, CallInv, HoldingPCs
<1>5. WorkerInv'
  BY <1>1, <1>2 DEF WorkerInv, HoldingPCs
<1>6. UsedUp' /\ OneAlertPerPair' /\ StatusTruthful'
  BY <1>1, <1>2 DEF UsedUp, OneAlertPerPair, StatusTruthful
<1>7. DeadLettersExhausted'
  BY <1>1, <1>2, <1>3 DEF DeadLettersExhausted
<1>. QED
  BY <1>4, <1>5, <1>6, <1>7

\* The worker hands its token to the handler that records the outcome.
LEMMA FinalizeKeeps ==
    ASSUME IInv, NEW w \in Workers, NEW c \in Calls, CallFinalize(w, c)
    PROVE  DeliveryInv'
<1> USE DEF IInv, DeliveryInv
<1>1. /\ pc[w] \in FinalizeSteps
      /\ \A d \in Calls : d # c => rpc'[d] = rpc[d]
      /\ rpc'[c].step = pc[w] /\ rpc'[c].event = event[w]
      /\ rpc[c].step = "free"
      /\ \A v \in Workers : pc'[v] = IF v = w THEN "finalizing" ELSE pc[v]
      /\ UNCHANGED <<event, attempt, row, rule, news, tg, errs, dlt>>
  BY StartFacts DEF CallFinalize
<1>2. \A e : Gone(e)' = Gone(e) /\ Claimed(e)' = Claimed(e) /\ TokenFor(e)' = TokenFor(e)
  BY <1>1 DEF Gone, Claimed, TokenFor
<1>3. pc[w] \in HoldingPCs /\ pc[w] # "dlt" /\ pc[w] \notin ReserveSteps
  BY <1>1 DEF HoldingPCs, FinalizeSteps, ReserveSteps
<1>4. OneToken'
  <2>1. \A d \in Calls : d # c /\ rpc[d].step \in HoldingSteps =>
          ~SamePair(rpc[d].event, event[w]) /\ ~SamePair(event[w], rpc[d].event)
    BY <1>3 DEF OneToken, SamePair
  <2>2. \A v \in Workers : v # w /\ pc[v] \in HoldingPCs => ~SamePair(event[w], event[v])
    BY <1>3 DEF OneToken
  <2>. QED
    BY <1>1, <2>1, <2>2 DEF OneToken, HoldingPCs
<1>5. CallInv'
  <2>1. /\ TokenFor(event[w]) /\ row[event[w]] \in {"pending", "none"}
        /\ pc[w] = "sent" => tg[event[w]] > 0
        /\ pc[w] = "failed" => errs[event[w]] = RetryAttempts
    BY <1>3 DEF WorkerInv
  <2>. QED
    BY <1>1, <1>2, <1>3, <2>1 DEF CallInv
<1>6. WorkerInv'
  BY <1>1, <1>2 DEF WorkerInv, HoldingPCs
<1>7. UsedUp' /\ OneAlertPerPair' /\ StatusTruthful' /\ DeadLettersExhausted'
  BY <1>1, <1>2 DEF UsedUp, OneAlertPerPair, StatusTruthful, DeadLettersExhausted
<1>. QED
  BY <1>4, <1>5, <1>6, <1>7

\* A handler goes on to its next step with the token.
LEMMA StepKeeps ==
    ASSUME IInv, NEW c \in Calls, NEW s \in {"lastsent", "drop"}, Step(c, s),
           rpc[c].step \in {"cooldown", "lastsent"},
           UNCHANGED <<event, attempt, row, rule, news, tg, errs, dlt>>
    PROVE  DeliveryInv'
<1> USE DEF IInv, DeliveryInv
<1>1. /\ \A d \in Calls : d # c => rpc'[d] = rpc[d]
      /\ rpc'[c].step = s /\ rpc'[c].event = rpc[c].event
      /\ pc' = pc
  BY StepFacts
<1>2. \A e : Gone(e)' = Gone(e) /\ Claimed(e)' = Claimed(e) /\ TokenFor(e)' = TokenFor(e)
  BY DEF Gone, Claimed, TokenFor
<1>3. OneToken'
  BY <1>1 DEF OneToken, HoldingSteps
<1>4. CallInv'
  <2>1. /\ TokenFor(rpc[c].event) /\ row[rpc[c].event] \in {"pending", "none"}
        /\ tg[rpc[c].event] = 0 /\ errs[rpc[c].event] = 0
    BY DEF CallInv, HoldingSteps, ReserveSteps
  <2>. QED
    BY <1>1, <1>2, <2>1 DEF CallInv
<1>5. WorkerInv'
  BY <1>1, <1>2 DEF WorkerInv
<1>6. UsedUp' /\ OneAlertPerPair' /\ StatusTruthful' /\ DeadLettersExhausted'
  BY <1>2 DEF UsedUp, OneAlertPerPair, StatusTruthful, DeadLettersExhausted
<1>. QED
  BY <1>3, <1>4, <1>5, <1>6

\* The insert of the pending row creates the token: before it, the pair was
\* neither used up nor sent.
LEMMA InsertKeeps ==
    ASSUME IInv, NEW c \in Calls, InsertPending(c)
    PROVE  DeliveryInv'
<1> USE DEF IInv, DeliveryInv
<1> DEFINE e0 == rpc[c].event
<1>1. /\ rpc[c].step = "insert" /\ Step(c, "cooldown")
      /\ UNCHANGED <<event, attempt, rule, news, tg, errs, dlt>>
      /\ e0 \in Events
  BY DEF InsertPending, HandlerFrame, chat, topics, ClientInv
<1>2. /\ \A d \in Calls : d # c => rpc'[d] = rpc[d]
      /\ rpc'[c].step = "cooldown" /\ rpc'[c].event = e0
      /\ pc' = pc
  BY <1>1, StepFacts
<1>3. \A e \in Events : row'[e] = IF e = e0 THEN "pending" ELSE row[e]
  BY DEF InsertPending, TypeOK
<1>4. \A f \in Events : SamePair(f, e0) => row[f] = "none" /\ ~Gone(f) /\ ~Claimed(f)
  BY DEF InsertPending, NoDuplicate, SamePair, Gone, Claimed, TypeOK
<1>5. \A f \in Events : SamePair(f, e0) => tg[f] = 0 /\ errs[f] = 0
  BY <1>4 DEF UsedUp, TypeOK
<1>6. \A f \in Events : Gone(f)' = Gone(f)
  BY <1>1 DEF Gone
<1>7. \A f \in Events : Claimed(f) => Claimed(f)'
  BY <1>3, <1>6 DEF Claimed
<1>8. \A f \in Events : f = e0 => TokenFor(f)'
  BY <1>1, <1>3, <1>5 DEF TokenFor, Claimed, SamePair
<1>9. \A f \in Events : TokenFor(f) => TokenFor(f)' /\ ~SamePair(f, e0) /\ f # e0
  BY <1>1, <1>4, <1>7 DEF TokenFor, SamePair
<1>10. \A d \in Calls : rpc[d].step \in HoldingSteps =>
         rpc[d].event \in Events /\ TokenFor(rpc[d].event)
  BY DEF CallInv, ClientInv, HoldingSteps
<1>11. \A w \in Workers : pc[w] \in HoldingPCs => event[w] \in Events /\ TokenFor(event[w])
  BY DEF WorkerInv, ClientInv, HoldingPCs
<1>12. OneToken'
  <2>1. \A d \in Calls : d # c /\ rpc[d].step \in HoldingSteps =>
          ~SamePair(rpc[d].event, e0) /\ ~SamePair(e0, rpc[d].event)
    BY <1>9, <1>10 DEF SamePair
  <2>2. \A w \in Workers : pc[w] \in HoldingPCs => ~SamePair(e0, event[w])
    BY <1>9, <1>11 DEF SamePair
  <2>. QED
    BY <1>1, <1>2, <2>1, <2>2 DEF OneToken
<1>13. CallInv'
  <2>1. ASSUME NEW d \in Calls, d # c, rpc[d].step \in HoldingSteps
        PROVE  TokenFor(rpc[d].event)' /\ row'[rpc[d].event] = row[rpc[d].event]
    BY <1>2, <1>3, <1>9, <1>10, <2>1
  <2>2. tg[e0] = 0 /\ errs[e0] = 0
    BY <1>1, <1>5 DEF SamePair
  <2>. QED
    BY <1>1, <1>2, <1>3, <1>8, <2>1, <2>2 DEF CallInv
<1>14. WorkerInv'
  <2>1. ASSUME NEW w \in Workers, pc[w] \in HoldingPCs
        PROVE  TokenFor(event[w])' /\ row'[event[w]] = row[event[w]]
    BY <1>1, <1>3, <1>9, <1>11, <2>1
  <2>. QED
    BY <1>1, <1>2, <2>1 DEF WorkerInv
<1>15. UsedUp'
  BY <1>1, <1>7 DEF UsedUp
<1>16. OneAlertPerPair'
  BY <1>1 DEF OneAlertPerPair
<1>17. StatusTruthful'
  BY <1>1, <1>3 DEF StatusTruthful
<1>18. DeadLettersExhausted'
  BY <1>1, <1>3, <1>4, <1>6 DEF DeadLettersExhausted, SamePair, TypeOK
<1>. QED
  BY <1>12, <1>13, <1>14, <1>15, <1>16, <1>17, <1>18

\* The handler with the token answers: it marks the row (or, with "ready",
\* leaves it) and the token goes to the waiting worker or disappears.
LEMMA AnswerKeeps ==
    ASSUME IInv, NEW c \in Calls, NEW q, NEW s, Reply(c, q),
           UNCHANGED <<event, attempt, rule, news, tg, errs, dlt>>,
           \A e \in Events : row'[e] = IF e = rpc[c].event /\ row[e] # "none" THEN s ELSE row[e],
           \/ rpc[c].step = "lastsent" /\ s = "pending" /\ q = "send"
           \/ rpc[c].step = "drop" /\ s = "dropped" /\ q = "read"
           \/ rpc[c].step = "sent" /\ s = "sent" /\ q = "read"
           \/ rpc[c].step = "failed" /\ s = "failed" /\ q = "dlt"
    PROVE  DeliveryInv'
<1> USE DEF IInv, DeliveryInv
<1> DEFINE e0 == rpc[c].event
<1>1. \A d \in Calls : d # c => rpc'[d] = rpc[d]
  BY ReplyFacts
<1>2. rpc'[c].step = "free"
  BY ReplyFacts, FreeFacts
<1>3. \A w \in Workers : pc'[w] = IF w = rpc[c].client THEN q ELSE pc[w]
  BY ReplyFacts
<1>4. /\ rpc[c].step \in HoldingSteps
      /\ e0 \in Events /\ TokenFor(e0) /\ row[e0] \in {"pending", "none"}
      /\ rpc[c].step \in ReserveSteps => tg[e0] = 0 /\ errs[e0] = 0
      /\ rpc[c].step = "sent" => tg[e0] > 0
      /\ rpc[c].step = "failed" => errs[e0] = RetryAttempts
  BY DEF CallInv, ClientInv, HoldingSteps
<1>5. \A w \in Workers : w = rpc[c].client =>
        /\ event[w] = e0
        /\ rpc[c].step \in ReserveSteps => pc[w] = "reserving"
        /\ rpc[c].step \in FinalizeSteps => pc[w] = "finalizing"
  BY DEF ClientInv, WaitsFor, ReserveSteps, FinalizeSteps
<1>6. \A f \in Events : Gone(f)' = Gone(f)
  BY DEF Gone
<1>7. s # "none"
  OBVIOUS
<1>8. \A f \in Events : Claimed(f)' = Claimed(f)
  BY <1>6, <1>7 DEF Claimed
<1>9. \A f \in Events : TokenFor(f)' = TokenFor(f)
  BY <1>8 DEF TokenFor
<1>10. \A d \in Calls : d # c /\ rpc[d].step \in HoldingSteps =>
         rpc[d].event \in Events /\ ~SamePair(e0, rpc[d].event) /\ rpc[d].event # e0
  BY <1>4 DEF OneToken, ClientInv, HoldingSteps, SamePair
<1>11. \A w \in Workers : pc[w] \in HoldingPCs =>
         event[w] \in Events /\ ~SamePair(e0, event[w]) /\ event[w] # e0
  BY <1>4 DEF OneToken, ClientInv, HoldingPCs, SamePair
<1>12. OneToken'
  <2>1. \A d, b \in Calls :
          rpc'[d].step \in HoldingSteps /\ rpc'[b].step \in HoldingSteps
            /\ SamePair(rpc'[d].event, rpc'[b].event) => d = b
    BY <1>1, <1>2 DEF OneToken, HoldingSteps
  <2>2. \A w, v \in Workers :
          pc'[w] \in HoldingPCs /\ pc'[v] \in HoldingPCs /\ SamePair(event[w], event[v]) => w = v
    BY <1>3, <1>5, <1>11 DEF OneToken, SamePair
  <2>3. \A d \in Calls, w \in Workers :
          ~(rpc'[d].step \in HoldingSteps /\ pc'[w] \in HoldingPCs /\ SamePair(rpc'[d].event, event[w]))
    BY <1>1, <1>2, <1>3, <1>5, <1>10 DEF OneToken, SamePair, HoldingSteps
  <2>. QED
    BY <2>1, <2>2, <2>3 DEF OneToken, SamePair
<1>13. CallInv'
  <2>1. ASSUME NEW d \in Calls, d # c, rpc[d].step \in HoldingSteps
        PROVE  TokenFor(rpc[d].event)' /\ row'[rpc[d].event] = row[rpc[d].event]
    BY <1>1, <1>9, <1>10, <2>1 DEF CallInv
  <2>. QED
    BY <1>1, <1>2, <2>1 DEF CallInv, HoldingSteps
<1>14. WorkerInv'
  <2>1. ASSUME NEW w \in Workers, pc[w] \in HoldingPCs
        PROVE  TokenFor(event[w])' /\ row'[event[w]] = row[event[w]]
    BY <1>9, <1>11, <2>1 DEF WorkerInv
  <2>2. ASSUME NEW w \in Workers, w = rpc[c].client, q = "send"
        PROVE  /\ TokenFor(event[w])' /\ attempt[w] = 1
               /\ row'[event[w]] \in {"pending", "none"} /\ tg[event[w]] = 0 /\ errs[event[w]] = 0
    BY <1>4, <1>5, <1>9, <2>2 DEF WorkerInv, ReserveSteps
  <2>3. ASSUME NEW w \in Workers, w = rpc[c].client, q = "dlt"
        PROVE  /\ TokenFor(event[w])'
               /\ row'[event[w]] \in {"failed", "none"} /\ errs[event[w]] = RetryAttempts
    BY <1>4, <1>5, <1>9, <2>3
  <2>. QED
    BY <1>3, <2>1, <2>2, <2>3 DEF WorkerInv, HoldingPCs
<1>15. UsedUp'
  BY <1>8 DEF UsedUp
<1>16. OneAlertPerPair'
  BY DEF OneAlertPerPair
<1>17. StatusTruthful'
  BY <1>4 DEF StatusTruthful, ReserveSteps
<1>18. DeadLettersExhausted'
  BY <1>4, <1>6 DEF DeadLettersExhausted, TypeOK
<1>. QED
  BY <1>12, <1>13, <1>14, <1>15, <1>16, <1>17, <1>18

-----------------------------------------------------------------------------
(* The invariant, step by step *)

\* In the initial state there is no token.
LEMMA DeliveryInit == Init => DeliveryInv
BY FreeFacts DEF Init, DeliveryInv, OneToken, CallInv, WorkerInv, UsedUp, OneAlertPerPair,
                 StatusTruthful, DeadLettersExhausted, HoldingSteps, HoldingPCs

\* Every step of a worker keeps the delivery invariant.
LEMMA WorkerKeeps ==
    ASSUME IInv, NEW w \in Workers, WorkerStep(w)
    PROVE  DeliveryInv'
<1> USE DEF topics, tables, worker, chat, bounds
<1>0. TypeOK /\ WorkerInv
  BY DEF IInv, DeliveryInv
<1>1. ASSUME NEW e \in Events, ReadMessage(w, e) PROVE DeliveryInv'
  BY <1>0, <1>1, QuietKeeps DEF ReadMessage, TypeOK, WorkerInv, HoldingPCs
<1>2. ASSUME NEW c \in Calls, CallReserve(w, c) PROVE DeliveryInv'
  BY <1>0, <1>2, StartFacts, QuietKeeps DEF CallReserve, WorkerInv, HoldingPCs, HoldingSteps
<1>3. ASSUME NEW c \in Calls, CallFinalize(w, c) PROVE DeliveryInv'
  BY <1>3, FinalizeKeeps
<1>4. CASE SendOk(w)
  <2>1. /\ \A e \in Events : /\ tg'[e] = IF e = event[w] THEN tg[e] + 1 ELSE tg[e]
                             /\ errs'[e] = IF e = event[w] THEN errs[e] + 0 ELSE errs[e]
        /\ \A v \in Workers : pc'[v] = IF v = w THEN "sent" ELSE pc[v]
    BY <1>0, <1>4 DEF SendOk, TypeOK
  <2>. QED
    BY <1>4, <2>1, SendKeeps DEF SendOk
<1>5. CASE SendError(w)
  <2> DEFINE q == IF attempt[w] < RetryAttempts THEN "backoff" ELSE "failed"
  <2>1. /\ \A e \in Events : /\ tg'[e] = IF e = event[w] THEN tg[e] + 0 ELSE tg[e]
                             /\ errs'[e] = IF e = event[w] THEN errs[e] + 1 ELSE errs[e]
        /\ \A v \in Workers : pc'[v] = IF v = w THEN q ELSE pc[v]
    BY <1>0, <1>5 DEF SendError, AfterError, TypeOK
  <2>. QED
    BY <1>5, <2>1, SendKeeps DEF SendError
<1>6. CASE Backoff(w)
  BY <1>6, BackoffKeeps
<1>7. CASE PublishDLT(w)
  BY <1>7, PublishDLTKeeps
<1>. QED
  BY <1>1, <1>2, <1>3, <1>4, <1>5, <1>6, <1>7 DEF WorkerStep

\* Every step of a handler keeps the delivery invariant.
LEMMA HandlerKeeps ==
    ASSUME IInv, NEW c \in Calls, HandlerStep(c)
    PROVE  DeliveryInv'
<1> USE DEF topics, tables, worker, chat, bounds, HandlerFrame
<1>0. TypeOK /\ ClientInv /\ WorkerInv
  BY DEF IInv, DeliveryInv
<1>1. ASSUME Reply(c, "read"), UNCHANGED <<row, rule, news, tg, errs, dlt, event, attempt>>
      PROVE  DeliveryInv'
  BY <1>0, <1>1, ReplyFacts, FreeFacts, QuietKeeps DEF WorkerInv, HoldingSteps, HoldingPCs
<1>2. ASSUME NEW s \in Statuses, Mark(rpc[c].event, s)
      PROVE  \A e \in Events : row'[e] = IF e = rpc[c].event /\ row[e] # "none" THEN s ELSE row[e]
  BY <1>0, <1>2 DEF Mark, TypeOK
<1>3. CASE Duplicate(c)
  BY <1>1, <1>3 DEF Duplicate
<1>4. CASE InsertPending(c)
  BY <1>4, InsertKeeps
<1>5. CASE InsertAgain(c)
  <2>1. rpc[c] \in CallRecords
    BY <1>0 DEF TypeOK
  <2>2. \A d \in Calls : rpc'[d].step = rpc[d].step /\ rpc'[d].event = rpc[d].event
    BY <1>0, <1>5, <2>1 DEF InsertAgain, TypeOK, CallRecords
  <2>. QED
    BY <1>0, <1>5, <2>2, QuietKeeps DEF InsertAgain, WorkerInv
<1>6. CASE InsertRefused(c)
  BY <1>1, <1>6 DEF InsertRefused
<1>7. CASE GetRuleCooldown(c)
  <2>1. CASE Reply(c, "read")
    BY <1>1, <1>7, <2>1 DEF GetRuleCooldown
  <2>2. CASE Step(c, "lastsent")
    BY <1>7, <2>2, StepKeeps DEF GetRuleCooldown
  <2>. QED
    BY <1>7, <2>1, <2>2 DEF GetRuleCooldown
<1>8. CASE CheckCooldown(c)
  <2>1. CASE Reply(c, "send")
    <3>1. rpc[c].event \in Events /\ row[rpc[c].event] \in {"pending", "none"}
      BY <1>0, <1>8 DEF CheckCooldown, ClientInv, IInv, DeliveryInv, CallInv, HoldingSteps
    <3>2. \A e \in Events : row'[e] = IF e = rpc[c].event /\ row[e] # "none" THEN "pending" ELSE row[e]
      BY <1>8, <3>1 DEF CheckCooldown
    <3>. QED
      BY <1>8, <2>1, <3>2, AnswerKeeps DEF CheckCooldown
  <2>2. CASE Step(c, "drop")
    BY <1>8, <2>2, StepKeeps DEF CheckCooldown
  <2>. QED
    BY <1>8, <2>1, <2>2 DEF CheckCooldown
<1>9. CASE MarkDropped(c)
  BY <1>2, <1>9, AnswerKeeps DEF MarkDropped, Statuses
<1>10. CASE MarkSent(c)
  BY <1>2, <1>10, AnswerKeeps DEF MarkSent, Statuses
<1>11. CASE MarkFailed(c)
  BY <1>2, <1>11, AnswerKeeps DEF MarkFailed, Statuses
<1>. QED
  BY <1>3, <1>4, <1>5, <1>6, <1>7, <1>8, <1>9, <1>10, <1>11 DEF HandlerStep

\* Every fault keeps the delivery invariant.
LEMMA FaultKeeps ==
    ASSUME IInv, FaultStep
    PROVE  DeliveryInv'
<1> USE DEF topics, tables, worker, chat, bounds, HandlerFrame, Fault
<1>0. TypeOK /\ WorkerInv
  BY DEF IInv, DeliveryInv
<1>1. ASSUME NEW w \in Workers, pc' = [pc EXCEPT ![w] = "read"],
             UNCHANGED <<row, rule, news, tg, errs, dlt, event, attempt>>,
             \A c \in Calls : rpc'[c].step = rpc[c].step /\ rpc'[c].event = rpc[c].event
      PROVE  DeliveryInv'
  BY <1>0, <1>1, QuietKeeps DEF WorkerInv, HoldingPCs, TypeOK
<1>2. ASSUME NEW c \in Calls, Reply(c, "read"),
             UNCHANGED <<row, rule, news, tg, errs, dlt, event, attempt>>
      PROVE  DeliveryInv'
  BY <1>0, <1>2, ReplyFacts, FreeFacts, QuietKeeps DEF WorkerInv, HoldingSteps, HoldingPCs
<1>3. ASSUME NEW w \in Workers, NEW e \in Events, CommitFails(w, e) PROVE DeliveryInv'
  BY <1>0, <1>3, QuietKeeps DEF CommitFails, WorkerInv
<1>4. ASSUME NEW w \in Workers, TokenError(w) PROVE DeliveryInv'
  BY <1>1, <1>4 DEF TokenError
<1>5. ASSUME NEW w \in Workers, Disconnect(w) PROVE DeliveryInv'
  BY <1>0, <1>1, <1>5, OrphanFacts DEF Disconnect
<1>6. ASSUME NEW w \in Workers, Crash(w) PROVE DeliveryInv'
  BY <1>0, <1>1, <1>6, OrphanFacts DEF Crash
<1>7. ASSUME NEW w \in Workers, SendTimeout(w) PROVE DeliveryInv'
  <2> DEFINE q == IF attempt[w] < RetryAttempts THEN "backoff" ELSE "failed"
  <2>1. /\ \A e \in Events : /\ tg'[e] = IF e = event[w] THEN tg[e] + 1 ELSE tg[e]
                             /\ errs'[e] = IF e = event[w] THEN errs[e] + 1 ELSE errs[e]
        /\ \A v \in Workers : pc'[v] = IF v = w THEN q ELSE pc[v]
    BY <1>0, <1>7 DEF SendTimeout, AfterError, TypeOK
  <2>. QED
    BY <1>7, <2>1, SendKeeps DEF SendTimeout
<1>8. ASSUME NEW w \in Workers, PublishDLTFails(w) PROVE DeliveryInv'
  BY <1>1, <1>8 DEF PublishDLTFails
<1>9. ASSUME NEW c \in Calls, DbError(c) PROVE DeliveryInv'
  BY <1>2, <1>9 DEF DbError
<1>10. ASSUME NEW c \in Calls, HandlerCancelled(c) PROVE DeliveryInv'
  BY <1>2, <1>10 DEF HandlerCancelled
<1>. QED
  BY <1>3, <1>4, <1>5, <1>6, <1>7, <1>8, <1>9, <1>10 DEF FaultStep

\* Publishing, saving, deleting and the clock keep the delivery invariant.
LEMMA EnvironmentKeeps ==
    ASSUME IInv, EnvironmentStep
    PROVE  DeliveryInv'
<1> USE DEF topics, tables, worker, chat, bounds
<1>0. TypeOK /\ WorkerInv
  BY DEF IInv, DeliveryInv
<1>1. ASSUME NEW e \in Events, Publish(e) PROVE DeliveryInv'
  BY <1>0, <1>1, QuietKeeps DEF Publish, WorkerInv
<1>2. ASSUME NEW n \in News, SaveNews(n) PROVE DeliveryInv'
  <2>1. \A e \in Events : Gone(e)' = Gone(e)
    BY <1>0, <1>2 DEF SaveNews, Gone, TypeOK
  <2>. QED
    BY <1>2, <2>1, CascadeKeeps DEF SaveNews
<1>3. ASSUME NEW n \in News, DeleteNews(n) PROVE DeliveryInv'
  <2>1. \A e \in Events : /\ row'[e] = row[e] \/ (row'[e] = "none" /\ Gone(e)')
                          /\ Gone(e) => Gone(e)'
    BY <1>0, <1>3 DEF DeleteNews, Gone, TypeOK
  <2>. QED
    BY <1>3, <2>1, CascadeKeeps DEF DeleteNews
<1>4. ASSUME NEW r \in Rules, DeleteRule(r) PROVE DeliveryInv'
  <2>1. \A e \in Events : /\ row'[e] = row[e] \/ (row'[e] = "none" /\ Gone(e)')
                          /\ Gone(e) => Gone(e)'
    BY <1>0, <1>4 DEF DeleteRule, Gone, TypeOK
  <2>. QED
    BY <1>4, <2>1, CascadeKeeps DEF DeleteRule
<1>5. CASE Tick
  BY <1>0, <1>5, QuietKeeps DEF Tick, WorkerInv
<1>. QED
  BY <1>1, <1>2, <1>3, <1>4, <1>5 DEF EnvironmentStep

\* The invariant holds at the start and every step keeps it.
LEMMA Inductive == (Init => IInv) /\ (IInv /\ [Next]_vars => IInv')
<1>1. Init => IInv
  BY TypeInit, ClientInit, DeliveryInit DEF IInv
<1>2. ASSUME IInv, [Next]_vars PROVE IInv'
  <2>1. TypeOK' /\ ClientInv'
    BY <1>2, TypeNext, ClientNext DEF IInv
  <2>2. ASSUME UNCHANGED vars PROVE DeliveryInv'
    BY <1>2, <2>2, QuietKeeps DEF vars, IInv, DeliveryInv, WorkerInv
  <2>3. ASSUME Next PROVE DeliveryInv'
    BY <1>2, <2>3, WorkerKeeps, HandlerKeeps, FaultKeeps, EnvironmentKeeps DEF Next
  <2>4. DeliveryInv'
    BY <1>2, <2>2, <2>3
  <2>. QED
    BY <2>1, <2>4 DEF IInv
<1>. QED
  BY <1>1, <1>2

\* The chat gets messages about a pair of rule and news item from one event
\* only, and at most RetryAttempts of them.
THEOREM OneAlert == Spec => []OneAlertPerPair
<1>1. IInv => OneAlertPerPair
  BY DEF IInv, DeliveryInv
<1>. QED
  BY <1>1, Inductive, PTL DEF Spec

\* The status column is true to what happened in Telegram.
THEOREM Truthful == Spec => []StatusTruthful
<1>1. IInv => StatusTruthful
  BY DEF IInv, DeliveryInv
<1>. QED
  BY <1>1, Inductive, PTL DEF Spec

\* Only exhausted and marked events are in the dead letter topic.
THEOREM DeadLetters == Spec => []DeadLettersExhausted
<1>1. IInv => DeadLettersExhausted
  BY DEF IInv, DeliveryInv
<1>. QED
  BY <1>1, Inductive, PTL DEF Spec

\* Once "sent", "failed" or "dropped", a row keeps its status until a cascade
\* removes it.
TerminalIsFinal ==
    [][\A e \in Events : row[e] \in Terminal => row'[e] \in {row[e], "none"}]_vars

\* A final status stays, although no UPDATE looks at the old one: the handlers
\* that could overwrite it do not have the token.
LEMMA FinalStep ==
    ASSUME IInv, [Next]_vars, NEW e \in Events, row[e] \in Terminal
    PROVE  row'[e] \in {row[e], "none"}
<1> USE DEF topics, tables, worker, chat, bounds, HandlerFrame, Fault
<1>0. TypeOK /\ ClientInv /\ CallInv
  BY DEF IInv, DeliveryInv
<1>1. CASE UNCHANGED row
  BY <1>1
<1>2. ASSUME NEW c \in Calls, NEW s, Mark(rpc[c].event, s), rpc[c].step \in HoldingSteps
      PROVE  row'[e] = row[e]
  <2>1. rpc[c].event # e
    BY <1>0, <1>2 DEF CallInv, Terminal
  <2>. QED
    BY <1>0, <1>2, <2>1 DEF Mark, TypeOK
<1>3. ASSUME NEW w \in Workers, WorkerStep(w) PROVE UNCHANGED row
  BY <1>3 DEF WorkerStep, ReadMessage, CallReserve, CallFinalize, StartCall, SendOk, SendError,
              Backoff, PublishDLT
<1>4. ASSUME NEW c \in Calls, HandlerStep(c) PROVE row'[e] = row[e]
  <2>1. CASE InsertPending(c)
    <3>1. rpc[c].event # e
      BY <2>1 DEF InsertPending, NoDuplicate, SamePair, Terminal
    <3>. QED
      BY <1>0, <2>1, <3>1 DEF InsertPending, TypeOK
  <2>2. CASE MarkDropped(c)
    BY <1>2, <2>2 DEF MarkDropped, HoldingSteps
  <2>3. CASE MarkSent(c)
    BY <1>2, <2>3 DEF MarkSent, HoldingSteps
  <2>4. CASE MarkFailed(c)
    BY <1>2, <2>4 DEF MarkFailed, HoldingSteps
  <2>. QED
    BY <1>4, <2>1, <2>2, <2>3, <2>4
       DEF HandlerStep, Duplicate, InsertAgain, InsertRefused, GetRuleCooldown, CheckCooldown
<1>5. CASE FaultStep
  BY <1>1, <1>5 DEF FaultStep, CommitFails, TokenError, Disconnect, Crash, SendTimeout,
                    PublishDLTFails, DbError, HandlerCancelled
<1>6. CASE EnvironmentStep
  BY <1>6 DEF EnvironmentStep, Publish, SaveNews, DeleteNews, DeleteRule, Tick
<1>. QED
  BY <1>1, <1>3, <1>4, <1>5, <1>6 DEF Next, vars

\* Late and orphaned handlers never change a final status.
THEOREM Final == Spec => TerminalIsFinal
<1>1. IInv /\ [Next]_vars => [\A e \in Events : row[e] \in Terminal => row'[e] \in {row[e], "none"}]_vars
  BY FinalStep
<1>. QED
  BY <1>1, Inductive, PTL DEF Spec, TerminalIsFinal

-----------------------------------------------------------------------------
(* The cooldown of a rule *)

\* No two workers handle events of one rule at a time.  The producer keys the
\* events by rule and hashes the key to a partition, and a partition has one
\* reader of the consumer group.
OneWorkerPerRule ==
    \A v, w \in Workers :
        pc[v] # "read" /\ pc[w] # "read" /\ RuleOf[event[v]] = RuleOf[event[w]] => v = w

\* The worker that told the chat about f, on its way to record it.
Telling(w, f) ==
    /\ event[w] = f
    /\ \/ pc[w] = "sent" /\ at[w] = toldAt[f]
       \/ /\ pc[w] = "finalizing"
          /\ \E c \in Calls : rpc[c].client = w /\ rpc[c].step = "sent" /\ rpc[c].at = toldAt[f]

\* The row has the time of the message, without its fraction.
Recorded(f) == row[f] = "sent" /\ sentAt[f] = Unix(toldAt[f])

\* What the chat was told and its row is not gone is recorded, or is about to be.
Told == \A f \in Events : tg[f] > 0 /\ ~Gone(f) => Recorded(f) \/ \E w \in Workers : Telling(w, f)

\* The cooldown after f is over, but for the second that Unix may cut off.
Over(f) == now - toldAt[f] > (Cooldown[RuleOf[f]] - 1) * TicksPerSecond

\* A worker that may send has nothing of its rule in its cooldown.
Allowed ==
    \A w \in Workers : pc[w] \in {"send", "backoff"} =>
        \A f \in Events :
            f # event[w] /\ RuleOf[f] = RuleOf[event[w]] /\ tg[f] > 0 /\ ~Gone(f) => Over(f)

\* Nobody has given up waiting.
Attended == \A c \in Calls : rpc[c].step # "free" => rpc[c].client \in Workers

CooldownInv == faults + crashes = 0 => Told /\ Allowed /\ Attended

\* The comparison of CheckCooldown, which sees a time without its fraction.
LEMMA CutOff ==
    ASSUME NEW t \in Int, NEW u \in Int, NEW n \in Nat, ~(t - Unix(u) < n * TicksPerSecond)
    PROVE  t - u > (n - 1) * TicksPerSecond
<1> DEFINE rest == u % TicksPerSecond
           product == n * TicksPerSecond
<1>1. rest \in Int /\ 0 <= rest /\ rest < TicksPerSecond
  OBVIOUS
<1>2. product \in Int /\ (n - 1) * TicksPerSecond = product - TicksPerSecond
  OBVIOUS
<1>3. Unix(u) = u - rest /\ ~(t - Unix(u) < product)
  BY DEF Unix
<1>4. t - u > product - TicksPerSecond
  <2> HIDE DEF rest, product
  <2> QED
    BY <1>1, <1>2, <1>3
<1> QED
  BY <1>2, <1>4

\* A parent that is gone stays gone.
LEMMA GoneForGood == ASSUME TypeOK, [Next]_vars, NEW e \in Events, Gone(e) PROVE Gone(e)'
<1> USE DEF topics, tables, worker, chat, bounds, HandlerFrame, Gone
<1>1. CASE UNCHANGED <<rule, news>>
  BY <1>1
<1>2. ASSUME NEW n \in News, SaveNews(n) \/ DeleteNews(n) PROVE Gone(e)'
  BY <1>2 DEF SaveNews, DeleteNews, TypeOK
<1>3. ASSUME NEW r \in Rules, DeleteRule(r) PROVE Gone(e)'
  BY <1>3 DEF DeleteRule, TypeOK
<1>4. ASSUME NEW w \in Workers, WorkerStep(w) PROVE UNCHANGED <<rule, news>>
  BY <1>4 DEF WorkerStep, ReadMessage, CallReserve, CallFinalize, StartCall, SendOk, SendError,
              Backoff, PublishDLT
<1>5. ASSUME NEW c \in Calls, HandlerStep(c) PROVE UNCHANGED <<rule, news>>
  BY <1>5 DEF HandlerStep, Duplicate, InsertPending, InsertAgain, InsertRefused, GetRuleCooldown,
              CheckCooldown, MarkDropped, MarkSent, MarkFailed
<1>6. CASE FaultStep
  BY <1>1, <1>6 DEF FaultStep, CommitFails, TokenError, Disconnect, Crash, SendTimeout,
                    PublishDLTFails, DbError, HandlerCancelled
<1>7. CASE EnvironmentStep
  BY <1>1, <1>2, <1>3, <1>7 DEF EnvironmentStep, Publish, Tick
<1> QED
  BY <1>1, <1>4, <1>5, <1>6, <1>7 DEF Next, vars

\* While nothing fails, only the steps of workers, handlers and the environment happen.
LEMMA NothingFails ==
    ASSUME TypeOK, CooldownInv, [Next]_vars, (faults + crashes = 0)'
    PROVE  /\ faults + crashes = 0
           /\ \/ \E w \in Workers : WorkerStep(w)
              \/ \E c \in Calls : HandlerStep(c)
              \/ EnvironmentStep
              \/ UNCHANGED vars
<1> USE DEF topics, tables, worker, chat, bounds, HandlerFrame, Fault
<1>1. faults \in Nat /\ crashes \in Nat
  BY DEF TypeOK
<1>2. ASSUME NEW w \in Workers, WorkerStep(w) PROVE UNCHANGED <<faults, crashes>>
  BY <1>2 DEF WorkerStep, ReadMessage, CallReserve, CallFinalize, StartCall, SendOk, SendError,
              Backoff, PublishDLT
<1>3. ASSUME NEW c \in Calls, HandlerStep(c) PROVE UNCHANGED <<faults, crashes>>
  BY <1>3 DEF HandlerStep, Duplicate, InsertPending, InsertAgain, InsertRefused, GetRuleCooldown,
              CheckCooldown, MarkDropped, MarkSent, MarkFailed
<1>4. EnvironmentStep => UNCHANGED <<faults, crashes>>
  BY DEF EnvironmentStep, Publish, SaveNews, DeleteNews, DeleteRule, Tick
<1>5. ASSUME NEW w \in Workers, NEW e \in Events,
             CommitFails(w, e) \/ TokenError(w) \/ Disconnect(w) \/ Crash(w) \/ SendTimeout(w)
                \/ PublishDLTFails(w)
      PROVE  FALSE
  BY <1>1, <1>5 DEF CommitFails, TokenError, Disconnect, Crash, SendTimeout, PublishDLTFails
<1>6. ASSUME NEW w \in Workers,
             TokenError(w) \/ Disconnect(w) \/ Crash(w) \/ SendTimeout(w) \/ PublishDLTFails(w)
      PROVE  FALSE
  BY <1>1, <1>6 DEF TokenError, Disconnect, Crash, SendTimeout, PublishDLTFails
<1>7. ASSUME NEW c \in Calls, DbError(c) \/ HandlerCancelled(c) PROVE FALSE
  <2>1. CASE DbError(c)
    BY <1>1, <2>1 DEF DbError
  <2>2. CASE HandlerCancelled(c)
    BY <2>2 DEF HandlerCancelled, CooldownInv, Attended
  <2> QED
    BY <1>7, <2>1, <2>2
<1>8. ~FaultStep
  BY <1>5, <1>6, <1>7 DEF FaultStep
<1> QED
  BY <1>2, <1>3, <1>4, <1>8 DEF Next, vars

\* What the steps of a worker leave of the cooldown.
LEMMA CooldownWorker ==
    ASSUME IInv, OneWorkerPerRule, Told, Allowed, Attended, NEW w \in Workers, WorkerStep(w)
    PROVE  Told' /\ Allowed' /\ Attended'
<1> USE DEF topics, tables, worker, chat, bounds
<1>0. TypeOK /\ ClientInv
  BY DEF IInv
<1>1. ASSUME NEW e \in Events, ReadMessage(w, e) PROVE Told' /\ Allowed' /\ Attended'
  <2>1. /\ \A v \in Workers : v # w => pc'[v] = pc[v] /\ event'[v] = event[v]
        /\ pc[w] = "read" /\ pc'[w] = "reserve"
        /\ UNCHANGED <<rpc, rule, news, row, sentAt, at, tg, toldAt, now>>
    BY <1>0, <1>1 DEF ReadMessage, TypeOK
  <2> QED
    BY <2>1 DEF Told, Allowed, Attended, Recorded, Telling, Gone, Over
<1>2. ASSUME NEW c \in Calls, CallReserve(w, c) PROVE Told' /\ Allowed' /\ Attended'
  <2>1. /\ \A d \in Calls : d # c => rpc'[d] = rpc[d]
        /\ rpc[c].step = "free" /\ rpc'[c].client = w
        /\ \A v \in Workers : v # w => pc'[v] = pc[v]
        /\ pc[w] = "reserve" /\ pc'[w] = "reserving"
        /\ UNCHANGED <<event, rule, news, row, sentAt, at, tg, toldAt, now>>
    BY <1>0, <1>2 DEF CallReserve, StartCall, TypeOK
  <2> QED
    BY <2>1 DEF Told, Allowed, Attended, Recorded, Telling, Gone, Over
<1>3. ASSUME NEW c \in Calls, CallFinalize(w, c) PROVE Told' /\ Allowed' /\ Attended'
  <2>1. /\ \A d \in Calls : d # c => rpc'[d] = rpc[d]
        /\ rpc[c].step = "free" /\ rpc'[c].client = w /\ rpc'[c].step = pc[w] /\ rpc'[c].at = at[w]
        /\ \A v \in Workers : v # w => pc'[v] = pc[v]
        /\ pc[w] \in {"sent", "failed"} /\ pc'[w] = "finalizing"
        /\ UNCHANGED <<event, rule, news, row, sentAt, at, tg, toldAt, now>>
    BY <1>0, <1>3 DEF CallFinalize, StartCall, TypeOK, FinalizeSteps
  <2>2. ASSUME NEW f \in Events, NEW v \in Workers, Telling(v, f) PROVE Telling(v, f)'
    BY <2>1, <2>2 DEF Telling
  <2> QED
    BY <2>1, <2>2 DEF Told, Allowed, Attended, Recorded, Gone, Over
<1>4. CASE SendOk(w)
  <2>1. /\ event[w] \in Events /\ pc[w] = "send" /\ pc'[w] = "sent" /\ at'[w] = now
        /\ \A v \in Workers : v # w => pc'[v] = pc[v] /\ at'[v] = at[v]
        /\ toldAt'[event[w]] = now
        /\ \A f \in Events : f # event[w] => tg'[f] = tg[f] /\ toldAt'[f] = toldAt[f]
        /\ UNCHANGED <<event, rpc, rule, news, row, sentAt, now>>
    BY <1>0, <1>4 DEF SendOk, TypeOK, ClientInv
  <2>2. Telling(w, event[w])'
    BY <2>1 DEF Telling
  <2>3. ASSUME NEW f \in Events, f # event[w], NEW v \in Workers, Telling(v, f) PROVE Telling(v, f)'
    BY <2>1, <2>3 DEF Telling
  <2>4. Told'
    BY <2>1, <2>2, <2>3 DEF Told, Recorded, Gone
  <2>5. ASSUME NEW v \in Workers, pc'[v] \in {"send", "backoff"}, NEW f \in Events, f # event[v],
               RuleOf[f] = RuleOf[event[v]], tg'[f] > 0, ~Gone(f)'
        PROVE  Over(f)'
    <3>1. v # w /\ f # event[w]
      BY <2>1, <2>5 DEF OneWorkerPerRule
    <3> QED
      BY <2>1, <2>5, <3>1 DEF Allowed, Over, Gone
  <2> QED
    BY <2>1, <2>4, <2>5 DEF Allowed, Attended
<1>5. CASE SendError(w)
  <2>1. /\ \A v \in Workers : v # w => pc'[v] = pc[v]
        /\ pc[w] = "send" /\ pc'[w] \in {"backoff", "failed"}
        /\ UNCHANGED <<event, at, rpc, rule, news, row, sentAt, tg, toldAt, now>>
    BY <1>0, <1>5 DEF SendError, AfterError, TypeOK
  <2> QED
    BY <2>1 DEF Told, Allowed, Attended, Recorded, Telling, Gone, Over
<1>6. CASE Backoff(w)
  <2>1. /\ \A v \in Workers : v # w => pc'[v] = pc[v]
        /\ pc[w] = "backoff" /\ pc'[w] = "send"
        /\ UNCHANGED <<event, at, rpc, rule, news, row, sentAt, tg, toldAt, now>>
    BY <1>0, <1>6 DEF Backoff, TypeOK
  <2> QED
    BY <2>1 DEF Told, Allowed, Attended, Recorded, Telling, Gone, Over
<1>7. CASE PublishDLT(w)
  <2>1. /\ \A v \in Workers : v # w => pc'[v] = pc[v]
        /\ pc[w] = "dlt" /\ pc'[w] = "read"
        /\ UNCHANGED <<event, at, rpc, rule, news, row, sentAt, tg, toldAt, now>>
    BY <1>0, <1>7 DEF PublishDLT, TypeOK
  <2> QED
    BY <2>1 DEF Told, Allowed, Attended, Recorded, Telling, Gone, Over
<1> QED
  BY <1>1, <1>2, <1>3, <1>4, <1>5, <1>6, <1>7 DEF WorkerStep

\* An answer other than that of MarkSent, and a step of a handler, leave what was
\* told where it is.
LEMMA ToldAnswered ==
    ASSUME IInv, Told, Attended, NEW c \in Calls, NEW q, Reply(c, q), rpc[c].step \notin {"free", "sent"},
           UNCHANGED <<event, at, rule, news, sentAt, tg, toldAt, now>>,
           \A f \in Events : row[f] = "sent" => row'[f] = "sent"
    PROVE  Told' /\ Attended'
<1>0. TypeOK /\ ClientInv
  BY DEF IInv
<1>1. /\ \A d \in Calls : rpc'[d] = IF d = c THEN FreeCall ELSE rpc[d]
      /\ \A w \in Workers : pc'[w] = IF w = rpc[c].client THEN q ELSE pc[w]
  BY <1>0, ReplyFacts
<1>2. ASSUME NEW f \in Events, NEW w \in Workers, Telling(w, f) PROVE Telling(w, f)'
  <2>1. w # rpc[c].client
    BY <1>0, <1>2 DEF Telling, ClientInv, WaitsFor, FinalizeSteps
  <2> QED
    BY <1>1, <1>2, <2>1 DEF Telling
<1> QED
  BY <1>1, <1>2, FreeFacts DEF Told, Attended, Recorded, Gone

\* A handler that goes on to another step of ReserveAlertDelivery changes nothing.
LEMMA ToldStepped ==
    ASSUME IInv, Told, Allowed, Attended, NEW c \in Calls, rpc[c].step \notin {"free", "sent"},
           rpc'[c].client = rpc[c].client, \A d \in Calls : d # c => rpc'[d] = rpc[d],
           UNCHANGED <<pc, event, at, rule, news, sentAt, tg, toldAt, now>>,
           \A f \in Events : row[f] = "sent" => row'[f] = "sent"
    PROVE  Told' /\ Allowed' /\ Attended'
<1>1. ASSUME NEW f \in Events, NEW w \in Workers, Telling(w, f) PROVE Telling(w, f)'
  BY <1>1 DEF Telling
<1> QED
  BY <1>1 DEF Told, Allowed, Attended, Recorded, Gone, Over

\* Who is not told to send is as allowed as before.
LEMMA AllowedAnswered ==
    ASSUME IInv, Allowed, NEW c \in Calls, NEW q, Reply(c, q), q \notin {"send", "backoff"},
           UNCHANGED <<event, rule, news, tg, toldAt, now>>
    PROVE  Allowed'
<1>1. \A w \in Workers : pc'[w] = IF w = rpc[c].client THEN q ELSE pc[w]
  BY ReplyFacts DEF IInv
<1> QED
  BY <1>1 DEF Allowed, Gone, Over

\* The check lets a delivery through only when every message of the rule is
\* recorded, and its cooldown is over.
LEMMA CheckAllows ==
    ASSUME IInv, OneWorkerPerRule, Told, Allowed, Attended, NEW c \in Calls, CheckCooldown(c)
    PROVE  Told' /\ Allowed' /\ Attended'
<1> USE DEF HandlerFrame, bounds, chat
<1>0. TypeOK /\ ClientInv
  BY DEF IInv
<1>1. rpc[c].step = "lastsent" /\ UNCHANGED <<event, at, rule, news, row, sentAt, tg, toldAt, now>>
  BY DEF CheckCooldown
<1>2. CASE InCooldown(RuleOf[rpc[c].event])
  <2>1. Step(c, "drop")
    BY <1>2 DEF CheckCooldown
  <2> QED
    BY <1>0, <1>1, <2>1, StepFacts, ToldStepped
<1>3. CASE ~InCooldown(RuleOf[rpc[c].event])
  <2>1. Reply(c, "send")
    BY <1>3 DEF CheckCooldown
  <2>2. \A w \in Workers : pc'[w] = IF w = rpc[c].client THEN "send" ELSE pc[w]
    BY <1>0, <2>1, ReplyFacts
  <2>3. ASSUME NEW w \in Workers, w = rpc[c].client, NEW f \in Events, f # event[w],
               RuleOf[f] = RuleOf[event[w]], tg[f] > 0, ~Gone(f)
        PROVE  Over(f)
    <3>1. event[w] = rpc[c].event /\ pc[w] = "reserving"
      BY <1>0, <1>1, <2>3 DEF ClientInv, WaitsFor, FinalizeSteps
    <3>2. \A v \in Workers : ~Telling(v, f)
      BY <2>3, <3>1 DEF OneWorkerPerRule, Telling
    <3>3. Recorded(f)
      BY <2>3, <3>2 DEF Told
    <3>4. ~(now - Unix(toldAt[f]) < Cooldown[RuleOf[f]] * TicksPerSecond)
      BY <1>3, <2>3, <3>1, <3>3 DEF InCooldown, Recorded
    <3>5. now \in Int /\ toldAt[f] \in Int /\ Cooldown[RuleOf[f]] \in Nat
      BY <1>0 DEF TypeOK
    <3> QED
      BY <3>4, <3>5, CutOff DEF Over
  <2>4. Allowed'
    BY <1>1, <2>2, <2>3 DEF Allowed, Over, Gone
  <2> QED
    BY <1>1, <2>1, <2>4, ToldAnswered
<1> QED
  BY <1>2, <1>3

\* The time of the message goes into the row, if there is one.
LEMMA MarkRecords ==
    ASSUME IInv, Told, Allowed, Attended, NEW c \in Calls, MarkSent(c)
    PROVE  Told' /\ Allowed' /\ Attended'
<1> USE DEF HandlerFrame, bounds, chat
<1> DEFINE e == rpc[c].event
<1>0. TypeOK /\ ClientInv /\ CallInv
  BY DEF IInv, DeliveryInv
<1>1. /\ rpc[c].step = "sent" /\ e \in Events /\ Claimed(e)
      /\ row[e] \in {"pending", "none"}
      /\ UNCHANGED <<event, at, rule, news, tg, toldAt, now>>
  BY <1>0 DEF MarkSent, ClientInv, CallInv, HoldingSteps, TokenFor
<1>2. /\ \A d \in Calls : rpc'[d] = IF d = c THEN FreeCall ELSE rpc[d]
      /\ \A w \in Workers : pc'[w] = IF w = rpc[c].client THEN "read" ELSE pc[w]
  BY <1>0, ReplyFacts DEF MarkSent
<1>3. /\ \A f \in Events : f # e => row'[f] = row[f] /\ sentAt'[f] = sentAt[f]
      /\ row[e] # "none" => row'[e] = "sent" /\ sentAt'[e] = Unix(rpc[c].at)
  BY <1>0, <1>1 DEF MarkSent, Mark, TypeOK
<1>4. ASSUME NEW f \in Events, tg'[f] > 0, ~Gone(f)'
      PROVE  Recorded(f)' \/ \E w \in Workers : Telling(w, f)'
  <2>1. tg[f] > 0 /\ ~Gone(f)
    BY <1>1, <1>4 DEF Gone
  <2>2. CASE Recorded(f)
    <3>1. f # e
      BY <1>1, <2>2 DEF Recorded
    <3> QED
      BY <1>1, <1>3, <2>2, <3>1 DEF Recorded
  <2>3. ASSUME NEW w \in Workers, Telling(w, f), w # rpc[c].client PROVE Telling(w, f)'
    BY <1>0, <1>1, <1>2, <2>3 DEF Telling
  <2>4. ASSUME NEW w \in Workers, Telling(w, f), w = rpc[c].client PROVE Recorded(f)'
    <3>1. event[w] = e /\ pc[w] = "finalizing"
      BY <1>0, <1>1, <2>4 DEF ClientInv, WaitsFor, ReserveSteps
    <3>2. f = e /\ rpc[c].at = toldAt[f]
      BY <1>0, <2>4, <3>1 DEF Telling, ClientInv
    <3>3. row[e] # "none"
      BY <1>1, <2>1, <3>2 DEF Claimed
    <3> QED
      BY <1>1, <1>3, <3>2, <3>3 DEF Recorded, Unix
  <2> QED
    BY <2>1, <2>2, <2>3, <2>4 DEF Told
<1>5. Allowed'
  BY <1>1, AllowedAnswered DEF MarkSent
<1>6. Attended'
  BY <1>2, FreeFacts DEF Attended
<1> QED
  BY <1>4, <1>5, <1>6 DEF Told

\* What the steps of a handler leave of the cooldown.
LEMMA CooldownHandler ==
    ASSUME IInv, OneWorkerPerRule, Told, Allowed, Attended, NEW c \in Calls, HandlerStep(c)
    PROVE  Told' /\ Allowed' /\ Attended'
<1> USE DEF HandlerFrame, bounds, chat
<1>0. TypeOK /\ ClientInv /\ CallInv /\ UsedUp
  BY DEF IInv, DeliveryInv
<1>1. ASSUME rpc[c].step \in {"insert", "cooldown", "drop", "failed"}, NEW q, Reply(c, q), q \in {"read", "dlt"},
             UNCHANGED <<event, at, rule, news, sentAt, tg, toldAt, now>>,
             \A f \in Events : row[f] = "sent" => row'[f] = "sent"
      PROVE  Told' /\ Allowed' /\ Attended'
  BY <1>1, ToldAnswered, AllowedAnswered
<1>2. ASSUME NEW s, rpc[c].step \in HoldingSteps, Mark(rpc[c].event, s), NEW f \in Events, row[f] = "sent"
      PROVE  row'[f] = "sent"
  <2>1. row[rpc[c].event] # "sent"
    BY <1>0, <1>2 DEF CallInv
  <2> QED
    BY <1>0, <1>2, <2>1 DEF Mark, TypeOK
<1>3. CASE Duplicate(c) \/ InsertRefused(c)
  BY <1>1, <1>3 DEF Duplicate, InsertRefused
<1>4. CASE InsertPending(c)
  <2>1. \A f \in Events : row[f] = "sent" => row'[f] = "sent"
    BY <1>0, <1>4 DEF InsertPending, NoDuplicate, SamePair, TypeOK
  <2> QED
    BY <1>0, <1>4, <2>1, StepFacts, ToldStepped DEF InsertPending
<1>5. CASE InsertAgain(c)
  <2>1. rpc[c] \in CallRecords
    BY <1>0 DEF TypeOK
  <2>2. rpc'[c].client = rpc[c].client /\ \A d \in Calls : d # c => rpc'[d] = rpc[d]
    BY <1>0, <1>5, <2>1 DEF InsertAgain, TypeOK, CallRecords
  <2> QED
    BY <1>5, <2>2, ToldStepped DEF InsertAgain
<1>6. CASE GetRuleCooldown(c)
  <2>1. CASE Step(c, "lastsent")
    BY <1>0, <1>6, <2>1, StepFacts, ToldStepped DEF GetRuleCooldown
  <2>2. CASE Reply(c, "read")
    BY <1>1, <1>6, <2>2 DEF GetRuleCooldown
  <2> QED
    BY <1>6, <2>1, <2>2 DEF GetRuleCooldown
<1>7. CASE CheckCooldown(c)
  BY <1>7, CheckAllows
<1>8. CASE MarkDropped(c)
  BY <1>1, <1>2, <1>8 DEF MarkDropped, HoldingSteps
<1>9. CASE MarkSent(c)
  BY <1>9, MarkRecords
<1>10. CASE MarkFailed(c)
  BY <1>1, <1>2, <1>10 DEF MarkFailed, HoldingSteps
<1> QED
  BY <1>3, <1>4, <1>5, <1>6, <1>7, <1>8, <1>9, <1>10 DEF HandlerStep

\* Cascades remove rows together with what they stand for, and time only helps.
LEMMA CooldownEnvironment ==
    ASSUME IInv, Told, Allowed, Attended, EnvironmentStep
    PROVE  Told' /\ Allowed' /\ Attended'
<1> USE DEF topics, tables, worker, chat, bounds
<1>0. TypeOK
  BY DEF IInv
<1>1. UNCHANGED <<pc, event, at, rpc, sentAt, tg, toldAt>>
  BY DEF EnvironmentStep, Publish, SaveNews, DeleteNews, DeleteRule, Tick
<1>2. \A f \in Events, w \in Workers : Telling(w, f) => Telling(w, f)'
  BY <1>1 DEF Telling
<1>3. \A f \in Events : ~Gone(f)' => ~Gone(f)
  BY <1>0, GoneForGood DEF Next
<1>4. ASSUME NEW f \in Events, ~Gone(f)' PROVE row'[f] = row[f]
  <2>1. ASSUME NEW n \in News, DeleteNews(n) PROVE NewsOf[f] # n
    BY <1>0, <1>4, <2>1 DEF DeleteNews, Gone, TypeOK
  <2>2. ASSUME NEW r \in Rules, DeleteRule(r) PROVE RuleOf[f] # r
    BY <1>0, <1>4, <2>2 DEF DeleteRule, Gone, TypeOK
  <2> QED
    BY <2>1, <2>2 DEF EnvironmentStep, Publish, SaveNews, DeleteNews, DeleteRule, Tick
<1>5. now' \in Int /\ now' >= now
  BY <1>0 DEF EnvironmentStep, Publish, SaveNews, DeleteNews, DeleteRule, Tick, TypeOK
<1>6. ASSUME NEW f \in Events, Over(f) PROVE Over(f)'
  <2>1. now \in Int /\ toldAt[f] \in Int /\ (Cooldown[RuleOf[f]] - 1) * TicksPerSecond \in Int
    BY <1>0 DEF TypeOK
  <2> QED
    BY <1>1, <1>5, <1>6, <2>1 DEF Over
<1>7. Told'
  BY <1>1, <1>2, <1>3, <1>4 DEF Told, Recorded
<1>8. Allowed'
  <2>1. SUFFICES ASSUME NEW w \in Workers, pc'[w] \in {"send", "backoff"}, NEW f \in Events,
                        f # event'[w], RuleOf[f] = RuleOf[event'[w]], tg'[f] > 0, ~Gone(f)'
                 PROVE  Over(f)'
    BY DEF Allowed
  <2>2. Over(f)
    BY <1>1, <1>3, <2>1 DEF Allowed
  <2> QED
    BY <1>6, <2>2
<1> QED
  BY <1>1, <1>7, <1>8 DEF Attended

\* In the initial state nothing was told.
LEMMA CooldownInit == Init => CooldownInv
BY FreeFacts DEF Init, CooldownInv, Told, Allowed, Attended

\* While a rule has one worker at a time, every step keeps the invariant.
LEMMA CooldownNext == IInv /\ CooldownInv /\ OneWorkerPerRule /\ [Next]_vars => CooldownInv'
<1> SUFFICES ASSUME IInv, CooldownInv, OneWorkerPerRule, [Next]_vars, (faults + crashes = 0)'
             PROVE  Told' /\ Allowed' /\ Attended'
  BY DEF CooldownInv
<1>1. /\ faults + crashes = 0
      /\ \/ \E w \in Workers : WorkerStep(w)
         \/ \E c \in Calls : HandlerStep(c)
         \/ EnvironmentStep
         \/ UNCHANGED vars
  BY NothingFails DEF IInv
<1>2. Told /\ Allowed /\ Attended
  BY <1>1 DEF CooldownInv
<1>3. CASE UNCHANGED vars
  BY <1>2, <1>3 DEF vars, Told, Allowed, Attended, Recorded, Telling, Gone, Over
<1> QED
  BY <1>1, <1>2, <1>3, CooldownWorker, CooldownHandler, CooldownEnvironment

\* A message of a rule that the chat gets comes from a worker that was allowed to.
LEMMA CooldownSend ==
    ASSUME IInv, CooldownInv, [Next]_vars, faults + crashes = 0,
           NEW e \in Events, NEW f \in Events, tg'[e] > tg[e],
           f # e, RuleOf[f] = RuleOf[e], tg[f] > 0, ~Gone(f)
    PROVE  now - toldAt[f] > (Cooldown[RuleOf[e]] - 1) * TicksPerSecond
<1> USE DEF topics, tables, worker, chat, bounds, HandlerFrame, Fault
<1>0. TypeOK
  BY DEF IInv
<1>1. ASSUME NEW w \in Workers, SendOk(w) \/ SendTimeout(w) PROVE Over(f)
  <2>1. pc[w] = "send" /\ event[w] = e
    BY <1>0, <1>1 DEF SendOk, SendTimeout, TypeOK
  <2> QED
    BY <2>1 DEF CooldownInv, Allowed
<1>2. tg[e] \in Nat
  BY <1>0 DEF TypeOK
<1>3. ~UNCHANGED tg
  BY <1>2
<1>4. ASSUME NEW w \in Workers, WorkerStep(w) PROVE SendOk(w)
  BY <1>3, <1>4 DEF WorkerStep, ReadMessage, CallReserve, CallFinalize, StartCall, SendError,
                    Backoff, PublishDLT
<1>5. ASSUME NEW c \in Calls PROVE ~HandlerStep(c)
  BY <1>3 DEF HandlerStep, Duplicate, InsertPending, InsertAgain, InsertRefused, GetRuleCooldown,
              CheckCooldown, MarkDropped, MarkSent, MarkFailed
<1>6. FaultStep => \E w \in Workers : SendTimeout(w)
  BY <1>3 DEF FaultStep, CommitFails, TokenError, Disconnect, Crash, PublishDLTFails, DbError,
              HandlerCancelled
<1>7. ~EnvironmentStep
  BY <1>3 DEF EnvironmentStep, Publish, SaveNews, DeleteNews, DeleteRule, Tick
<1>8. \E w \in Workers : SendOk(w) \/ SendTimeout(w)
  BY <1>3, <1>4, <1>5, <1>6, <1>7 DEF Next, vars
<1> QED
  BY <1>1, <1>8 DEF Over

\* For any number of workers: as long as the events of a rule are with one worker
\* at a time, as their partition key has it, and nothing has failed, the alerts of
\* a rule are at least its cooldown apart, less the second that Unix may cut off.
THEOREM CooldownHolds == Spec /\ []OneWorkerPerRule => CooldownKept
<1>1. IInv /\ CooldownInv /\ [Next]_vars =>
        [\A e, f \in Events :
            /\ faults + crashes = 0 /\ tg'[e] > tg[e]
            /\ f # e /\ RuleOf[f] = RuleOf[e] /\ tg[f] > 0 /\ ~Gone(f)
            => now - toldAt[f] > (Cooldown[RuleOf[e]] - 1) * TicksPerSecond]_vars
  BY CooldownSend
<1> QED
  BY <1>1, Inductive, CooldownInit, CooldownNext, PTL DEF Spec, CooldownKept

\* In particular with one worker.
COROLLARY CooldownOfOne ==
    ASSUME \A v, w \in Workers : v = w
    PROVE  Spec => CooldownKept
<1>1. OneWorkerPerRule
  BY DEF OneWorkerPerRule
<1> QED
  BY <1>1, CooldownHolds, PTL
-----------------------------------------------------------------------------
(* Nobody waits for ever.  What TopicDrained adds to this is the fairness. *)

\* Steps that handleEvent has left at most, at p in the attempt n.
StepsLeft(p, n) ==
    CASE p = "reserve"          -> 2 * RetryAttempts + 5
      [] p = "reserving"        -> 2 * RetryAttempts + 4
      [] p = "send"             -> 2 * (RetryAttempts - n) + 5
      [] p = "backoff"          -> 2 * (RetryAttempts - n) + 4
      [] p \in {"sent", "failed"} -> 3
      [] p = "finalizing"       -> 2
      [] p = "dlt"              -> 1
      [] p = "read"             -> 0

\* Steps that a handler has left at most, before step s in the try n.
CallLeft(s, n) ==
    CASE s = "insert"   -> InsertAttempts - n + 4
      [] s = "cooldown" -> 3
      [] s = "lastsent" -> 2
      [] s \in {"drop", "sent", "failed"} -> 1
      [] s = "free"     -> 0

EventShrinks(w) ==
    \/ pc'[w] = pc[w] /\ attempt'[w] = attempt[w]
    \/ /\ StepsLeft(pc'[w], attempt'[w]) \in Nat
       /\ StepsLeft(pc'[w], attempt'[w]) < StepsLeft(pc[w], attempt[w])

CallShrinks(c) ==
    \/ rpc'[c].step = rpc[c].step /\ rpc'[c].try = rpc[c].try
    \/ /\ CallLeft(rpc'[c].step, rpc'[c].try) \in Nat
       /\ CallLeft(rpc'[c].step, rpc'[c].try) < CallLeft(rpc[c].step, rpc[c].try)

\* Whatever happens to an event or to a handler, it has less left than before;
\* only a worker that reads, and a slot that is free, start again.
AllShrink ==
    /\ \A w \in Workers : pc[w] # "read" => EventShrinks(w)
    /\ \A c \in Calls : rpc[c].step # "free" => CallShrinks(c)

HandlingShrinks == [][AllShrink]_vars

\* Whoever waits for an answer has a handler that works on it.
AnswersCome ==
    \A w \in Workers : pc[w] \in {"reserving", "finalizing"} =>
        \E c \in Calls : rpc[c].client = w /\ rpc[c].step # "free"

Tries == \A c \in Calls : rpc[c].try <= InsertAttempts

EndInv == AnswersCome /\ Tries

\* What is left, step by step, is a number.
LEMMA LeftOver ==
    /\ \A n : /\ StepsLeft("reserve", n) = 2 * RetryAttempts + 5
              /\ StepsLeft("reserving", n) = 2 * RetryAttempts + 4
              /\ StepsLeft("send", n) = 2 * (RetryAttempts - n) + 5
              /\ StepsLeft("backoff", n) = 2 * (RetryAttempts - n) + 4
              /\ StepsLeft("sent", n) = 3 /\ StepsLeft("failed", n) = 3
              /\ StepsLeft("finalizing", n) = 2 /\ StepsLeft("dlt", n) = 1 /\ StepsLeft("read", n) = 0
    /\ \A n : /\ CallLeft("insert", n) = InsertAttempts - n + 4
              /\ CallLeft("cooldown", n) = 3 /\ CallLeft("lastsent", n) = 2
              /\ CallLeft("drop", n) = 1 /\ CallLeft("sent", n) = 1 /\ CallLeft("failed", n) = 1
              /\ CallLeft("free", n) = 0
BY DEF StepsLeft, CallLeft

\* A handler has at least one step left.
LEMMA CallHasStep ==
    ASSUME TypeOK, Tries, NEW c \in Calls, rpc[c].step # "free"
    PROVE  CallLeft(rpc[c].step, rpc[c].try) \in Nat /\ CallLeft(rpc[c].step, rpc[c].try) > 0
<1>1. /\ rpc[c].try \in Nat /\ rpc[c].try <= InsertAttempts
      /\ rpc[c].step \in {"insert", "cooldown", "lastsent", "drop", "sent", "failed"}
  BY DEF TypeOK, CallRecords, Tries, ReserveSteps, FinalizeSteps
<1>. QED
  BY <1>1, LeftOver

\* An answer ends the handler and brings its client on.
LEMMA ReplyShrinks ==
    ASSUME TypeOK, ClientInv, WorkerInv, EndInv, NEW c \in Calls, NEW q, Reply(c, q), UNCHANGED attempt,
           rpc[c].step # "free",
           \/ q = "read"
           \/ q = "send" /\ rpc[c].step \in ReserveSteps
           \/ q = "dlt" /\ rpc[c].step \in FinalizeSteps
    PROVE  AllShrink /\ EndInv'
<1>1. \A d \in Calls : rpc'[d] = IF d = c THEN FreeCall ELSE rpc[d]
  BY ReplyFacts
<1>2. \A w \in Workers : pc'[w] = IF w = rpc[c].client THEN q ELSE pc[w]
  BY ReplyFacts
<1>3. FreeCall.step = "free" /\ FreeCall.try = 0
  BY DEF FreeCall
<1>4. ASSUME NEW w \in Workers, pc[w] # "read" PROVE EventShrinks(w)
  <2>1. CASE w # rpc[c].client
    BY <1>2, <2>1 DEF EventShrinks
  <2>2. CASE w = rpc[c].client
    <3>1. /\ pc'[w] = q /\ attempt'[w] = attempt[w]
          /\ \/ pc[w] = "reserving" /\ attempt[w] = 1 /\ q \in {"read", "send"}
             \/ pc[w] = "finalizing" /\ q \in {"read", "dlt"}
      BY <1>2, <2>2 DEF ClientInv, WaitsFor, WorkerInv, ReserveSteps, FinalizeSteps
    <3>. QED
      BY <3>1, LeftOver DEF EventShrinks
  <2>. QED
    BY <2>1, <2>2
<1>5. ASSUME NEW d \in Calls, rpc[d].step # "free" PROVE CallShrinks(d)
  <2>1. CASE d # c
    BY <1>1, <2>1 DEF CallShrinks
  <2>2. CASE d = c
    <3>1. CallLeft(rpc[c].step, rpc[c].try) > 0
      BY CallHasStep DEF EndInv
    <3>. QED
      BY <1>1, <1>3, <2>2, <3>1, LeftOver DEF CallShrinks
  <2>. QED
    BY <2>1, <2>2
<1>6. AnswersCome'
  <2> SUFFICES ASSUME NEW w \in Workers, pc'[w] \in {"reserving", "finalizing"}
               PROVE  \E d \in Calls : rpc'[d].client = w /\ rpc'[d].step # "free"
    BY DEF AnswersCome
  <2>1. w # rpc[c].client /\ pc'[w] = pc[w]
    BY <1>2
  <2>2. PICK d \in Calls : rpc[d].client = w /\ rpc[d].step # "free"
    BY <2>1 DEF EndInv, AnswersCome
  <2>3. d # c /\ rpc'[d] = rpc[d]
    BY <1>1, <2>1, <2>2
  <2>. QED
    BY <2>2, <2>3
<1>7. Tries'
  BY <1>1, <1>3 DEF Tries, EndInv
<1>. QED
  BY <1>4, <1>5, <1>6, <1>7 DEF EndInv, AllShrink

\* A handler that goes on in its procedure has a step or a try less.
LEMMA StepShrinks ==
    ASSUME TypeOK, EndInv, NEW c \in Calls, UNCHANGED <<pc, attempt>>,
           \A d \in Calls : d # c => rpc'[d] = rpc[d],
           rpc'[c].client = rpc[c].client, rpc'[c].try <= InsertAttempts, rpc'[c].step # "free",
           CallShrinks(c)
    PROVE  AllShrink /\ EndInv'
<1>1. \A d \in Calls : d # c => CallShrinks(d)
  BY DEF CallShrinks
<1>2. AnswersCome'
  BY DEF AnswersCome, EndInv
<1>3. Tries'
  BY DEF Tries, EndInv
<1>. QED
  BY <1>1, <1>2, <1>3 DEF EventShrinks, EndInv, AllShrink

\* A worker that waits for no answer moves, and leaves the handlers alone.
LEMMA MoveShrinks ==
    ASSUME TypeOK, EndInv, NEW w \in Workers, UNCHANGED rpc,
           \A v \in Workers : v # w => pc'[v] = pc[v] /\ attempt'[v] = attempt[v],
           pc'[w] \notin {"reserving", "finalizing"},
           pc[w] # "read" => EventShrinks(w)
    PROVE  AllShrink /\ EndInv'
<1>1. \A v \in Workers : v # w => EventShrinks(v)
  BY DEF EventShrinks
<1>2. \A d \in Calls : CallShrinks(d)
  BY DEF CallShrinks
<1>3. EndInv'
  BY DEF EndInv, AnswersCome, Tries
<1>. QED
  BY <1>1, <1>2, <1>3 DEF AllShrink

\* A worker that calls has a handler that works for it.
LEMMA StartShrinks ==
    ASSUME TypeOK, EndInv, NEW w \in Workers, NEW c \in Calls, NEW s, NEW q, StartCall(w, c, s, q), s # "free",
           attempt[w] \in Nat, attempt[w] <= RetryAttempts,
           \/ pc[w] = "reserve" /\ q = "reserving"
           \/ pc[w] \in {"sent", "failed"} /\ q = "finalizing"
    PROVE  AllShrink /\ EndInv'
<1>1. /\ \A d \in Calls : d # c => rpc'[d] = rpc[d]
      /\ rpc'[c].step = s /\ rpc'[c].client = w /\ rpc[c].step = "free"
      /\ \A v \in Workers : pc'[v] = IF v = w THEN q ELSE pc[v]
      /\ attempt' = attempt
  BY StartFacts
<1>2. rpc'[c].try = 1
  BY DEF StartCall, TypeOK
<1>3. EventShrinks(w)
  BY <1>1, LeftOver DEF EventShrinks
<1>4. \A v \in Workers : v # w => EventShrinks(v)
  BY <1>1 DEF EventShrinks
<1>5. \A d \in Calls : rpc[d].step # "free" => CallShrinks(d)
  BY <1>1 DEF CallShrinks
<1>6. AnswersCome'
  <2> SUFFICES ASSUME NEW v \in Workers, pc'[v] \in {"reserving", "finalizing"}
               PROVE  \E d \in Calls : rpc'[d].client = v /\ rpc'[d].step # "free"
    BY DEF AnswersCome
  <2>1. CASE v = w
    BY <1>1, <2>1
  <2>2. CASE v # w
    <3>1. PICK d \in Calls : rpc[d].client = v /\ rpc[d].step # "free"
      BY <1>1, <2>2 DEF EndInv, AnswersCome
    <3>. QED
      BY <1>1, <3>1
  <2>. QED
    BY <2>1, <2>2
<1>7. Tries'
  BY <1>1, <1>2 DEF Tries, EndInv
<1>. QED
  BY <1>3, <1>4, <1>5, <1>6, <1>7 DEF EndInv, AllShrink

\* The attempts are counted from one, to RetryAttempts.
LEMMA AttemptsBounded ==
    ASSUME TypeOK, WorkerInv, NEW w \in Workers, pc[w] # "read"
    PROVE  /\ attempt[w] \in Nat
           /\ pc[w] \in {"reserve", "reserving", "send", "backoff", "sent", "failed"} => attempt[w] <= RetryAttempts
           /\ pc[w] = "backoff" => attempt[w] < RetryAttempts
BY DEF TypeOK, WorkerInv, HoldingPCs

\* Outside ReadMessage a worker has at least one step left.
LEMMA PositiveLeft ==
    ASSUME TypeOK, WorkerInv, NEW w \in Workers, pc[w] # "read"
    PROVE  StepsLeft(pc[w], attempt[w]) \in Nat /\ StepsLeft(pc[w], attempt[w]) > 0
<1>1. pc[w] \in PCs \ {"read"}
  BY DEF TypeOK
<1>. QED
  BY <1>1, AttemptsBounded, LeftOver DEF PCs

\* A worker that gives up waiting leaves its handler as far as it is.
LEMMA OrphanShrinks ==
    ASSUME TypeOK, EndInv, NEW w \in Workers, rpc' = Orphaned(w), UNCHANGED attempt,
           WorkerInv, pc[w] # "read", pc' = [pc EXCEPT ![w] = "read"]
    PROVE  AllShrink /\ EndInv'
<1>1. \A c \in Calls : /\ rpc'[c].step = rpc[c].step /\ rpc'[c].try = rpc[c].try
                       /\ rpc'[c].client = IF rpc[c].client = w THEN NoWorker ELSE rpc[c].client
  <2> SUFFICES ASSUME NEW c \in Calls
               PROVE  /\ rpc'[c].step = rpc[c].step /\ rpc'[c].try = rpc[c].try
                      /\ rpc'[c].client = IF rpc[c].client = w THEN NoWorker ELSE rpc[c].client
    OBVIOUS
  <2>1. rpc[c] \in CallRecords /\ rpc'[c] = IF rpc[c].client = w THEN [rpc[c] EXCEPT !.client = NoWorker] ELSE rpc[c]
    BY DEF TypeOK, Orphaned
  <2>. QED
    BY <2>1 DEF CallRecords
<1>2. \A v \in Workers : pc'[v] = IF v = w THEN "read" ELSE pc[v]
  BY DEF TypeOK
<1>3. \A v \in Workers : v # w => EventShrinks(v)
  BY <1>2 DEF EventShrinks
<1>4. EndInv'
  BY <1>1, <1>2 DEF EndInv, AnswersCome, Tries
<1>5. \A d \in Calls : CallShrinks(d)
  BY <1>1 DEF CallShrinks
<1>6. EventShrinks(w)
  BY <1>2, PositiveLeft, LeftOver DEF EventShrinks
<1>. QED
  BY <1>3, <1>4, <1>5, <1>6 DEF AllShrink

\* In the initial state nobody waits and nobody has tried.
LEMMA EndInit == Init => EndInv
BY DEF Init, EndInv, AnswersCome, Tries, FreeCall

\* A step of the worker itself.
LEMMA WorkerShrinks ==
    ASSUME IInv, EndInv, NEW w \in Workers, WorkerStep(w)
    PROVE  AllShrink /\ EndInv'
<1> USE DEF topics, tables, worker, chat, bounds
<1>0. TypeOK /\ WorkerInv
  BY DEF IInv, DeliveryInv
<1>1. ASSUME NEW e \in Events, ReadMessage(w, e) PROVE AllShrink /\ EndInv'
  BY <1>0, <1>1, MoveShrinks DEF ReadMessage, TypeOK
<1>2. ASSUME NEW c \in Calls, CallReserve(w, c) PROVE AllShrink /\ EndInv'
  BY <1>0, <1>2, AttemptsBounded, StartShrinks DEF CallReserve
<1>3. ASSUME NEW c \in Calls, CallFinalize(w, c) PROVE AllShrink /\ EndInv'
  BY <1>0, <1>3, AttemptsBounded, StartShrinks DEF CallFinalize, FinalizeSteps
<1>4. ASSUME pc[w] = "send", UNCHANGED <<attempt, rpc>>, NEW q, pc' = [pc EXCEPT ![w] = q],
             \/ q \in {"sent", "failed"}
             \/ q = "backoff" /\ attempt[w] < RetryAttempts
      PROVE  AllShrink /\ EndInv'
  <2>1. pc'[w] = q /\ \A v \in Workers : v # w => pc'[v] = pc[v]
    BY <1>0, <1>4 DEF TypeOK
  <2>2. attempt[w] \in Nat /\ attempt[w] <= RetryAttempts
    BY <1>0, <1>4, AttemptsBounded
  <2>3. EventShrinks(w)
    BY <1>4, <2>1, <2>2, LeftOver DEF EventShrinks
  <2>. QED
    BY <1>0, <1>4, <2>1, <2>3, MoveShrinks
<1>5. CASE SendOk(w)
  BY <1>4, <1>5 DEF SendOk
<1>6. CASE SendError(w)
  <2>1. attempt[w] \in Nat
    BY <1>0 DEF TypeOK
  <2>. QED
    BY <1>4, <1>6, <2>1 DEF SendError, AfterError
<1>7. CASE Backoff(w)
  <2>1. attempt[w] \in Nat /\ attempt[w] < RetryAttempts
    BY <1>0, <1>7, AttemptsBounded DEF Backoff
  <2>2. /\ pc'[w] = "send" /\ attempt'[w] = attempt[w] + 1 /\ UNCHANGED rpc
        /\ \A v \in Workers : v # w => pc'[v] = pc[v] /\ attempt'[v] = attempt[v]
    BY <1>0, <1>7 DEF Backoff, TypeOK
  <2>3. EventShrinks(w)
    BY <1>7, <2>1, <2>2, LeftOver DEF EventShrinks, Backoff
  <2>. QED
    BY <1>0, <2>2, <2>3, MoveShrinks
<1>8. CASE PublishDLT(w)
  <2>1. EventShrinks(w)
    BY <1>0, <1>8, LeftOver DEF EventShrinks, PublishDLT, TypeOK
  <2>. QED
    BY <1>0, <1>8, <2>1, MoveShrinks DEF PublishDLT, TypeOK
<1>. QED
  BY <1>1, <1>2, <1>3, <1>5, <1>6, <1>7, <1>8 DEF WorkerStep

\* A step of a handler.
LEMMA HandlerShrinks ==
    ASSUME IInv, EndInv, NEW c \in Calls, HandlerStep(c)
    PROVE  AllShrink /\ EndInv'
<1> USE DEF HandlerFrame
<1>0. TypeOK /\ ClientInv /\ WorkerInv /\ rpc[c] \in CallRecords
  BY DEF IInv, DeliveryInv, TypeOK
<1>1. ASSUME NEW q, Reply(c, q), UNCHANGED attempt, rpc[c].step # "free",
             \/ q = "read"
             \/ q = "send" /\ rpc[c].step \in ReserveSteps
             \/ q = "dlt" /\ rpc[c].step \in FinalizeSteps
      PROVE  AllShrink /\ EndInv'
  BY <1>0, <1>1, ReplyShrinks
<1>2. ASSUME NEW s, Step(c, s), UNCHANGED attempt,
             \/ rpc[c].step = "insert" /\ s = "cooldown"
             \/ rpc[c].step = "cooldown" /\ s = "lastsent"
             \/ rpc[c].step = "lastsent" /\ s = "drop"
      PROVE  AllShrink /\ EndInv'
  <2>1. /\ \A d \in Calls : d # c => rpc'[d] = rpc[d]
        /\ rpc'[c].step = s /\ rpc'[c].client = rpc[c].client /\ UNCHANGED pc
    BY <1>0, <1>2, StepFacts
  <2>2. rpc'[c].try = rpc[c].try
    BY <1>0, <1>2 DEF Step, TypeOK, CallRecords
  <2>3. rpc[c].try \in Nat /\ rpc[c].try <= InsertAttempts
    BY <1>0 DEF CallRecords, EndInv, Tries
  <2>4. CallShrinks(c)
    BY <1>2, <2>1, <2>2, <2>3, LeftOver DEF CallShrinks
  <2>. QED
    BY <1>0, <1>2, <2>1, <2>2, <2>3, <2>4, StepShrinks
<1>3. CASE Duplicate(c)
  BY <1>1, <1>3 DEF Duplicate
<1>4. CASE InsertPending(c)
  BY <1>2, <1>4 DEF InsertPending
<1>5. CASE InsertAgain(c)
  <2>1. rpc[c].try \in Nat /\ rpc[c].try < InsertAttempts
    BY <1>0, <1>5 DEF CallRecords, InsertAgain
  <2>2. /\ \A d \in Calls : d # c => rpc'[d] = rpc[d]
        /\ rpc'[c].step = "insert" /\ rpc'[c].client = rpc[c].client
        /\ rpc'[c].try = rpc[c].try + 1
    BY <1>0, <1>5 DEF InsertAgain, TypeOK, CallRecords
  <2>3. CallShrinks(c)
    BY <1>5, <2>1, <2>2, LeftOver DEF CallShrinks, InsertAgain
  <2>4. UNCHANGED <<pc, attempt>>
    BY <1>5 DEF InsertAgain
  <2>. QED
    BY <1>0, <2>1, <2>2, <2>3, <2>4, StepShrinks
<1>6. CASE InsertRefused(c)
  BY <1>1, <1>6 DEF InsertRefused
<1>7. CASE GetRuleCooldown(c)
  BY <1>1, <1>2, <1>7 DEF GetRuleCooldown
<1>8. CASE CheckCooldown(c)
  BY <1>1, <1>2, <1>8 DEF CheckCooldown, ReserveSteps
<1>9. CASE MarkDropped(c)
  BY <1>1, <1>9 DEF MarkDropped
<1>10. CASE MarkSent(c)
  BY <1>1, <1>10 DEF MarkSent
<1>11. CASE MarkFailed(c)
  BY <1>1, <1>11 DEF MarkFailed, FinalizeSteps
<1>. QED
  BY <1>3, <1>4, <1>5, <1>6, <1>7, <1>8, <1>9, <1>10, <1>11 DEF HandlerStep

\* A fault, a crash or a cancelled handler: each ends the work it hits.
LEMMA FaultShrinks ==
    ASSUME IInv, EndInv, FaultStep
    PROVE  AllShrink /\ EndInv'
<1> USE DEF topics, tables, worker, chat, bounds, HandlerFrame
<1>0. TypeOK /\ ClientInv /\ WorkerInv
  BY DEF IInv, DeliveryInv
<1>1. ASSUME NEW w \in Workers, pc[w] # "read", pc' = [pc EXCEPT ![w] = "read"], UNCHANGED <<attempt, rpc>>
      PROVE  AllShrink /\ EndInv'
  <2>1. pc'[w] = "read" /\ \A v \in Workers : v # w => pc'[v] = pc[v]
    BY <1>0, <1>1 DEF TypeOK
  <2>2. EventShrinks(w)
    BY <1>0, <1>1, <2>1, PositiveLeft, LeftOver DEF EventShrinks
  <2>. QED
    BY <1>0, <1>1, <2>1, <2>2, MoveShrinks
<1>2. ASSUME NEW w \in Workers, NEW e \in Events, CommitFails(w, e) PROVE AllShrink /\ EndInv'
  BY <1>0, <1>2, MoveShrinks DEF CommitFails
<1>3. ASSUME NEW w \in Workers, TokenError(w) PROVE AllShrink /\ EndInv'
  BY <1>1, <1>3 DEF TokenError
<1>4. ASSUME NEW w \in Workers, Disconnect(w) PROVE AllShrink /\ EndInv'
  BY <1>0, <1>4, OrphanShrinks DEF Disconnect
<1>5. ASSUME NEW w \in Workers, Crash(w) PROVE AllShrink /\ EndInv'
  BY <1>0, <1>5, OrphanShrinks DEF Crash
<1>6. ASSUME NEW w \in Workers, SendTimeout(w) PROVE AllShrink /\ EndInv'
  <2>1. attempt[w] \in Nat /\ attempt[w] <= RetryAttempts
    BY <1>0, <1>6, AttemptsBounded DEF SendTimeout
  <2>2. /\ pc'[w] = IF attempt[w] < RetryAttempts THEN "backoff" ELSE "failed"
        /\ \A v \in Workers : v # w => pc'[v] = pc[v]
    BY <1>0, <1>6 DEF SendTimeout, AfterError, TypeOK
  <2>3. EventShrinks(w)
    BY <1>6, <2>1, <2>2, LeftOver DEF EventShrinks, SendTimeout
  <2>. QED
    BY <1>0, <1>6, <2>2, <2>3, MoveShrinks DEF SendTimeout
<1>7. ASSUME NEW w \in Workers, PublishDLTFails(w) PROVE AllShrink /\ EndInv'
  BY <1>1, <1>7 DEF PublishDLTFails
<1>8. ASSUME NEW c \in Calls, DbError(c) PROVE AllShrink /\ EndInv'
  BY <1>0, <1>8, ReplyShrinks DEF DbError
<1>9. ASSUME NEW c \in Calls, HandlerCancelled(c) PROVE AllShrink /\ EndInv'
  BY <1>0, <1>9, ReplyShrinks DEF HandlerCancelled
<1>. QED
  BY <1>2, <1>3, <1>4, <1>5, <1>6, <1>7, <1>8, <1>9 DEF FaultStep

\* Every step keeps the invariant and leaves less to do.
LEMMA ShrinkNext == IInv /\ EndInv /\ [Next]_vars => AllShrink /\ EndInv'
<1> SUFFICES ASSUME IInv, EndInv, [Next]_vars PROVE AllShrink /\ EndInv'
  OBVIOUS
<1>1. ASSUME UNCHANGED <<pc, attempt, rpc>> PROVE AllShrink /\ EndInv'
  BY <1>1 DEF AllShrink, EventShrinks, CallShrinks, EndInv, AnswersCome, Tries
<1>2. CASE EnvironmentStep
  BY <1>1, <1>2 DEF EnvironmentStep, Publish, SaveNews, DeleteNews, DeleteRule, Tick, worker
<1>3. CASE UNCHANGED vars
  BY <1>1, <1>3 DEF vars
<1>. QED
  BY <1>2, <1>3, WorkerShrinks, HandlerShrinks, FaultShrinks DEF Next

\* A worker in Reserve or Finalize waits for a handler that is at work, so an
\* answer is still to come; a lost one has already sent the worker back to read.
THEOREM AnswersArrive == Spec => []AnswersCome
<1>1. EndInv => AnswersCome
  BY DEF EndInv
<1>. QED
  BY <1>1, Inductive, EndInit, ShrinkNext, PTL DEF Spec

\* The handling of an event takes at most 2 * RetryAttempts + 5 steps of its
\* worker, and a handler at most InsertAttempts + 3: every step that touches one,
\* faults included, leaves it less to do.
THEOREM HandlingEnds == Spec => HandlingShrinks
<1>1. IInv /\ EndInv /\ [Next]_vars => [AllShrink]_vars
  BY ShrinkNext
<1>. QED
  BY <1>1, Inductive, EndInit, ShrinkNext, PTL DEF Spec, HandlingShrinks

=============================================================================
