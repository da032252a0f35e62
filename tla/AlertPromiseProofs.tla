------------------------- MODULE AlertPromiseProofs --------------------------
(***************************************************************************)
(* AlertDelivery implements AlertPromise: every step of a worker, a        *)
(* handler or the environment is a step of one conversation, or none.      *)
(* The proof follows the right to deliver an event, the token of           *)
(* AlertDeliveryProofs: the stage of an event is where its token is.       *)
(***************************************************************************)
EXTENDS AlertDeliveryProofs

-----------------------------------------------------------------------------
(* The stage of an event, from the place of its token *)

CallStage(step) ==
    CASE step \in {"cooldown", "lastsent", "drop"} -> "deciding"
      [] step = "sent"   -> "told"
      [] step = "failed" -> "exhausted"

WorkerStage(q) ==
    CASE q \in {"send", "backoff"} -> "sending"
      [] q = "sent"   -> "told"
      [] q = "failed" -> "exhausted"
      [] q = "dlt"    -> "burying"

\* No handler and no worker has the token of an event.
NoToken(e) ==
    /\ \A c \in Calls : rpc[c].event = e => rpc[c].step \notin HoldingSteps
    /\ \A w \in Workers : event[w] = e => pc[w] \notin HoldingPCs

\* The stage of an event without a token.
LEMMA IdleStage == \A e \in Events : NoToken(e) => Stage[e] = "idle"
BY DEF Stage, StageOf, Handled, Worked, NoToken, HoldingSteps, HoldingPCs

\* The stage of an event whose token a handler has.
LEMMA HandlerStage ==
    OneToken => \A c \in Calls :
        rpc[c].event \in Events /\ rpc[c].step \in HoldingSteps => Stage[rpc[c].event] = CallStage(rpc[c].step)
<1>1. SUFFICES ASSUME OneToken, NEW c \in Calls, rpc[c].event \in Events, rpc[c].step \in HoldingSteps
               PROVE  StageOf(rpc[c].event) = CallStage(rpc[c].step)
  BY DEF Stage
<1>2. \A d \in Calls : rpc[d].event = rpc[c].event /\ rpc[d].step \in HoldingSteps => d = c
  BY <1>1 DEF OneToken, SamePair
<1>3. \A w \in Workers : event[w] = rpc[c].event => pc[w] \notin HoldingPCs
  BY <1>1 DEF OneToken, SamePair
<1>. QED
  BY <1>1, <1>2, <1>3 DEF StageOf, CallStage, Handled, Worked, HoldingSteps, HoldingPCs

\* The stage of an event whose token a worker has.
LEMMA HolderStage ==
    OneToken => \A w \in Workers :
        event[w] \in Events /\ pc[w] \in HoldingPCs => Stage[event[w]] = WorkerStage(pc[w])
<1>1. SUFFICES ASSUME OneToken, NEW w \in Workers, event[w] \in Events, pc[w] \in HoldingPCs
               PROVE  StageOf(event[w]) = WorkerStage(pc[w])
  BY DEF Stage
<1>2. \A v \in Workers : event[v] = event[w] /\ pc[v] \in HoldingPCs => v = w
  BY <1>1 DEF OneToken, SamePair
<1>3. \A c \in Calls : rpc[c].event = event[w] => rpc[c].step \notin HoldingSteps
  BY <1>1 DEF OneToken, SamePair
<1>. QED
  BY <1>1, <1>2, <1>3 DEF StageOf, WorkerStage, Handled, Worked, HoldingSteps, HoldingPCs

\* An event whose token, if any, stays where it is, stays in its stage.
LEMMA SameStage ==
    ASSUME NEW e \in Events,
           \A c \in Calls :
              (rpc[c].event = e /\ rpc[c].step \in HoldingSteps) \/ (rpc'[c].event = e /\ rpc'[c].step \in HoldingSteps)
                 => rpc'[c].event = rpc[c].event /\ rpc'[c].step = rpc[c].step,
           \A w \in Workers :
              (event[w] = e /\ pc[w] \in HoldingPCs) \/ (event'[w] = e /\ pc'[w] \in HoldingPCs)
                 => event'[w] = event[w] /\ pc'[w] = pc[w]
    PROVE  Stage'[e] = Stage[e]
<1>1. \A steps \in SUBSET HoldingSteps : Handled(e, steps)' = Handled(e, steps)
  BY DEF Handled
<1>2. \A pcs \in SUBSET HoldingPCs : Worked(e, pcs)' = Worked(e, pcs)
  BY DEF Worked
<1>3. StageOf(e)' = StageOf(e)
  BY <1>1, <1>2 DEF StageOf, HoldingSteps, HoldingPCs
<1>. QED
  BY <1>3 DEF Stage

\* The same facts hold after a step.
LEMMA StagesAfter ==
    ASSUME OneToken'
    PROVE  /\ \A e \in Events : NoToken(e)' => Stage'[e] = "idle"
           /\ \A c \in Calls :
                 rpc'[c].event \in Events /\ rpc'[c].step \in HoldingSteps
                    => Stage'[rpc'[c].event] = CallStage(rpc'[c].step)
           /\ \A w \in Workers :
                 event'[w] \in Events /\ pc'[w] \in HoldingPCs => Stage'[event'[w]] = WorkerStage(pc'[w])
<1>1. (\A e \in Events : NoToken(e) => Stage[e] = "idle")'
  BY IdleStage, PTL
<1>2. (OneToken => \A c \in Calls :
        rpc[c].event \in Events /\ rpc[c].step \in HoldingSteps => Stage[rpc[c].event] = CallStage(rpc[c].step))'
  BY HandlerStage, PTL
<1>3. (OneToken => \A w \in Workers :
        event[w] \in Events /\ pc[w] \in HoldingPCs => Stage[event[w]] = WorkerStage(pc[w]))'
  BY HolderStage, PTL
<1>. QED
  BY <1>1, <1>2, <1>3

-----------------------------------------------------------------------------
(* What a step does to the stages *)

\* One stage changes.
LEMMA OneMoves ==
    ASSUME NEW e \in Events, NEW s, Stage'[e] = s, \A f \in Events \ {e} : Stage'[f] = Stage[f]
    PROVE  Stage' = [Stage EXCEPT ![e] = s]
BY DEF Stage

\* No stage changes.
LEMMA NoneMoves ==
    ASSUME \A e \in Events : Stage'[e] = Stage[e]
    PROVE  Stage' = Stage
BY DEF Stage

\* A conversation breaks off, or nothing happens.
LEMMA BreaksOff ==
    ASSUME NEW e \in Events, Stage'[e] \in {"idle", Stage[e]}, \A f \in Events \ {e} : Stage'[f] = Stage[f],
           UNCHANGED <<row, tg, errs, dlt>>
    PROVE  [Promise!Next]_Promise!vars
<1>1. CASE Stage'[e] = "idle"
  <2>1. Stage' = [Stage EXCEPT ![e] = "idle"]
    BY <1>1, OneMoves
  <2>. QED
    BY <2>1 DEF Promise!Next, Promise!BreakOff
<1>2. CASE Stage'[e] = Stage[e]
  <2>1. Stage' = Stage
    BY <1>2, NoneMoves
  <2>. QED
    BY <2>1 DEF Promise!vars
<1>. QED
  BY <1>1, <1>2

\* A step in which no token moves and nothing is sent or recorded.
LEMMA Quiet ==
    ASSUME UNCHANGED <<event, pc, row, tg, errs, dlt>>,
           \A c \in Calls : rpc'[c].step = rpc[c].step /\ rpc'[c].event = rpc[c].event
    PROVE  UNCHANGED Promise!vars
<1>1. \A e \in Events : Stage'[e] = Stage[e]
  BY SameStage
<1>2. Stage' = Stage
  BY <1>1, NoneMoves
<1>. QED
  BY <1>2 DEF Promise!vars

\* A worker goes on: the stages of other events stay, and that of its own event
\* follows its token.
LEMMA WorkerMoves ==
    ASSUME IInv, OneToken', NEW w \in Workers, event[w] \in Events, event' = event,
           \A v \in Workers : v # w => pc'[v] = pc[v],
           \A c \in Calls : rpc'[c].step = rpc[c].step /\ rpc'[c].event = rpc[c].event
    PROVE  /\ \A f \in Events \ {event[w]} : Stage'[f] = Stage[f]
           /\ pc'[w] \in HoldingPCs => Stage'[event[w]] = WorkerStage(pc'[w])
           /\ pc'[w] \notin HoldingPCs => Stage'[event[w]] \in {"idle", Stage[event[w]]}
<1>1. ASSUME NEW f \in Events \ {event[w]} PROVE Stage'[f] = Stage[f]
  BY <1>1, SameStage
<1>2. ASSUME pc'[w] \in HoldingPCs PROVE Stage'[event[w]] = WorkerStage(pc'[w])
  BY <1>2, StagesAfter
<1>3. ASSUME pc'[w] \notin HoldingPCs, pc[w] \in HoldingPCs PROVE Stage'[event[w]] = "idle"
  <2>1. NoToken(event[w])'
    BY <1>3 DEF NoToken, IInv, DeliveryInv, OneToken, SamePair
  <2>. QED
    BY <2>1, StagesAfter
<1>4. ASSUME pc'[w] \notin HoldingPCs, pc[w] \notin HoldingPCs PROVE Stage'[event[w]] = Stage[event[w]]
  BY <1>4, SameStage
<1>. QED
  BY <1>1, <1>2, <1>3, <1>4

\* A handler goes on to another statement.
LEMMA HandlerMoves ==
    ASSUME IInv, OneToken', NEW c \in Calls, NEW s \in HoldingSteps, rpc[c].step # "free", Step(c, s), event' = event
    PROVE  /\ \A f \in Events \ {rpc[c].event} : Stage'[f] = Stage[f]
           /\ Stage'[rpc[c].event] = CallStage(s)
<1>0. TypeOK /\ rpc[c].event \in Events
  BY DEF IInv, ClientInv
<1>1. /\ \A d \in Calls : d # c => rpc'[d] = rpc[d]
      /\ rpc'[c].step = s /\ rpc'[c].event = rpc[c].event /\ pc' = pc
  BY <1>0, StepFacts
<1>2. ASSUME NEW f \in Events \ {rpc[c].event} PROVE Stage'[f] = Stage[f]
  BY <1>1, <1>2, SameStage
<1>3. Stage'[rpc[c].event] = CallStage(s)
  BY <1>0, <1>1, StagesAfter
<1>. QED
  BY <1>2, <1>3

\* A handler returns: the worker that waits for it has the same event and no
\* token, which it gets with the answer.
LEMMA ReplyMoves ==
    ASSUME IInv, OneToken', NEW c \in Calls, NEW q, rpc[c].step # "free", Reply(c, q), event' = event
    PROVE  /\ \A f \in Events \ {rpc[c].event} : Stage'[f] = Stage[f]
           /\ q \notin HoldingPCs => Stage'[rpc[c].event] \in {"idle", Stage[rpc[c].event]}
           /\ rpc[c].step \in HoldingSteps =>
                 /\ q \in HoldingPCs => Stage'[rpc[c].event] \in {"idle", WorkerStage(q)}
                 /\ q \notin HoldingPCs => Stage'[rpc[c].event] = "idle"
<1> DEFINE e == rpc[c].event
<1>0. TypeOK /\ ClientInv /\ OneToken /\ e \in Events
  BY DEF IInv, ClientInv, DeliveryInv
<1>1. /\ \A d \in Calls : rpc'[d] = IF d = c THEN FreeCall ELSE rpc[d]
      /\ \A w \in Workers : pc'[w] = IF w = rpc[c].client THEN q ELSE pc[w]
  BY <1>0, ReplyFacts
<1>2. \A w \in Workers : w = rpc[c].client => event[w] = e /\ pc[w] \notin HoldingPCs
  BY <1>0 DEF ClientInv, WaitsFor, HoldingPCs
<1>3. rpc'[c].step \notin HoldingSteps
  BY <1>1, FreeFacts DEF HoldingSteps
<1>4. ASSUME NEW f \in Events \ {e} PROVE Stage'[f] = Stage[f]
  BY <1>1, <1>2, <1>3, <1>4, SameStage
<1>5. ASSUME NEW f \in Events, f = e,
             rpc[c].step \in HoldingSteps, ~(q \in HoldingPCs /\ rpc[c].client \in Workers)
      PROVE  Stage'[f] = "idle"
  <2>1. NoToken(f)'
    BY <1>0, <1>1, <1>2, <1>3, <1>5 DEF NoToken, OneToken, SamePair
  <2>. QED
    BY <1>0, <2>1, StagesAfter
<1>6. ASSUME q \in HoldingPCs, rpc[c].client \in Workers PROVE Stage'[e] = WorkerStage(q)
  <2>1. pc'[rpc[c].client] = q /\ event'[rpc[c].client] = e
    BY <1>1, <1>2, <1>6
  <2>. QED
    BY <1>0, <1>6, <2>1, StagesAfter
<1>7. ASSUME q \notin HoldingPCs, rpc[c].step \notin HoldingSteps PROVE Stage'[e] = Stage[e]
  BY <1>0, <1>1, <1>2, <1>3, <1>7, SameStage
<1>. QED
  BY <1>0, <1>4, <1>5, <1>6, <1>7

-----------------------------------------------------------------------------
(* Every step of AlertDelivery is a step of AlertPromise or a stutter *)

\* The initial states.
LEMMA PromiseInit == Init => Promise!Init
<1>1. SUFFICES ASSUME Init PROVE Promise!Init
  OBVIOUS
<1>2. \A e \in Events : NoToken(e)
  BY <1>1, FreeFacts DEF Init, NoToken, HoldingSteps, HoldingPCs
<1>3. Stage = [e \in Events |-> "idle"]
  BY <1>2, IdleStage DEF Stage
<1>. QED
  BY <1>1, <1>3 DEF Init, Promise!Init

\* The insert of the pending row is the reservation of a pair that nothing was
\* done about.
LEMMA PromiseInsert ==
    ASSUME IInv, OneToken', NEW c \in Calls, InsertPending(c)
    PROVE  Promise!Next
<1> DEFINE e == rpc[c].event
<1>0. TypeOK /\ ClientInv /\ OneToken /\ CallInv /\ WorkerInv /\ UsedUp /\ e \in Events
  BY DEF InsertPending, IInv, ClientInv, DeliveryInv
<1>1. \A f \in Events : SamePair(f, e) => row[f] = "none" /\ ~Claimed(f)
  BY <1>0 DEF InsertPending, NoDuplicate, SamePair, Claimed, Gone
<1>2. ASSUME NEW f \in Events, SamePair(f, e) PROVE Promise!Untouched(f)
  <2>1. NoToken(f)
    BY <1>0, <1>1, <1>2 DEF NoToken, CallInv, WorkerInv, TokenFor
  <2>2. tg[f] = 0 /\ errs[f] = 0
    BY <1>0, <1>1, <1>2 DEF UsedUp, TypeOK
  <2>. QED
    BY <1>1, <1>2, <2>1, <2>2, IdleStage DEF Promise!Untouched
<1>3. /\ \A f \in Events \ {e} : Stage'[f] = Stage[f]
      /\ Stage'[e] = "deciding"
  BY HandlerMoves DEF InsertPending, HandlerFrame, HoldingSteps, CallStage
<1>4. Stage' = [Stage EXCEPT ![e] = "deciding"]
  BY <1>0, <1>3, OneMoves
<1>5. \A f \in Events : <<RuleOf[f], NewsOf[f]>> = <<RuleOf[e], NewsOf[e]>> => Promise!Untouched(f)
  BY <1>2 DEF SamePair
<1>6. Stage[e] = "idle"
  BY <1>0, <1>2 DEF SamePair, Promise!Untouched
<1>7. row' = [row EXCEPT ![e] = "pending"] /\ UNCHANGED <<tg, errs, dlt>>
  BY DEF InsertPending, HandlerFrame, topics, chat
<1>8. Promise!Reserve(e)
  BY <1>0, <1>4, <1>5, <1>6, <1>7 DEF Promise!Reserve, Promise!Move
<1>. QED
  BY <1>0, <1>8 DEF Promise!Next

\* The statements of the handlers.
LEMMA PromiseHandler ==
    ASSUME IInv, OneToken', NEW c \in Calls, HandlerStep(c)
    PROVE  [Promise!Next]_Promise!vars
<1> DEFINE e == rpc[c].event
<1> USE DEF HandlerFrame, topics, chat
<1>0. TypeOK /\ OneToken /\ (rpc[c].step # "free" => e \in Events)
  BY DEF IInv, ClientInv, DeliveryInv
<1>1. ASSUME rpc[c].step # "free", Reply(c, "read"), event' = event, UNCHANGED <<row, tg, errs, dlt>>
      PROVE  [Promise!Next]_Promise!vars
  BY <1>0, <1>1, ReplyMoves, BreaksOff DEF HoldingPCs
<1>2. CASE Duplicate(c) \/ InsertRefused(c)
  BY <1>1, <1>2 DEF Duplicate, InsertRefused
<1>3. CASE InsertPending(c)
  BY <1>3, PromiseInsert
<1>4. CASE InsertAgain(c)
  BY <1>0, <1>4, Quiet DEF InsertAgain, TypeOK, CallRecords
<1>5. CASE GetRuleCooldown(c)
  <2>1. CASE Step(c, "lastsent")
    <3>1. Stage[e] = "deciding"
      BY <1>0, <1>5, HandlerStage DEF GetRuleCooldown, HoldingSteps, CallStage
    <3>2. Stage'[e] = "deciding" /\ \A f \in Events \ {e} : Stage'[f] = Stage[f]
      BY <1>5, <2>1, HandlerMoves DEF GetRuleCooldown, HoldingSteps, CallStage
    <3>. QED
      BY <1>0, <1>5, <3>1, <3>2, BreaksOff DEF GetRuleCooldown
  <2>2. CASE Reply(c, "read")
    BY <1>1, <1>5, <2>2 DEF GetRuleCooldown
  <2>. QED
    BY <1>5, <2>1, <2>2 DEF GetRuleCooldown
<1>6. CASE CheckCooldown(c)
  <2>1. Stage[e] = "deciding"
    BY <1>0, <1>6, HandlerStage DEF CheckCooldown, HoldingSteps, CallStage
  <2>2. CASE Step(c, "drop")
    <3>1. Stage'[e] = "deciding" /\ \A f \in Events \ {e} : Stage'[f] = Stage[f]
      BY <1>6, <2>2, HandlerMoves DEF CheckCooldown, HoldingSteps, CallStage
    <3>. QED
      BY <1>0, <1>6, <2>1, <3>1, BreaksOff DEF CheckCooldown
  <2>3. CASE Reply(c, "send")
    <3>1. Stage'[e] \in {"idle", "sending"} /\ \A f \in Events \ {e} : Stage'[f] = Stage[f]
      BY <1>6, <2>3, ReplyMoves DEF CheckCooldown, HoldingSteps, HoldingPCs, WorkerStage
    <3>2. UNCHANGED <<row, tg, errs, dlt>> /\ e \in Events
      BY <1>0, <1>6 DEF CheckCooldown
    <3>3. CASE Stage'[e] = "idle"
      BY <3>1, <3>2, <3>3, BreaksOff
    <3>4. CASE Stage'[e] = "sending"
      <4>1. Stage' = [Stage EXCEPT ![e] = "sending"]
        BY <3>1, <3>2, <3>4, OneMoves
      <4>. QED
        BY <2>1, <3>2, <4>1 DEF Promise!Next, Promise!Admit, Promise!Move
    <3>. QED
      BY <3>1, <3>3, <3>4
  <2>. QED
    BY <1>6, <2>2, <2>3 DEF CheckCooldown
<1>7. CASE MarkDropped(c)
  <2>1. Stage[e] = "deciding"
    BY <1>0, <1>7, HandlerStage DEF MarkDropped, HoldingSteps, CallStage
  <2>2. Stage'[e] = "idle" /\ \A f \in Events \ {e} : Stage'[f] = Stage[f]
    BY <1>7, ReplyMoves DEF MarkDropped, HoldingSteps, HoldingPCs
  <2>3. Stage' = [Stage EXCEPT ![e] = "idle"] /\ e \in Events
    BY <1>0, <1>7, <2>2, OneMoves DEF MarkDropped
  <2>. QED
    BY <1>7, <2>1, <2>3 DEF MarkDropped, Mark, Promise!Next, Promise!Drop, Promise!Record, Promise!Move
<1>8. CASE MarkSent(c)
  <2>1. Stage[e] = "told"
    BY <1>0, <1>8, HandlerStage DEF MarkSent, HoldingSteps, CallStage
  <2>2. Stage'[e] = "idle" /\ \A f \in Events \ {e} : Stage'[f] = Stage[f]
    BY <1>8, ReplyMoves DEF MarkSent, HoldingSteps, HoldingPCs
  <2>3. Stage' = [Stage EXCEPT ![e] = "idle"] /\ e \in Events
    BY <1>0, <1>8, <2>2, OneMoves DEF MarkSent
  <2>. QED
    BY <1>8, <2>1, <2>3 DEF MarkSent, Mark, Promise!Next, Promise!RecordSent, Promise!Record, Promise!Move
<1>9. CASE MarkFailed(c)
  <2>1. Stage[e] = "exhausted"
    BY <1>0, <1>9, HandlerStage DEF MarkFailed, HoldingSteps, CallStage
  <2>2. Stage'[e] \in {"idle", "burying"} /\ \A f \in Events \ {e} : Stage'[f] = Stage[f]
    BY <1>9, ReplyMoves DEF MarkFailed, HoldingSteps, HoldingPCs, WorkerStage
  <2>3. Stage' = [Stage EXCEPT ![e] = Stage'[e]] /\ e \in Events
    BY <1>0, <1>9, <2>2, OneMoves DEF MarkFailed
  <2>. QED
    BY <1>9, <2>1, <2>2, <2>3
       DEF MarkFailed, Mark, Promise!Next, Promise!RecordFailed, Promise!Record, Promise!Move
<1>. QED
  BY <1>2, <1>3, <1>4, <1>5, <1>6, <1>7, <1>8, <1>9 DEF HandlerStep

\* The worker: a call hands the token on, a send is a step of the conversation.
LEMMA PromiseWorker ==
    ASSUME IInv, OneToken', NEW w \in Workers, WorkerStep(w) \/ SendTimeout(w)
    PROVE  [Promise!Next]_Promise!vars
<1> DEFINE e == event[w]
<1> USE DEF topics, tables, chat, bounds
<1>0. TypeOK /\ OneToken /\ WorkerInv /\ (pc[w] # "read" => e \in Events)
  BY DEF IInv, ClientInv, DeliveryInv
<1>1. ASSUME NEW f \in Events, ReadMessage(w, f) PROVE UNCHANGED Promise!vars
  <2>1. \A g \in Events : Stage'[g] = Stage[g]
    BY <1>0, <1>1, SameStage DEF ReadMessage, HoldingPCs, TypeOK
  <2>. QED
    BY <1>1, <2>1, NoneMoves DEF ReadMessage, Promise!vars
<1>2. ASSUME NEW c \in Calls, CallReserve(w, c) PROVE UNCHANGED Promise!vars
  <2>1. StartCall(w, c, "insert", "reserving") /\ pc[w] = "reserve"
    BY <1>2 DEF CallReserve
  <2>2. \A g \in Events : Stage'[g] = Stage[g]
    BY <1>0, <2>1, StartFacts, SameStage DEF HoldingPCs, HoldingSteps
  <2>. QED
    BY <2>1, <2>2, NoneMoves DEF StartCall, Promise!vars
<1>3. ASSUME NEW c \in Calls, CallFinalize(w, c) PROVE UNCHANGED Promise!vars
  <2>1. StartCall(w, c, pc[w], "finalizing") /\ pc[w] \in {"sent", "failed"}
    BY <1>3 DEF CallFinalize, FinalizeSteps
  <2>2. /\ \A d \in Calls : d # c => rpc'[d] = rpc[d]
        /\ rpc'[c].step = pc[w] /\ rpc'[c].event = e /\ rpc[c].step = "free"
        /\ \A v \in Workers : pc'[v] = IF v = w THEN "finalizing" ELSE pc[v]
        /\ event' = event
    BY <1>0, <2>1, StartFacts
  <2>3. ASSUME NEW f \in Events \ {e} PROVE Stage'[f] = Stage[f]
    BY <2>2, <2>3, SameStage DEF HoldingSteps, HoldingPCs
  <2>4. Stage[e] = WorkerStage(pc[w])
    BY <1>0, <2>1, HolderStage DEF HoldingPCs
  <2>5. Stage'[e] = CallStage(pc[w])
    BY <1>0, <2>1, <2>2, StagesAfter DEF HoldingSteps
  <2>6. \A f \in Events : Stage'[f] = Stage[f]
    BY <2>1, <2>3, <2>4, <2>5 DEF CallStage, WorkerStage
  <2>. QED
    BY <2>1, <2>6, NoneMoves DEF StartCall, Promise!vars
<1>4. ASSUME pc[w] = "send" PROVE e \in Events /\ Stage[e] = "sending" /\ errs[e] = attempt[w] - 1 /\ attempt[w] \in Nat
  BY <1>0, <1>4, HolderStage DEF HoldingPCs, WorkerStage, WorkerInv, TypeOK
<1>5. ASSUME NEW q \in HoldingPCs, pc[w] # "read", pc' = [pc EXCEPT ![w] = q], UNCHANGED <<event, rpc>>
      PROVE  Stage' = [Stage EXCEPT ![e] = WorkerStage(q)]
  <2>1. pc'[w] = q /\ \A v \in Workers : v # w => pc'[v] = pc[v]
    BY <1>0, <1>5 DEF TypeOK
  <2>2. Stage'[e] = WorkerStage(q) /\ \A f \in Events \ {e} : Stage'[f] = Stage[f]
    BY <1>0, <1>5, <2>1, WorkerMoves
  <2>. QED
    BY <1>0, <1>5, <2>2, OneMoves
<1>6. CASE SendOk(w)
  <2>1. Stage' = [Stage EXCEPT ![e] = "told"]
    BY <1>5, <1>6 DEF SendOk, HoldingPCs, WorkerStage
  <2>. QED
    BY <1>4, <1>6, <2>1 DEF SendOk, Promise!Next, Promise!Deliver, Promise!Move
<1>7. ASSUME pc[w] = "send", AfterError(w), UNCHANGED <<event, rpc, row, dlt>>,
             tg' = tg \/ tg' = [tg EXCEPT ![e] = @ + 1]
      PROVE  Promise!Next
  <2>1. Stage' = [Stage EXCEPT ![e] = IF attempt[w] < RetryAttempts THEN "sending" ELSE "exhausted"]
    BY <1>5, <1>7 DEF AfterError, HoldingPCs, WorkerStage
  <2>2. attempt[w] = errs[e] + 1
    BY <1>4, <1>7
  <2>. QED
    BY <1>4, <1>7, <2>1, <2>2 DEF AfterError, Promise!Next, Promise!Refuse, Promise!Move
<1>8. CASE SendError(w) \/ SendTimeout(w)
  BY <1>7, <1>8 DEF SendError, SendTimeout
<1>9. CASE Backoff(w)
  <2>1. Stage' = [Stage EXCEPT ![e] = "sending"]
    BY <1>5, <1>9 DEF Backoff, HoldingPCs, WorkerStage
  <2>2. Stage[e] = "sending"
    BY <1>0, <1>9, HolderStage DEF Backoff, HoldingPCs, WorkerStage
  <2>3. Stage' = Stage
    BY <2>1, <2>2 DEF Stage
  <2>. QED
    BY <1>9, <2>3 DEF Backoff, Promise!vars
<1>10. CASE PublishDLT(w)
  <2>1. Stage[e] = "burying" /\ e \in Events
    BY <1>0, <1>10, HolderStage DEF PublishDLT, HoldingPCs, WorkerStage
  <2>2. pc'[w] = "read" /\ (\A v \in Workers : v # w => pc'[v] = pc[v]) /\ UNCHANGED <<event, rpc>>
    BY <1>0, <1>10 DEF PublishDLT, TypeOK
  <2>3. Stage'[e] \in {"idle", Stage[e]} /\ \A f \in Events \ {e} : Stage'[f] = Stage[f]
    BY <2>1, <2>2, WorkerMoves DEF HoldingPCs
  <2>4. ASSUME NEW f \in Events, f = e PROVE Stage'[f] = "idle"
    <3>1. NoToken(f)'
      BY <1>0, <1>10, <2>2, <2>4 DEF NoToken, OneToken, SamePair, PublishDLT, HoldingPCs
    <3>. QED
      BY <3>1, StagesAfter
  <2>5. Stage' = [Stage EXCEPT ![e] = "idle"]
    BY <2>1, <2>3, <2>4, OneMoves
  <2>. QED
    BY <1>10, <2>1, <2>5 DEF PublishDLT, Promise!Next, Promise!Bury, Promise!Move
<1>. QED
  BY <1>1, <1>2, <1>3, <1>6, <1>8, <1>9, <1>10 DEF WorkerStep

\* What is lost or fails breaks a conversation off, wherever it is.
LEMMA PromiseFault ==
    ASSUME IInv, OneToken', FaultStep
    PROVE  [Promise!Next]_Promise!vars
<1> USE DEF topics, tables, chat, bounds, HandlerFrame
<1>0. TypeOK /\ ClientInv /\ OneToken
  BY DEF IInv, DeliveryInv
<1>1. ASSUME NEW w \in Workers, pc[w] # "read", pc' = [pc EXCEPT ![w] = "read"],
             UNCHANGED <<event, row, tg, errs, dlt>>,
             \A c \in Calls : rpc'[c].step = rpc[c].step /\ rpc'[c].event = rpc[c].event
      PROVE  [Promise!Next]_Promise!vars
  <2>1. pc'[w] = "read" /\ (\A v \in Workers : v # w => pc'[v] = pc[v]) /\ event[w] \in Events
    BY <1>0, <1>1 DEF TypeOK, ClientInv
  <2>. QED
    BY <1>1, <2>1, WorkerMoves, BreaksOff DEF HoldingPCs
<1>2. ASSUME NEW c \in Calls, rpc[c].step # "free", Reply(c, "read"), UNCHANGED <<event, row, tg, errs, dlt>>
      PROVE  [Promise!Next]_Promise!vars
  BY <1>0, <1>2, ReplyMoves, BreaksOff DEF HoldingPCs, ClientInv
<1>3. ASSUME NEW w \in Workers, NEW e \in Events, CommitFails(w, e) PROVE [Promise!Next]_Promise!vars
  BY <1>3, Quiet DEF CommitFails, worker
<1>4. ASSUME NEW w \in Workers, TokenError(w) PROVE [Promise!Next]_Promise!vars
  BY <1>1, <1>4 DEF TokenError
<1>5. ASSUME NEW w \in Workers, Disconnect(w) PROVE [Promise!Next]_Promise!vars
  BY <1>0, <1>1, <1>5, OrphanFacts DEF Disconnect
<1>6. ASSUME NEW w \in Workers, Crash(w) PROVE [Promise!Next]_Promise!vars
  BY <1>0, <1>1, <1>6, OrphanFacts DEF Crash
<1>7. ASSUME NEW w \in Workers, PublishDLTFails(w) PROVE [Promise!Next]_Promise!vars
  BY <1>1, <1>7 DEF PublishDLTFails
<1>8. ASSUME NEW c \in Calls, DbError(c) \/ HandlerCancelled(c) PROVE [Promise!Next]_Promise!vars
  BY <1>2, <1>8 DEF DbError, HandlerCancelled
<1>. QED
  BY <1>3, <1>4, <1>5, <1>6, <1>7, <1>8, PromiseWorker DEF FaultStep

\* The producer and the clock are no part of the promise; deletions are a cascade.
LEMMA PromiseEnvironment ==
    ASSUME EnvironmentStep
    PROVE  [Promise!Next]_Promise!vars
<1> USE DEF topics, tables, worker, chat, bounds
<1>1. UNCHANGED Stage
  BY Quiet DEF EnvironmentStep, Publish, SaveNews, DeleteNews, DeleteRule, Tick, Stage, StageOf, Handled, Worked
<1>2. ASSUME NEW n \in News, DeleteNews(n) PROVE Promise!Next
  <2>1. row' = [e \in Events |-> IF e \in {f \in Events : NewsOf[f] = n} THEN "none" ELSE row[e]]
    BY <1>2 DEF DeleteNews
  <2>. QED
    BY <1>1, <1>2, <2>1 DEF DeleteNews, Promise!Next, Promise!Cascade
<1>3. ASSUME NEW r \in Rules, DeleteRule(r) PROVE Promise!Next
  <2>1. row' = [e \in Events |-> IF e \in {f \in Events : RuleOf[f] = r} THEN "none" ELSE row[e]]
    BY <1>3 DEF DeleteRule
  <2>. QED
    BY <1>1, <1>3, <2>1 DEF DeleteRule, Promise!Next, Promise!Cascade
<1>. QED
  BY <1>1, <1>2, <1>3 DEF EnvironmentStep, Publish, SaveNews, Tick, Promise!vars

\* The workers, handlers and queues of the code deliver alerts as one
\* conversation per pair of rule and news item would: for every number of
\* workers, handlers, copies, faults, crashes and deletions.
THEOREM Implements == Spec => KeepsPromise
<1>1. IInv /\ IInv' /\ [Next]_vars => [Promise!Next]_Promise!vars
  <2>1. SUFFICES ASSUME IInv, IInv', [Next]_vars PROVE [Promise!Next]_Promise!vars
    OBVIOUS
  <2>2. OneToken'
    BY <2>1 DEF IInv, DeliveryInv
  <2>3. CASE Next
    BY <2>1, <2>2, <2>3, PromiseHandler, PromiseWorker, PromiseFault, PromiseEnvironment DEF Next
  <2>4. CASE UNCHANGED vars
    BY <2>4, Quiet DEF vars
  <2>. QED
    BY <2>1, <2>3, <2>4
<1>. QED
  BY <1>1, Inductive, PromiseInit, PTL DEF Spec, KeepsPromise, Promise!Spec
=============================================================================
