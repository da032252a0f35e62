---------------------------- MODULE AlertPromise -----------------------------
(***************************************************************************)
(* What the delivery of alerts promises, without workers, gRPC handlers,   *)
(* copies in Kafka, lost answers and crashes: a pair of rule and news item *)
(* is handled once, by a conversation with the chat that goes through its  *)
(* stages in order and may break off at any of them, and the row and the   *)
(* dead letter topic record no more than what that conversation did.       *)
(* AlertDelivery is shown to implement it.                                 *)
(***************************************************************************)
EXTENDS Integers

CONSTANTS Events, Pair, RetryAttempts  \* Pair[e]: the rule and the news item of e

VARIABLES
    stage,  \* of the conversation about an event
    row,    \* delivery_status, "none" without a row
    tg,     \* messages that reached the chat
    errs,   \* sends that returned an error
    dlt     \* the dead letter topic

vars == <<stage, row, tg, errs, dlt>>

Init ==
    /\ stage = [e \in Events |-> "idle"]
    /\ row = [e \in Events |-> "none"]
    /\ tg = [e \in Events |-> 0] /\ errs = [e \in Events |-> 0]
    /\ dlt = {}

Untouched(e) == stage[e] = "idle" /\ row[e] = "none" /\ tg[e] = 0 /\ errs[e] = 0

Move(e, from, to) == stage[e] = from /\ stage' = [stage EXCEPT ![e] = to]

\* A row that was removed with its rule or its news item does not come back.
Record(e, status) == row' = [row EXCEPT ![e] = IF @ = "none" THEN @ ELSE status]

\* The first event of a pair, and it alone.
Reserve(e) ==
    /\ row' = [row EXCEPT ![e] = "pending"] /\ UNCHANGED <<tg, errs, dlt>>
    /\ Move(e, "idle", "deciding")
    /\ \A f \in Events : Pair[f] = Pair[e] => Untouched(f)

\* The cooldown has passed, or the event is dropped.
Admit(e) == UNCHANGED <<row, tg, errs, dlt>> /\ Move(e, "deciding", "sending")

Drop(e) == Record(e, "dropped") /\ UNCHANGED <<tg, errs, dlt>> /\ Move(e, "deciding", "idle")

Deliver(e) ==
    /\ tg' = [tg EXCEPT ![e] = @ + 1] /\ UNCHANGED <<row, errs, dlt>>
    /\ Move(e, "sending", "told")

\* An error, with which the message may have reached the chat.
Refuse(e) ==
    /\ errs' = [errs EXCEPT ![e] = @ + 1] /\ UNCHANGED <<row, dlt>>
    /\ UNCHANGED tg \/ tg' = [tg EXCEPT ![e] = @ + 1]
    /\ Move(e, "sending", IF errs[e] + 1 < RetryAttempts THEN "sending" ELSE "exhausted")

RecordSent(e) == Record(e, "sent") /\ UNCHANGED <<tg, errs, dlt>> /\ Move(e, "told", "idle")

RecordFailed(e) ==
    /\ Record(e, "failed") /\ UNCHANGED <<tg, errs, dlt>>
    /\ Move(e, "exhausted", "burying") \/ Move(e, "exhausted", "idle")

Bury(e) == dlt' = dlt \cup {e} /\ UNCHANGED <<row, tg, errs>> /\ Move(e, "burying", "idle")

BreakOff(e) == UNCHANGED <<row, tg, errs, dlt>> /\ stage' = [stage EXCEPT ![e] = "idle"]

\* The rows of a rule or a news item that is deleted.
Cascade ==
    /\ \E S \in SUBSET Events : row' = [e \in Events |-> IF e \in S THEN "none" ELSE row[e]]
    /\ UNCHANGED <<tg, errs, dlt, stage>>

Next ==
    \/ \E e \in Events :
          \/ Reserve(e) \/ Admit(e) \/ Drop(e) \/ Deliver(e) \/ Refuse(e)
          \/ RecordSent(e) \/ RecordFailed(e) \/ Bury(e) \/ BreakOff(e)
    \/ Cascade

Spec == Init /\ [][Next]_vars
=============================================================================
