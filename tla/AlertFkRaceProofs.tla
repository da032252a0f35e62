-------------------------- MODULE AlertFkRaceProofs --------------------------
(***************************************************************************)
(* Which settings keep alerts: when the flush period and the latencies fit *)
(* into the retry window of the handler, for whatever values, no alert is  *)
(* refused but that of an item whose save failed.                          *)
(***************************************************************************)
EXTENDS AlertFkRace, TLAPS

USE RaceAssumption DEF InsertAttempts

-----------------------------------------------------------------------------
\* The pause after the given attempt, and the time slept before it.
PauseAfter(k) ==
    IF k = 1 THEN InitialBackoff ELSE IF k = 2 THEN Pause2 ELSE IF k = 3 THEN Pause3 ELSE Pause4

SleptBefore(k) ==
    IF k = 1 THEN 0
    ELSE IF k = 2 THEN InitialBackoff
    ELSE IF k = 3 THEN InitialBackoff + Pause2
    ELSE IF k = 4 THEN InitialBackoff + Pause2 + Pause3
    ELSE RetryWindow

\* The time of the first insert; before it, the earliest time it can have.
Start == IF handler = "waiting" THEN wakeAt - SleptBefore(attempt) ELSE now

\* The backoff is the one of the attempt, and a waiting handler never oversleeps.
HandlerInv ==
    /\ handler = "idle" => attempt = 1
    /\ handler = "waiting" => now <= wakeAt /\ item # "processing"
    /\ attempt <= 4 => backoff = PauseAfter(attempt)

\* An item is due at most so long after the first insert.
ItemInv ==
    handler \in {"idle", "waiting"} =>
        /\ item = "published" => now <= due /\ due <= Start + Latency
        /\ item = "batched"   => now <= due /\ due <= Start + Latency + FlushPeriod
        /\ item = "saving"    => now <= due /\ due <= Start + 2 * Latency + FlushPeriod

IInv == RaceTypeOK /\ HandlerInv /\ ItemInv

\* The pauses are durations.
LEMMA PauseType == /\ Pause2 \in Nat /\ Pause3 \in Nat /\ Pause4 \in Nat /\ RetryWindow \in Nat
                   /\ \A b \in Nat : Capped(2 * b) \in 0 .. MaxBackoff
BY DEF Pause2, Pause3, Pause4, RetryWindow, Capped

\* RaceTypeOK is inductive.
LEMMA TypeStep == RaceTypeOK /\ [RaceNext]_raceVars => RaceTypeOK'
<1> SUFFICES ASSUME RaceTypeOK, [RaceNext]_raceVars PROVE RaceTypeOK'
  OBVIOUS
<1> USE PauseType DEF RaceTypeOK, raceVars, ticker, call
<1>1. CASE PublishAlert BY <1>1 DEF PublishAlert
<1>2. CASE EnterBatch BY <1>2 DEF EnterBatch
<1>3. CASE FlushFull BY <1>3 DEF FlushFull
<1>4. CASE TickerFlush BY <1>4 DEF TickerFlush
<1>5. CASE Save BY <1>5 DEF Save
<1>6. CASE Reserve BY <1>6 DEF Reserve
<1>7. CASE Insert BY <1>7 DEF Insert
<1>8. CASE InsertAgain BY <1>8 DEF InsertAgain, LastAttempt
<1>9. CASE InsertRefused BY <1>9 DEF InsertRefused
<1>10. CASE Tick BY <1>10 DEF Tick
<1>11. CASE SaveFails BY <1>11 DEF SaveFails
<1>12. CASE UNCHANGED raceVars BY <1>12
<1> QED BY <1>1, <1>2, <1>3, <1>4, <1>5, <1>6, <1>7, <1>8, <1>9, <1>10, <1>11, <1>12 DEF RaceNext

\* A further insert is planned one pause after the last one, so that the time
\* of the first insert stays what it was.
LEMMA AgainKeepsStart ==
    ASSUME IInv, InsertAgain
    PROVE  /\ HandlerInv'
           /\ Start' = Start
           /\ wakeAt' >= now
<1> USE PauseType DEF IInv, RaceTypeOK, InsertAgain, LastAttempt, HandlerInv, PauseAfter
<1>1. attempt \in 1 .. 4 /\ backoff = PauseAfter(attempt) /\ backoff \in Nat
  OBVIOUS
<1>2. attempt' <= 4 => backoff' = PauseAfter(attempt')
  BY <1>1 DEF Pause2, Pause3, Pause4
<1>3. SleptBefore(attempt') = SleptBefore(attempt) + backoff
  BY <1>1 DEF SleptBefore, RetryWindow
<1>4. SleptBefore(attempt) \in Nat
  BY <1>1 DEF SleptBefore
<1>5. Start' = Start
  <2>1. Start' = wakeAt' - SleptBefore(attempt')
    BY DEF Start, SleptBefore, RetryWindow
  <2> QED BY <2>1, <1>1, <1>3, <1>4 DEF Start
<1> QED BY <1>1, <1>2, <1>5

\* The strengthened invariant is inductive.
LEMMA InvStep == IInv /\ [RaceNext]_raceVars => IInv'
<1> SUFFICES ASSUME IInv, [RaceNext]_raceVars PROVE HandlerInv' /\ ItemInv'
  BY TypeStep DEF IInv
<1> USE PauseType DEF IInv, RaceTypeOK, HandlerInv, ItemInv, raceVars, ticker, call
<1>0. SleptBefore(attempt) \in Nat /\ SleptBefore(1) = 0 /\ Start \in Int
  BY DEF SleptBefore, Start
<1>1. CASE PublishAlert BY <1>0, <1>1 DEF PublishAlert, Start
<1>2. CASE EnterBatch BY <1>0, <1>2 DEF EnterBatch, Start
<1>3. CASE FlushFull BY <1>0, <1>3 DEF FlushFull, Start
<1>4. CASE TickerFlush BY <1>0, <1>4 DEF TickerFlush, Start
<1>5. CASE Save BY <1>0, <1>5 DEF Save
<1>6. CASE Reserve BY <1>0, <1>6 DEF Reserve, Start, SleptBefore
<1>7. CASE Insert BY <1>0, <1>7 DEF Insert
<1>8. CASE InsertAgain BY <1>0, <1>8, AgainKeepsStart DEF InsertAgain
<1>9. CASE InsertRefused BY <1>0, <1>9 DEF InsertRefused
<1>10. CASE Tick BY <1>0, <1>10 DEF Tick, Start
<1>11. CASE SaveFails BY <1>0, <1>11 DEF SaveFails
<1>12. CASE UNCHANGED raceVars BY <1>0, <1>12 DEF Start
<1> QED BY <1>1, <1>2, <1>3, <1>4, <1>5, <1>6, <1>7, <1>8, <1>9, <1>10, <1>11, <1>12 DEF RaceNext

\* The initial state has the strengthened invariant.
LEMMA InvInit == RaceInit => IInv
BY PauseType DEF RaceInit, IInv, RaceTypeOK, HandlerInv, ItemInv, PauseAfter

\* In a state with the invariant a handler refuses the alert of a lost item
\* only, if an item's longest way into the table is shorter than the retry
\* window.
LEMMA OnlyLostRefused ==
    ASSUME FlushPeriod + 2 * Latency < RetryWindow, IInv, InsertRefused
    PROVE  item = "lost"
<1> SUFFICES ASSUME item # "lost" PROVE FALSE
  OBVIOUS
<1> USE PauseType DEF IInv, RaceTypeOK, InsertRefused, LastAttempt
<1>1. attempt = 5 /\ handler = "waiting" /\ now = wakeAt
  OBVIOUS
<1>2. Start \in Int /\ Start + RetryWindow = now
  BY <1>1 DEF Start, SleptBefore
<1>3. item \in {"published", "batched", "saving"}
  BY DEF HandlerInv
<1>4. now <= Start + 2 * Latency + FlushPeriod
  BY <1>1, <1>2, <1>3 DEF ItemInv
<1> QED BY <1>2, <1>4

-----------------------------------------------------------------------------
\* Type correctness, with the range of the attempt counter and of the ticker.
THEOREM RaceTypeCorrect == RaceSpec => []RaceTypeOK
<1>1. RaceInit => RaceTypeOK BY InvInit DEF IInv
<1> QED BY <1>1, TypeStep, PTL DEF RaceSpec

\* The settings under which createPendingEventWithRetry covers saveBatcher: with
\* a flush period plus latencies below the retry window, an alert is refused
\* only when the save of its item failed.
THEOREM WindowCoversFlush ==
    FlushPeriod + 2 * Latency < RetryWindow => (RaceSpec => []AlertSurvives)
<1> SUFFICES ASSUME FlushPeriod + 2 * Latency < RetryWindow
             PROVE  RaceSpec => []AlertSurvives
  OBVIOUS
<1>1. RaceInit => IInv /\ AlertSurvives
  BY InvInit DEF RaceInit, AlertSurvives
<1>2. ASSUME IInv, AlertSurvives, [RaceNext]_raceVars PROVE AlertSurvives'
  <2> USE <1>2 DEF AlertSurvives
  <2>1. CASE InsertRefused BY <2>1, OnlyLostRefused DEF InsertRefused
  <2>2. CASE PublishAlert \/ EnterBatch \/ FlushFull \/ TickerFlush
    BY <2>2 DEF PublishAlert, EnterBatch, FlushFull, TickerFlush, call
  <2>3. CASE Save \/ SaveFails BY <2>3 DEF Save, SaveFails, call
  <2>4. CASE Reserve \/ Insert \/ InsertAgain BY <2>4 DEF Reserve, Insert, InsertAgain
  <2>5. CASE Tick \/ UNCHANGED raceVars BY <2>5 DEF Tick, raceVars, call
  <2> QED BY <2>1, <2>2, <2>3, <2>4, <2>5 DEF RaceNext
<1> QED BY <1>1, <1>2, InvStep, PTL DEF RaceSpec
=============================================================================
