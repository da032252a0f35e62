--------------------------- MODULE CollectorProofs ---------------------------
(***************************************************************************)
(* news-collector for any number of sources, URLs, overlapping rounds,     *)
(* workers, errors of Redis and Kafka, and restarts: how often a URL is    *)
(* published, that none disappears, and, where rounds do not overlap, when *)
(* a source is collected and for how long it is deactivated.               *)
(***************************************************************************)
EXTENDS Collector, FiniteSetTheorems, TLAPS

-----------------------------------------------------------------------------
(* The inductive invariant *)

JobType == [step : Steps, left : SUBSET Urls, fresh : SUBSET Urls, deacts : Nat]

\* TypeOK without the semaphore.
Kinds ==
    /\ sources \subseteq Sources
    /\ round \in [Rounds -> [phase : {"idle", "check", "collect"}, todo : SUBSET Sources,
                             pick : Sources \cup {NoSource}]]
    /\ job \in [Rounds -> [Sources -> JobType]]
    /\ fired \in Int /\ lastAt \in [Sources -> Int] /\ collectedAt \in [Sources -> Int]
    /\ errorCount \in [Sources -> Nat] /\ deactCount \in [Sources -> Nat]
    /\ deactUntil \in [Sources -> Int] /\ seenUntil \in [Urls -> Nat]
    /\ published \in [Urls -> Nat] /\ lost \subseteq Urls
    /\ now \in Nat /\ faults \in Nat /\ crashes \in Nat

Waiting == {"none", "queued"}

\* Jobs run in the last phase of their round, and hold URLs between the filter
\* and the publish.
Flow ==
    /\ \A r \in Rounds, s \in Sources :
          /\ job[r][s].step \notin {"filter", "publish"} => job[r][s].fresh = {}
          /\ round[r].phase # "collect" => job[r][s].step \in Waiting
    /\ \A r \in Rounds : round[r].pick # NoSource => round[r].phase = "check" /\ round[r].pick \in round[r].todo

\* The semaphore.
Workers == \A r \in Rounds : IsFiniteSet(Running(r)) /\ Cardinality(Running(r)) <= MaxWorkers

\* The jobs that are about to publish a URL.
Holders(u) == {x \in Rounds \X Sources : u \in job[x[1]][x[2]].fresh}

\* Each life of the key of a URL, k of them so far, makes one job its publisher;
\* every further copy takes an error.
Copies(u, k) ==
    /\ published[u] + Cardinality(Holders(u)) <= k + faults
    /\ k * DedupTTL <= seenUntil[u]

Life(u) ==
    /\ IsFiniteSet(Holders(u))
    /\ seenUntil[u] <= now + DedupTTL
    /\ \E k \in Nat : Copies(u, k)

Lives == \A u \in Urls : Life(u)

IInv == Kinds /\ Flow /\ Workers /\ Lives /\ SeenAccounted

-----------------------------------------------------------------------------
USE CollectorAssumption

\* The backoff is a number; that it is not negative would take induction.
LEMMA BackoffType == ASSUME NEW n \in Nat PROVE CalcBackoff(n) \in Int
<1>1. \A k \in Nat : BaseBackoff * 2^k \in Int
  <2> TAKE k \in Nat
  <2>1. 2^k \in Int
    OBVIOUS
  <2> QED
    BY <2>1
<1>2. (IF n <= 10 THEN n ELSE 10) \in Nat
  OBVIOUS
<1> QED
  BY <1>1, <1>2 DEF CalcBackoff

\* A step of the job of round r and source s makes it j.
Moves(r, s, j) == job' = [job EXCEPT ![r][s] = j]

LEMMA Moved ==
    ASSUME Kinds, NEW r \in Rounds, NEW s \in Sources, NEW j \in JobType, Moves(r, s, j)
    PROVE  /\ job' \in [Rounds -> [Sources -> JobType]]
           /\ \A q \in Rounds, t \in Sources : job'[q][t] = IF q = r /\ t = s THEN j ELSE job[q][t]
BY DEF Kinds, Moves

\* Goto changes the step of a job alone.
LEMMA GotoMoves ==
    ASSUME Kinds, NEW r \in Rounds, NEW s \in Sources, NEW step \in Steps, Goto(r, s, step)
    PROVE  \E j \in JobType : Moves(r, s, j) /\ j = [job[r][s] EXCEPT !.step = step]
<1>1. job \in [Rounds -> [Sources -> JobType]]
  BY DEF Kinds
<1>2. job[r][s] \in JobType
  BY <1>1
<1>3. [job[r][s] EXCEPT !.step = step] \in JobType
  BY <1>2 DEF JobType
<1>4. job' = [job EXCEPT ![r] = [job[r] EXCEPT ![s] = [job[r][s] EXCEPT !.step = step]]]
  BY <1>1 DEF Goto
<1>5. Moves(r, s, [job[r][s] EXCEPT !.step = step])
  BY <1>1, <1>4 DEF Moves
<1> QED
  BY <1>3, <1>5

\* Every step of a job but Acquire leaves a running job running or ends it.
LEMMA SlotsKept ==
    ASSUME Kinds, Workers, NEW r \in Rounds, NEW s \in Sources, NEW j \in JobType, Moves(r, s, j),
           j.step \notin Waiting => job[r][s].step \notin Waiting
    PROVE  Workers'
<1> SUFFICES ASSUME NEW q \in Rounds PROVE IsFiniteSet(Running(q)') /\ Cardinality(Running(q)') <= MaxWorkers
  BY DEF Workers
<1>1. Running(q)' \subseteq Running(q)
  BY Moved DEF Running, Waiting
<1>2. IsFiniteSet(Running(q)) /\ Cardinality(Running(q)) <= MaxWorkers
  BY DEF Workers
<1>3. IsFiniteSet(Running(q)') /\ Cardinality(Running(q)') <= Cardinality(Running(q))
  BY <1>1, <1>2, FS_Subset
<1>4. Cardinality(Running(q)') \in Nat /\ Cardinality(Running(q)) \in Nat
  BY <1>2, <1>3, FS_CardinalityType
<1> QED
  BY <1>2, <1>3, <1>4

LEMMA SlotTaken ==
    ASSUME Kinds, Workers, NEW r \in Rounds, NEW s \in Sources, Acquire(r, s)
    PROVE  Workers'
<1>1. PICK j \in JobType : Moves(r, s, j)
  BY GotoMoves DEF Acquire, Steps
<1> SUFFICES ASSUME NEW q \in Rounds PROVE IsFiniteSet(Running(q)') /\ Cardinality(Running(q)') <= MaxWorkers
  BY DEF Workers
<1>2. Running(q)' \subseteq IF q = r THEN Running(q) \cup {s} ELSE Running(q)
  BY <1>1, Moved DEF Running
<1>3. IsFiniteSet(Running(q)) /\ Cardinality(Running(q)) <= MaxWorkers /\ Cardinality(Running(q)) \in Nat
  BY FS_CardinalityType DEF Workers
<1>4. IsFiniteSet(Running(q) \cup {s}) /\ Cardinality(Running(q) \cup {s}) <= Cardinality(Running(q)) + 1
  <2>1. /\ IsFiniteSet(Running(q) \cup {s})
        /\ Cardinality(Running(q) \cup {s}) = IF s \in Running(q) THEN Cardinality(Running(q)) ELSE Cardinality(Running(q)) + 1
    BY <1>3, FS_AddElement
  <2> QED
    BY <1>3, <2>1
<1>5. /\ IsFiniteSet(Running(q)')
      /\ q = r => Cardinality(Running(q)') <= Cardinality(Running(q) \cup {s})
      /\ q # r => Cardinality(Running(q)') <= Cardinality(Running(q))
  BY <1>2, <1>3, <1>4, FS_Subset
<1>6. Cardinality(Running(q)') \in Nat /\ Cardinality(Running(q) \cup {s}) \in Nat
  BY <1>4, <1>5, FS_CardinalityType
<1>7. q = r => Cardinality(Running(q)) < MaxWorkers
  BY DEF Acquire
<1> QED
  BY <1>3, <1>4, <1>5, <1>6, <1>7

-----------------------------------------------------------------------------
(* What the steps of a job do *)

LEMMA NoJobType == NoJob \in JobType
BY DEF NoJob, JobType, Steps

\* What a step of the job of r and s may change besides it.
Beside ==
    /\ UNCHANGED <<sources, round, fired, now, crashes>>
    /\ faults' \in Nat /\ faults' >= faults

\* Such a step keeps the URLs in flight, or there are none.
Quietly(r, s, j) ==
    /\ Moves(r, s, j) /\ j.fresh = job[r][s].fresh
    /\ j.step \notin {"filter", "publish"} => j.fresh = {}
    /\ j.step \notin Waiting => job[r][s].step \notin Waiting \/ Acquire(r, s)

QuietStep(r, s) ==
    \/ Acquire(r, s) \/ ParseOk(r, s) \/ ParseFails(r, s)
    \/ SetCollected(r, s) \/ ResetErrors(r, s) \/ SetCollectedError(r, s) \/ ResetError(r, s)
    \/ Filtered(r, s)
    \/ IncrementErrorCount(r, s) \/ GetDeactivationCount(r, s) \/ GetDeactivationError(r, s)
    \/ LocallyDeactivate(r, s) \/ DeactivateError(r, s) \/ ResetAfter(r, s) \/ CountError(r, s)
    \/ ResetAfterError(r, s)

\* A call that was sent again took as many lost replies.
LEMMA ResentCounts ==
    ASSUME Kinds, NEW n \in 0..RedisRetries, Resent(n)
    PROVE  n \in Nat /\ faults' \in Nat /\ faults' >= faults
BY DEF Resent, Kinds

LEMMA QuietBeside ==
    ASSUME Kinds, NEW r \in Rounds, NEW s \in Sources, QuietStep(r, s)
    PROVE  Beside /\ UNCHANGED <<seenUntil, published, lost>>
<1>1. UNCHANGED <<sources, round, fired, now, crashes, seenUntil, published, lost>>
  BY DEF QuietStep, Acquire, ParseOk, ParseFails, SetCollected, ResetErrors, SetCollectedError, ResetError,
         Filtered, IncrementErrorCount, GetDeactivationCount, GetDeactivationError, LocallyDeactivate,
         DeactivateError, ResetAfter, CountError, ResetAfterError, JobFrame, redis, kafka
<1>2. faults' \in Nat /\ faults' >= faults
  <2>1. CASE IncrementErrorCount(r, s) \/ LocallyDeactivate(r, s)
    BY <2>1, ResentCounts DEF IncrementErrorCount, LocallyDeactivate
  <2>2. CASE ~(IncrementErrorCount(r, s) \/ LocallyDeactivate(r, s))
    BY <2>2
    DEF QuietStep, Acquire, ParseOk, ParseFails, SetCollected, ResetErrors, SetCollectedError, ResetError,
        Filtered, GetDeactivationCount, GetDeactivationError, DeactivateError, ResetAfter, CountError,
        ResetAfterError, Fault, Kinds
  <2> QED
    BY <2>1, <2>2
<1> QED
  BY <1>1, <1>2 DEF Beside

LEMMA GoesQuietly ==
    ASSUME Kinds, Flow, NEW r \in Rounds, NEW s \in Sources, NEW step \in Steps, Goto(r, s, step),
           step \notin {"filter", "publish"} => job[r][s].fresh = {},
           step \notin Waiting => job[r][s].step \notin Waiting \/ Acquire(r, s)
    PROVE  \E j \in JobType : Quietly(r, s, j)
<1>1. PICK j \in JobType : Moves(r, s, j) /\ j = [job[r][s] EXCEPT !.step = step]
  BY GotoMoves
<1>2. job[r][s] \in JobType
  BY DEF Kinds
<1>3. j.step = step /\ j.fresh = job[r][s].fresh
  BY <1>1, <1>2 DEF JobType
<1> QED
  BY <1>1, <1>3 DEF Quietly

LEMMA EndsQuietly ==
    ASSUME NEW r \in Rounds, NEW s \in Sources, Finish(r, s), job[r][s].fresh = {}
    PROVE  \E j \in JobType : Quietly(r, s, j)
<1>1. Quietly(r, s, NoJob)
  BY DEF Finish, Quietly, Moves, NoJob, Waiting
<1> QED
  BY <1>1, NoJobType

LEMMA QuietSteps ==
    ASSUME Kinds, Flow, NEW r \in Rounds, NEW s \in Sources, QuietStep(r, s)
    PROVE  /\ \E j \in JobType : Quietly(r, s, j)
           /\ Beside /\ UNCHANGED <<seenUntil, published, lost>>
<1>0. job[r][s] \in JobType /\ (job[r][s].step \notin {"filter", "publish"} => job[r][s].fresh = {})
  BY DEF Kinds, Flow
<1>1. Beside /\ UNCHANGED <<seenUntil, published, lost>>
  BY QuietBeside
<1> SUFFICES \E j \in JobType : Quietly(r, s, j)
  BY <1>1
<1>2. CASE Acquire(r, s)
  BY <1>0, <1>2, GoesQuietly DEF Acquire, Steps
<1>3. CASE ParseOk(r, s)
  <2> DEFINE j == [job[r][s] EXCEPT !.step = "setCollected", !.left = Feed[s]]
  <2>1. j \in JobType /\ j.step = "setCollected" /\ j.fresh = job[r][s].fresh
    BY <1>0 DEF JobType, Steps
  <2>2. Moves(r, s, j)
    BY <1>3 DEF ParseOk, Moves
  <2>3. Quietly(r, s, j)
    <3> HIDE DEF j
    <3> QED
      BY <1>0, <1>3, <2>1, <2>2 DEF ParseOk, Quietly, Waiting
  <2> QED
    BY <2>1, <2>3
<1>4. CASE \/ ParseFails(r, s) \/ SetCollected(r, s) \/ ResetErrors(r, s)
           \/ SetCollectedError(r, s) \/ ResetError(r, s) \/ LocallyDeactivate(r, s)
  <2>1. PICK step \in Steps : Goto(r, s, step)
    BY <1>4 DEF ParseFails, SetCollected, ResetErrors, SetCollectedError, ResetError, LocallyDeactivate, Steps
  <2>2. job[r][s].step \in {"parse", "setCollected", "resetErrors", "deactivate"}
    BY <1>4 DEF ParseFails, SetCollected, ResetErrors, SetCollectedError, ResetError, LocallyDeactivate
  <2> QED
    BY <1>0, <2>1, <2>2, GoesQuietly DEF Waiting
<1>5. CASE Filtered(r, s)
  <2>1. CASE job[r][s].fresh = {} /\ Finish(r, s)
    BY <2>1, EndsQuietly
  <2>2. CASE Goto(r, s, "publish")
    BY <1>5, <2>2, GoesQuietly DEF Filtered, Steps, Waiting
  <2> QED
    BY <1>5, <2>1, <2>2 DEF Filtered
<1>6. CASE \/ IncrementErrorCount(r, s) \/ DeactivateError(r, s) \/ ResetAfter(r, s)
           \/ CountError(r, s) \/ ResetAfterError(r, s)
  <2>1. Finish(r, s) \/ Goto(r, s, "readDeacts")
    BY <1>6 DEF IncrementErrorCount, DeactivateError, ResetAfter, CountError, ResetAfterError
  <2>2. job[r][s].step \in {"countError", "deactivate", "resetAfter"}
    BY <1>6 DEF IncrementErrorCount, DeactivateError, ResetAfter, CountError, ResetAfterError
  <2> QED
    BY <1>0, <2>1, <2>2, EndsQuietly, GoesQuietly DEF Steps, Waiting
<1>7. CASE GetDeactivationCount(r, s) \/ GetDeactivationError(r, s)
  <2>1. PICK d \in Nat : job' = [job EXCEPT ![r][s] = [@ EXCEPT !.step = "deactivate", !.deacts = d]]
    BY <1>7 DEF GetDeactivationCount, GetDeactivationError, Kinds
  <2> DEFINE j == [job[r][s] EXCEPT !.step = "deactivate", !.deacts = d]
  <2>2. j \in JobType /\ j.step = "deactivate" /\ j.fresh = job[r][s].fresh
    BY <1>0 DEF JobType, Steps
  <2>3. Moves(r, s, j)
    BY <2>1 DEF Moves
  <2>4. job[r][s].step = "readDeacts"
    BY <1>7 DEF GetDeactivationCount, GetDeactivationError
  <2>5. Quietly(r, s, j)
    <3> HIDE DEF j
    <3> QED
      BY <1>0, <2>2, <2>3, <2>4 DEF Quietly, Waiting
  <2> QED
    BY <2>2, <2>5
<1> QED
  BY <1>2, <1>3, <1>4, <1>5, <1>6, <1>7 DEF QuietStep

\* The filter takes a URL out of what is left and may add it to what is fresh.
Filters(r, s, u, j) ==
    /\ Moves(r, s, j) /\ j.step = "filter" /\ job[r][s].step = "filter"
    /\ job[r][s].fresh \subseteq j.fresh /\ j.fresh \subseteq job[r][s].fresh \cup {u}
    /\ j.left = job[r][s].left \ {u}

Fresher(r, s, u) == job[r][s].fresh \cup {u}

LEMMA KeptFresh ==
    ASSUME Kinds, NEW r \in Rounds, NEW s \in Sources, NEW u \in Urls,
           job[r][s].step = "filter", Keep(r, s, u, TRUE)
    PROVE  \E j \in JobType : Filters(r, s, u, j) /\ j.fresh = Fresher(r, s, u)
<1> DEFINE j == [job[r][s] EXCEPT !.left = job[r][s].left \ {u}, !.fresh = Fresher(r, s, u)]
<1>1. job \in [Rounds -> [Sources -> JobType]] /\ job[r][s] \in JobType
  BY DEF Kinds
<1>2. j \in JobType /\ j.step = "filter" /\ j.fresh = Fresher(r, s, u) /\ j.left = job[r][s].left \ {u}
  BY <1>1 DEF JobType, Fresher
<1>3. job' = [job EXCEPT ![r] = [job[r] EXCEPT ![s] = j]]
  BY <1>1 DEF Keep, Fresher
<1>4. Moves(r, s, j)
  BY <1>1, <1>3 DEF Moves
<1>5. Filters(r, s, u, j)
  <2> HIDE DEF j
  <2> QED
    BY <1>2, <1>4 DEF Filters, Fresher
<1> QED
  BY <1>2, <1>5

LEMMA KeptOut ==
    ASSUME Kinds, NEW r \in Rounds, NEW s \in Sources, NEW u \in Urls,
           job[r][s].step = "filter", Keep(r, s, u, FALSE)
    PROVE  \E j \in JobType : Filters(r, s, u, j) /\ j.fresh = job[r][s].fresh
<1> DEFINE j == [job[r][s] EXCEPT !.left = job[r][s].left \ {u}, !.fresh = job[r][s].fresh]
<1>1. job \in [Rounds -> [Sources -> JobType]] /\ job[r][s] \in JobType
  BY DEF Kinds
<1>2. j \in JobType /\ j.step = "filter" /\ j.fresh = job[r][s].fresh /\ j.left = job[r][s].left \ {u}
  BY <1>1 DEF JobType
<1>3. job' = [job EXCEPT ![r] = [job[r] EXCEPT ![s] = j]]
  BY <1>1 DEF Keep
<1>4. Moves(r, s, j)
  BY <1>1, <1>3 DEF Moves
<1>5. Filters(r, s, u, j)
  <2> HIDE DEF j
  <2> QED
    BY <1>2, <1>4 DEF Filters
<1> QED
  BY <1>2, <1>5

\* Three ways to publish: each ends the job.
PublishStep(r, s) == Publish(r, s) \/ PublishRetried(r, s) \/ PublishError(r, s)

LEMMA PublishSteps ==
    ASSUME Kinds, NEW r \in Rounds, NEW s \in Sources, PublishStep(r, s)
    PROVE  /\ Moves(r, s, NoJob) /\ job[r][s].step = "publish"
           /\ Beside /\ UNCHANGED redis
<1>1. Moves(r, s, NoJob) /\ job[r][s].step = "publish"
  BY DEF PublishStep, Publish, PublishRetried, PublishError, Finish, Moves
<1>2. Beside /\ UNCHANGED redis
  BY DEF PublishStep, Publish, PublishRetried, PublishError, Beside, JobFrame, Fault, redis, Kinds
<1> QED
  BY <1>1, <1>2

-----------------------------------------------------------------------------
(* Types *)

\* A second's fraction is cut off, and nothing else.
LEMMA CutOff ==
    ASSUME NEW t \in Nat
    PROVE  Unix(t) \in Int /\ 0 <= Unix(t) /\ Unix(t) <= t /\ t < Unix(t) + Second
<1>1. Second \in Nat /\ Second > 0
  OBVIOUS
<1>2. PICK q \in Int : q = t \div Second
  BY <1>1
<1>3. q >= 0 /\ q * Second <= t /\ t < (q + 1) * Second
  BY <1>1, <1>2, SMTT(30)
<1>4. q * Second \in Int /\ (q + 1) * Second = q * Second + Second /\ 0 <= q * Second
  BY <1>1, <1>3, SMTT(30)
<1>5. Unix(t) = q * Second
  BY <1>2 DEF Unix
<1> QED
  BY <1>1, <1>3, <1>4, <1>5

LEMMA StoredTypes ==
    ASSUME Kinds, NEW s \in Sources, StoreCollected(s)
    PROVE  lastAt' \in [Sources -> Int] /\ collectedAt' \in [Sources -> Int]
BY CutOff DEF StoreCollected, Kinds

\* The steps of a job but for job itself.
LEMMA StateTypes ==
    ASSUME Kinds, NEW r \in Rounds, NEW s \in Sources, QuietStep(r, s)
    PROVE  /\ lastAt' \in [Sources -> Int] /\ collectedAt' \in [Sources -> Int]
           /\ errorCount' \in [Sources -> Nat]
           /\ deactCount' \in [Sources -> Nat] /\ deactUntil' \in [Sources -> Int]
<1>0. \A done \in Nat : /\ [errorCount EXCEPT ![s] = @ + done] \in [Sources -> Nat]
                        /\ [deactCount EXCEPT ![s] = @ + done] \in [Sources -> Nat]
  BY DEF Kinds
<1>1. CASE LocallyDeactivate(r, s) \/ DeactivateError(r, s)
  <2>1. job[r][s].deacts \in Nat
    BY DEF Kinds, JobType
  <2>2. now + CalcBackoff(job[r][s].deacts) \in Int
    BY <2>1, BackoffType DEF Kinds
  <2>3. UNCHANGED <<lastAt, collectedAt, errorCount>>
    BY <1>1 DEF LocallyDeactivate, DeactivateError
  <2>4. deactUntil' \in [Sources -> Int]
    BY <1>1, <2>2 DEF LocallyDeactivate, DeactivateError, Kinds
  <2>5. deactCount' \in [Sources -> Nat]
    <3>1. ASSUME LocallyDeactivate(r, s) PROVE deactCount' \in [Sources -> Nat]
      <4>1. PICK n \in 0..RedisRetries : deactCount' = [deactCount EXCEPT ![s] = @ + 1 + n]
        BY <3>1 DEF LocallyDeactivate
      <4> QED
        BY <4>1 DEF Kinds
    <3>2. ASSUME DeactivateError(r, s) PROVE deactCount' \in [Sources -> Nat]
      <4>1. CASE deactCount' = deactCount
        BY <4>1 DEF Kinds
      <4>2. CASE \E done \in Applied : deactCount' = [deactCount EXCEPT ![s] = @ + done]
        <5>1. PICK done \in Applied : deactCount' = [deactCount EXCEPT ![s] = @ + done]
          BY <4>2
        <5>2. done \in Nat
          BY CollectorAssumption DEF Applied
        <5> QED
          BY <5>1, <5>2 DEF Kinds
      <4> QED
        BY <3>2, <4>1, <4>2 DEF DeactivateError
    <3> QED
      BY <1>1, <3>1, <3>2
  <2> QED
    BY <2>3, <2>4, <2>5 DEF Kinds
<1>2. CASE SetCollected(r, s) \/ SetCollectedError(r, s)
  BY <1>2, StoredTypes DEF SetCollected, SetCollectedError, Kinds
<1>3. CASE ResetErrors(r, s) \/ ResetError(r, s) \/ ResetAfter(r, s) \/ ResetAfterError(r, s)
  BY <1>3 DEF ResetErrors, ResetError, ResetAfter, ResetAfterError, Kinds
<1>4. CASE IncrementErrorCount(r, s) \/ CountError(r, s)
  <2>1. UNCHANGED <<lastAt, collectedAt, deactCount, deactUntil>>
    BY <1>4 DEF IncrementErrorCount, CountError
  <2>2. ASSUME IncrementErrorCount(r, s) PROVE errorCount' \in [Sources -> Nat]
    <3>1. PICK n \in 0..RedisRetries : errorCount' = [errorCount EXCEPT ![s] = @ + 1 + n]
      BY <2>2 DEF IncrementErrorCount
    <3> QED
      BY <3>1 DEF Kinds
  <2>3. ASSUME CountError(r, s) PROVE errorCount' \in [Sources -> Nat]
    BY <1>0, <2>3 DEF CountError, Applied
  <2> QED
    BY <1>4, <2>1, <2>2, <2>3 DEF Kinds
<1>5. CASE \/ Acquire(r, s) \/ ParseOk(r, s) \/ ParseFails(r, s) \/ Filtered(r, s)
           \/ GetDeactivationCount(r, s) \/ GetDeactivationError(r, s)
  BY <1>5
  DEF Acquire, ParseOk, ParseFails, Filtered, GetDeactivationCount, GetDeactivationError, redis, Kinds
<1> QED
  BY <1>1, <1>2, <1>3, <1>4, <1>5 DEF QuietStep

LEMMA PublishTypes ==
    ASSUME Kinds, NEW r \in Rounds, NEW s \in Sources, PublishStep(r, s)
    PROVE  published' \in [Urls -> Nat] /\ lost' \subseteq Urls
<1>1. job[r][s].fresh \subseteq Urls
  BY DEF Kinds, JobType
<1>2. CASE Publish(r, s)
  BY <1>2 DEF Publish, Kinds
<1>3. CASE PublishRetried(r, s)
  BY <1>3 DEF PublishRetried, Kinds
<1>4. CASE PublishError(r, s)
  BY <1>1, <1>4 DEF PublishError, Kinds
<1> QED
  BY <1>2, <1>3, <1>4 DEF PublishStep

FilterStep(r, s, u) == IsNewURL(r, s, u) \/ DedupError(r, s, u) \/ DedupResent(r, s, u)

Marks(u) == ~Seen(u) /\ seenUntil' = [seenUntil EXCEPT ![u] = now + DedupTTL]

\* A URL becomes fresh when its key was not there, or by an error; it is lost when
\* SET NX was sent twice.
Filtering(r, s, u, j) ==
    \/ j.fresh = Fresher(r, s, u) /\ UNCHANGED <<faults, lost>> /\ Marks(u)
    \/ j.fresh = job[r][s].fresh /\ UNCHANGED <<faults, lost, seenUntil>> /\ Seen(u)
    \/ /\ j.fresh = Fresher(r, s, u) /\ faults' = faults + 1 /\ lost' = lost
       /\ seenUntil' = seenUntil \/ Marks(u)
    \/ j.fresh = job[r][s].fresh /\ faults' = faults + 1 /\ lost' = lost \cup {u} /\ Marks(u)

LEMMA FilterDoes ==
    ASSUME Kinds, NEW r \in Rounds, NEW s \in Sources, NEW u \in Urls, FilterStep(r, s, u)
    PROVE  /\ UNCHANGED <<sources, round, fired, now, crashes>>
           /\ UNCHANGED <<lastAt, collectedAt, errorCount, deactCount, deactUntil, published>>
           /\ \E j \in JobType : Filters(r, s, u, j) /\ Filtering(r, s, u, j)
<1>1. /\ UNCHANGED <<sources, round, fired, now, crashes>>
      /\ UNCHANGED <<lastAt, collectedAt, errorCount, deactCount, deactUntil, published>>
  BY DEF FilterStep, IsNewURL, DedupError, DedupResent, JobFrame, kafka
<1> SUFFICES \E j \in JobType : Filters(r, s, u, j) /\ Filtering(r, s, u, j)
  BY <1>1
<1>2. job[r][s].step = "filter"
  BY DEF FilterStep, IsNewURL, DedupError, DedupResent
<1>3. CASE IsNewURL(r, s, u) /\ ~Seen(u)
  <2>1. Keep(r, s, u, TRUE) /\ UNCHANGED <<faults, lost>> /\ Marks(u)
    BY <1>3 DEF IsNewURL, Marks, kafka
  <2>2. PICK j \in JobType : Filters(r, s, u, j) /\ j.fresh = Fresher(r, s, u)
    BY <1>2, <2>1, KeptFresh
  <2> QED
    BY <2>1, <2>2 DEF Filtering
<1>4. CASE IsNewURL(r, s, u) /\ Seen(u)
  <2>1. Keep(r, s, u, FALSE) /\ UNCHANGED <<faults, lost, seenUntil>>
    BY <1>4 DEF IsNewURL, kafka
  <2>2. PICK j \in JobType : Filters(r, s, u, j) /\ j.fresh = job[r][s].fresh
    BY <1>2, <2>1, KeptOut
  <2> QED
    BY <1>4, <2>1, <2>2 DEF Filtering
<1>5. CASE DedupError(r, s, u)
  <2>1. /\ Keep(r, s, u, TRUE) /\ faults' = faults + 1 /\ lost' = lost
        /\ seenUntil' = seenUntil \/ Marks(u)
    BY <1>5 DEF DedupError, Fault, Marks, kafka
  <2>2. PICK j \in JobType : Filters(r, s, u, j) /\ j.fresh = Fresher(r, s, u)
    BY <1>2, <2>1, KeptFresh
  <2> QED
    BY <2>1, <2>2 DEF Filtering
<1>6. CASE DedupResent(r, s, u)
  <2>1. Keep(r, s, u, FALSE) /\ faults' = faults + 1 /\ lost' = lost \cup {u} /\ Marks(u)
    BY <1>6 DEF DedupResent, Fault, Marks
  <2>2. PICK j \in JobType : Filters(r, s, u, j) /\ j.fresh = job[r][s].fresh
    BY <1>2, <2>1, KeptOut
  <2> QED
    BY <2>1, <2>2 DEF Filtering
<1> QED
  BY <1>3, <1>4, <1>5, <1>6 DEF FilterStep

\* A round that checks a source, starts or ends.
LEMMA RoundTypes ==
    ASSUME Kinds, NEW r \in Rounds,
           StartRound(r) \/ RoundStep(r) \/ (\E s \in Sources : CheckError(r, s))
    PROVE  round' \in [Rounds -> [phase : {"idle", "check", "collect"}, todo : SUBSET Sources,
                                 pick : Sources \cup {NoSource}]]
<1> DEFINE T == [phase : {"idle", "check", "collect"}, todo : SUBSET Sources, pick : Sources \cup {NoSource}]
<1>1. round \in [Rounds -> T] /\ round[r] \in T
  BY DEF Kinds
<1>2. \A s : Checked(r, s) => round' \in [Rounds -> T]
  <2> TAKE s
  <2> HAVE Checked(r, s)
  <2>1. [round[r] EXCEPT !.todo = round[r].todo \ {s}, !.pick = NoSource] \in T
    BY <1>1
  <2>2. round' = [round EXCEPT ![r] = [round[r] EXCEPT !.todo = round[r].todo \ {s}, !.pick = NoSource]]
    BY <1>1 DEF Checked
  <2> QED
    BY <1>1, <2>1, <2>2
<1>3. CASE StartRound(r)
  <2>1. [phase |-> "check", todo |-> sources, pick |-> NoSource] \in T
    BY DEF Kinds
  <2> QED
    BY <1>1, <1>3, <2>1 DEF StartRound
<1>4. CASE \E s \in Sources : CheckBreaker(r, s) \/ CheckError(r, s)
  BY <1>1, <1>2, <1>4 DEF CheckBreaker, CheckError
<1>5. CASE CheckDue(r)
  BY <1>2, <1>5 DEF CheckDue
<1>6. CASE Launch(r)
  BY <1>1, <1>6 DEF Launch
<1>7. CASE EndRound(r)
  BY <1>1, <1>7 DEF EndRound, Idle
<1> QED
  BY <1>3, <1>4, <1>5, <1>6, <1>7 DEF RoundStep

\* CheckDue queues the job of the source that was checked, or none.
LEMMA DueDoes ==
    ASSUME Kinds, Flow, NEW r \in Rounds, CheckDue(r)
    PROVE  /\ UNCHANGED <<seenUntil, published, lost, now, faults>>
           /\ \/ job' = job
              \/ \E s \in Sources, j \in JobType :
                    Moves(r, s, j) /\ j.step = "queued" /\ j.fresh = {} /\ job[r][s].fresh = {}
<1>1. UNCHANGED <<seenUntil, published, lost, now, faults>>
  BY DEF CheckDue, RoundFrame, redis, kafka
<1>2. round[r].pick \in Sources /\ job[r][round[r].pick].fresh = {}
  BY DEF CheckDue, Kinds, Flow, Waiting
<1>3. ASSUME Due(round[r].pick)
      PROVE  \E s \in Sources, j \in JobType :
                Moves(r, s, j) /\ j.step = "queued" /\ j.fresh = {} /\ job[r][s].fresh = {}
  <2>1. PICK s \in Sources : s = round[r].pick
    BY <1>2
  <2>2. Goto(r, s, "queued")
    BY <1>3, <2>1 DEF CheckDue, Goto
  <2>3. PICK j \in JobType : Moves(r, s, j) /\ j = [job[r][s] EXCEPT !.step = "queued"]
    BY <2>2, GotoMoves DEF Steps
  <2>4. job[r][s] \in JobType
    BY DEF Kinds
  <2>5. j.step = "queued" /\ j.fresh = job[r][s].fresh
    BY <2>3, <2>4 DEF JobType
  <2> QED
    BY <1>2, <2>1, <2>3, <2>5
<1> QED
  BY <1>1, <1>3 DEF CheckDue

-----------------------------------------------------------------------------
(* Every step of the collector is of one of these kinds *)

Rounding(r) == StartRound(r) \/ RoundStep(r) \/ (\E s \in Sources : CheckError(r, s))

LEMMA StepKinds ==
    ASSUME [Next]_vars
    PROVE  \/ RefreshSources \/ Restart \/ Tick \/ UNCHANGED vars
           \/ \E r \in Rounds : Rounding(r)
           \/ \E r \in Rounds, s \in Sources :
                 QuietStep(r, s) \/ PublishStep(r, s) \/ \E u \in Urls : FilterStep(r, s, u)
BY DEF Next, JobStep, FaultStep, Rounding, QuietStep, PublishStep, FilterStep

\* A round that moves leaves everything else alone, but may queue a job.
LEMMA RoundingDoes ==
    ASSUME Kinds, Flow, NEW r \in Rounds, Rounding(r)
    PROVE  /\ UNCHANGED <<sources, redis, kafka, now, crashes>> /\ faults' \in {faults, faults + 1} /\ fired' \in Int
           /\ \/ job' = job
              \/ \E s \in Sources, j \in JobType :
                    Moves(r, s, j) /\ j.step = "queued" /\ j.fresh = {} /\ job[r][s].fresh = {}
<1>1. CASE CheckDue(r)
  BY <1>1, DueDoes DEF CheckDue, RoundFrame, Kinds
<1>2. CASE StartRound(r)
  <2>1. now \div Minute \in Int
    BY DEF Kinds
  <2> QED
    BY <1>2, <2>1 DEF StartRound, bounds
<1>3. CASE ~CheckDue(r) /\ ~StartRound(r)
  BY <1>3 DEF Rounding, RoundStep, CheckBreaker, CheckError, Launch, EndRound, RoundFrame, Fault, Kinds
<1> QED
  BY <1>1, <1>2, <1>3

LEMMA KindsKept ==
    ASSUME Kinds, Flow, [Next]_vars
    PROVE  Kinds'
<1>1. CASE RefreshSources \/ Tick \/ UNCHANGED vars
  BY <1>1 DEF RefreshSources, Tick, vars, redis, kafka, bounds, Kinds
<1>2. CASE Restart
  <2>1. Idle \in [phase : {"idle", "check", "collect"}, todo : SUBSET Sources, pick : Sources \cup {NoSource}]
    BY DEF Idle
  <2>2. InFlight \subseteq Urls
    BY DEF InFlight, Kinds, JobType
  <2> QED
    BY <1>2, <2>1, <2>2, NoJobType DEF Restart, redis, Kinds
<1>3. ASSUME NEW r \in Rounds, Rounding(r) PROVE Kinds'
  <2>1. job' \in [Rounds -> [Sources -> JobType]]
    BY <1>3, RoundingDoes, Moved DEF Kinds
  <2>2. round' \in [Rounds -> [phase : {"idle", "check", "collect"}, todo : SUBSET Sources, pick : Sources \cup {NoSource}]]
    BY <1>3, RoundTypes DEF Rounding
  <2>3. /\ UNCHANGED <<sources, now, crashes, lastAt, collectedAt, errorCount, deactCount, deactUntil, seenUntil,
                       published, lost>>
        /\ faults' \in {faults, faults + 1} /\ fired' \in Int
    BY <1>3, RoundingDoes DEF redis, kafka
  <2> QED
    BY <2>1, <2>2, <2>3 DEF Kinds
<1>4. ASSUME NEW r \in Rounds, NEW s \in Sources, QuietStep(r, s) PROVE Kinds'
  <2>1. job' \in [Rounds -> [Sources -> JobType]]
    BY <1>4, QuietSteps, Moved DEF Quietly
  <2>2. UNCHANGED <<sources, round, fired, now, crashes, seenUntil, published, lost>> /\ faults' \in Nat
    BY <1>4, QuietBeside DEF Beside
  <2>3. /\ lastAt' \in [Sources -> Int] /\ collectedAt' \in [Sources -> Int]
        /\ errorCount' \in [Sources -> Nat]
        /\ deactCount' \in [Sources -> Nat] /\ deactUntil' \in [Sources -> Int]
    BY <1>4, StateTypes
  <2> QED
    BY <2>1, <2>2, <2>3 DEF Kinds
<1>5. ASSUME NEW r \in Rounds, NEW s \in Sources, PublishStep(r, s) PROVE Kinds'
  <2>1. job' \in [Rounds -> [Sources -> JobType]]
    BY <1>5, PublishSteps, NoJobType, Moved
  <2> QED
    BY <1>5, <2>1, PublishSteps, PublishTypes DEF Kinds, Beside, redis
<1>6. ASSUME NEW r \in Rounds, NEW s \in Sources, NEW u \in Urls, FilterStep(r, s, u) PROVE Kinds'
  <2>1. job' \in [Rounds -> [Sources -> JobType]]
    BY <1>6, FilterDoes, Moved DEF Filters
  <2>2. seenUntil' \in [Urls -> Nat] /\ faults' \in Nat /\ lost' \subseteq Urls
    <3>1. /\ faults' \in {faults, faults + 1} /\ lost' \in {lost, lost \cup {u}}
          /\ seenUntil' = seenUntil \/ seenUntil' = [seenUntil EXCEPT ![u] = now + DedupTTL]
      BY <1>6, FilterDoes DEF Filtering, Marks
    <3> QED
      BY <3>1 DEF Kinds
  <2> QED
    BY <1>6, <2>1, <2>2, FilterDoes DEF Kinds
<1> QED
  BY <1>1, <1>2, <1>3, <1>4, <1>5, <1>6, StepKinds

\* One job moves and its round does not.
LEMMA FlowMoved ==
    ASSUME Kinds, Flow, NEW r \in Rounds, NEW s \in Sources, NEW j \in JobType, Moves(r, s, j), round' = round,
           j.step \notin {"filter", "publish"} => j.fresh = {},
           j.step \notin Waiting => round[r].phase = "collect"
    PROVE  Flow'
BY Moved DEF Flow

LEMMA FlowKept ==
    ASSUME Kinds, Flow, [Next]_vars
    PROVE  Flow'
<1>1. CASE RefreshSources \/ Tick \/ UNCHANGED vars
  BY <1>1 DEF RefreshSources, Tick, vars, Flow
<1>2. CASE Restart
  BY <1>2 DEF Restart, Flow, Idle, NoJob, Waiting
<1>3. ASSUME NEW r \in Rounds, Rounding(r) PROVE Flow'
  <2>0. \A q \in Rounds : round[q] \in [phase : {"idle", "check", "collect"}, todo : SUBSET Sources, pick : Sources \cup {NoSource}]
    BY DEF Kinds
  <2>1. \A q \in Rounds, t \in Sources :
           /\ job'[q][t].step \notin {"filter", "publish"} => job'[q][t].fresh = {}
           /\ job[q][t].step \in Waiting => job'[q][t].step \in Waiting
    <3>1. CASE job' = job
      BY <3>1 DEF Flow
    <3>2. CASE \E s \in Sources, j \in JobType : Moves(r, s, j) /\ j.step = "queued" /\ j.fresh = {}
      <4>1. PICK s \in Sources, j \in JobType : Moves(r, s, j) /\ j.step = "queued" /\ j.fresh = {}
        BY <3>2
      <4>2. \A q \in Rounds, t \in Sources : job'[q][t] = IF q = r /\ t = s THEN j ELSE job[q][t]
        BY <4>1, Moved
      <4> QED
        BY <4>1, <4>2 DEF Flow, Waiting
    <3> QED
      BY <1>3, <3>1, <3>2, RoundingDoes
  <2>2. /\ \A q \in Rounds \ {r} : round'[q] = round[q]
        /\ round'[r].phase # "collect" => round[r].phase # "collect" \/ EndRound(r)
        /\ round'[r].pick # NoSource => round'[r].phase = "check" /\ round'[r].pick \in round'[r].todo
    <3>1. CASE StartRound(r)
      BY <1>3, <2>0, <3>1 DEF StartRound, Kinds
    <3>2. CASE \E s \in Sources : CheckBreaker(r, s)
      <4>1. PICK s \in Sources : CheckBreaker(r, s)
        BY <3>2
      <4>2. round[r].phase = "check" /\ round[r].pick = NoSource /\ s \in round[r].todo
        BY <4>1 DEF CheckBreaker
      <4>3. CASE Deactivated(s)
        BY <2>0, <4>1, <4>2, <4>3 DEF CheckBreaker, Checked, Kinds, Flow
      <4>4. CASE ~Deactivated(s)
        <5>1. round' = [round EXCEPT ![r].pick = s]
          BY <4>1, <4>4 DEF CheckBreaker
        <5> QED
          BY <2>0, <4>2, <5>1 DEF Kinds
      <4> QED
        BY <4>3, <4>4
    <3>3. CASE \E s \in Sources : CheckError(r, s)
      BY <2>0, <3>3 DEF CheckError, Checked, Kinds, Flow
    <3>4. CASE CheckDue(r)
      BY <2>0, <3>4 DEF CheckDue, Checked, Kinds, Flow
    <3>5. CASE Launch(r)
      BY <2>0, <3>5 DEF Launch, Kinds, Flow
    <3>6. CASE EndRound(r)
      BY <2>0, <3>6 DEF EndRound, Idle, Kinds, Flow
    <3> QED
      BY <1>3, <3>1, <3>2, <3>3, <3>4, <3>5, <3>6 DEF Rounding, RoundStep
  <2>3. EndRound(r) => \A t \in Sources : job'[r][t].step \in Waiting
    BY DEF EndRound, Waiting
  <2> QED
    BY <2>1, <2>2, <2>3 DEF Flow
<1>4. ASSUME NEW r \in Rounds, NEW s \in Sources, QuietStep(r, s) PROVE Flow'
  <2>1. PICK j \in JobType : Quietly(r, s, j)
    BY <1>4, QuietSteps
  <2>2. j.step \notin Waiting => round[r].phase = "collect"
    BY <2>1 DEF Quietly, Flow, Acquire
  <2> QED
    BY <1>4, <2>1, <2>2, QuietSteps, FlowMoved DEF Quietly, Beside
<1>5. ASSUME NEW r \in Rounds, NEW s \in Sources, PublishStep(r, s) PROVE Flow'
  <2>1. NoJob.fresh = {} /\ NoJob.step \in Waiting
    BY DEF NoJob, Waiting
  <2> QED
    BY <1>5, <2>1, PublishSteps, NoJobType, FlowMoved DEF Beside
<1>6. ASSUME NEW r \in Rounds, NEW s \in Sources, NEW u \in Urls, FilterStep(r, s, u) PROVE Flow'
  <2>1. PICK j \in JobType : Filters(r, s, u, j)
    BY <1>6, FilterDoes
  <2>2. round[r].phase = "collect"
    BY <2>1 DEF Filters, Flow, Waiting
  <2> QED
    BY <1>6, <2>1, <2>2, FilterDoes, FlowMoved DEF Filters
<1> QED
  BY <1>1, <1>2, <1>3, <1>4, <1>5, <1>6, StepKinds

LEMMA WorkersKept ==
    ASSUME Kinds, Flow, Workers, [Next]_vars
    PROVE  Workers'
<1>1. CASE UNCHANGED job
  BY <1>1 DEF Workers, Running
<1>2. CASE Restart
  <2>1. \A r \in Rounds : Running(r)' = {}
    BY <1>2 DEF Restart, Running, NoJob
  <2>2. IsFiniteSet({}) /\ Cardinality({}) = 0 /\ 0 <= MaxWorkers
    BY FS_EmptySet
  <2> QED
    BY <2>1, <2>2 DEF Workers
<1>3. ASSUME NEW r \in Rounds, Rounding(r) PROVE Workers'
  BY <1>1, <1>3, RoundingDoes, SlotsKept DEF Waiting
<1>4. ASSUME NEW r \in Rounds, NEW s \in Sources, QuietStep(r, s) PROVE Workers'
  BY <1>4, QuietSteps, SlotsKept, SlotTaken DEF Quietly
<1>5. ASSUME NEW r \in Rounds, NEW s \in Sources, PublishStep(r, s) PROVE Workers'
  BY <1>5, PublishSteps, NoJobType, SlotsKept DEF NoJob, Waiting
<1>6. ASSUME NEW r \in Rounds, NEW s \in Sources, NEW u \in Urls, FilterStep(r, s, u) PROVE Workers'
  BY <1>6, FilterDoes, SlotsKept DEF Filters, Waiting
<1> QED
  BY <1>1, <1>2, <1>3, <1>4, <1>5, <1>6, StepKinds DEF RefreshSources, Tick, vars

-----------------------------------------------------------------------------
(* The copies of a URL *)

LEMMA HoldersShrink ==
    ASSUME Kinds, NEW r \in Rounds, NEW s \in Sources, NEW j \in JobType, Moves(r, s, j),
           NEW u, u \in j.fresh => u \in job[r][s].fresh
    PROVE  Holders(u)' \subseteq Holders(u)
BY Moved DEF Holders

\* Without a new life, copies are only added by errors.
LEMMA LifeKept ==
    ASSUME Kinds, Kinds', NEW u \in Urls, Life(u), IsFiniteSet(Holders(u)'),
           published'[u] + Cardinality(Holders(u)') + faults <= published[u] + Cardinality(Holders(u)) + faults',
           seenUntil'[u] >= seenUntil[u], seenUntil'[u] <= now' + DedupTTL
    PROVE  Life(u)'
<1>1. PICK k \in Nat : Copies(u, k)
  BY DEF Life
<1>2. Cardinality(Holders(u)) \in Nat /\ Cardinality(Holders(u)') \in Nat
  BY FS_CardinalityType DEF Life
<1>3. /\ published[u] \in Nat /\ published'[u] \in Nat /\ faults \in Nat /\ faults' \in Nat
      /\ seenUntil[u] \in Nat /\ seenUntil'[u] \in Nat
  BY DEF Kinds
<1>4. published'[u] + Cardinality(Holders(u)') <= k + faults'
  BY <1>1, <1>2, <1>3 DEF Copies
<1>5. k * DedupTTL <= seenUntil'[u]
  <2>1. k * DedupTTL \in Nat /\ k * DedupTTL <= seenUntil[u]
    BY <1>1 DEF Copies
  <2> QED
    BY <1>3, <2>1
<1>6. Copies(u, k)'
  BY <1>4, <1>5 DEF Copies
<1> QED
  BY <1>6 DEF Life

\* A step that hands no URL out.
LEMMA LifeHeld ==
    ASSUME Kinds, Kinds', NEW u \in Urls, Life(u), Holders(u)' \subseteq Holders(u),
           published'[u] = published[u], seenUntil'[u] = seenUntil[u], now' >= now, faults' >= faults
    PROVE  Life(u)'
<1>1. IsFiniteSet(Holders(u)') /\ Cardinality(Holders(u)') <= Cardinality(Holders(u))
  BY FS_Subset DEF Life
<1>2. Cardinality(Holders(u)') \in Nat /\ Cardinality(Holders(u)) \in Nat
  BY <1>1, FS_CardinalityType DEF Life
<1>3. /\ published[u] \in Nat /\ faults \in Nat /\ faults' \in Nat /\ now \in Nat /\ now' \in Nat
      /\ seenUntil[u] \in Nat /\ seenUntil[u] <= now + DedupTTL
  BY DEF Kinds, Life
<1>4. published'[u] + Cardinality(Holders(u)') + faults <= published[u] + Cardinality(Holders(u)) + faults'
  BY <1>1, <1>2, <1>3
<1>5. seenUntil'[u] >= seenUntil[u] /\ seenUntil'[u] <= now' + DedupTTL
  BY <1>3
<1> QED
  BY <1>1, <1>4, <1>5, LifeKept

\* A job that becomes the publisher of a URL.
LEMMA HolderAdded ==
    ASSUME Kinds, NEW r \in Rounds, NEW s \in Sources, NEW j \in JobType, Moves(r, s, j),
           NEW u \in Urls, Life(u)
    PROVE  /\ IsFiniteSet(Holders(u)') /\ Cardinality(Holders(u)') \in Nat /\ Cardinality(Holders(u)) \in Nat
           /\ Cardinality(Holders(u)') <= Cardinality(Holders(u)) + 1
<1>1. Holders(u)' \subseteq Holders(u) \cup {<<r, s>>}
  BY Moved DEF Holders
<1>2. IsFiniteSet(Holders(u)) /\ Cardinality(Holders(u)) \in Nat
  BY FS_CardinalityType DEF Life
<1>3. /\ IsFiniteSet(Holders(u) \cup {<<r, s>>})
      /\ Cardinality(Holders(u) \cup {<<r, s>>}) =
            IF <<r, s>> \in Holders(u) THEN Cardinality(Holders(u)) ELSE Cardinality(Holders(u)) + 1
  BY <1>2, FS_AddElement
<1>4. IsFiniteSet(Holders(u)') /\ Cardinality(Holders(u)') <= Cardinality(Holders(u) \cup {<<r, s>>})
  BY <1>1, <1>3, FS_Subset
<1>5. Cardinality(Holders(u)') \in Nat
  BY <1>4, FS_CardinalityType
<1> QED
  BY <1>2, <1>3, <1>4, <1>5

LEMMA LivesFiltered ==
    ASSUME Kinds, Kinds', Lives, NEW r \in Rounds, NEW s \in Sources, NEW u \in Urls, FilterStep(r, s, u)
    PROVE  Lives'
<1>1. PICK j \in JobType : Filters(r, s, u, j) /\ Filtering(r, s, u, j)
  BY FilterDoes
<1>2. UNCHANGED <<now, published>> /\ Moves(r, s, j)
  BY <1>1, FilterDoes DEF Filters
<1>3. now \in Nat /\ faults \in Nat /\ seenUntil \in [Urls -> Nat] /\ published \in [Urls -> Nat]
  BY DEF Kinds
<1>4. ASSUME NEW v \in Urls, v # u PROVE Life(v)'
  <2>1. v \in j.fresh => v \in job[r][s].fresh
    BY <1>1, <1>4 DEF Filtering, Fresher
  <2>2. Holders(v)' \subseteq Holders(v)
    BY <1>2, <2>1, HoldersShrink
  <2>3. seenUntil'[v] = seenUntil[v] /\ faults' >= faults
    BY <1>1, <1>3, <1>4 DEF Filtering, Marks
  <2> QED
    BY <1>2, <1>3, <2>2, <2>3, LifeHeld DEF Lives
<1>5. Life(u)'
  <2>1. /\ IsFiniteSet(Holders(u)') /\ Cardinality(Holders(u)') \in Nat /\ Cardinality(Holders(u)) \in Nat
        /\ Cardinality(Holders(u)') <= Cardinality(Holders(u)) + 1 /\ Life(u)
    BY <1>2, HolderAdded DEF Lives
  <2>2. CASE faults' = faults /\ Marks(u)
    <3>1. PICK k \in Nat : Copies(u, k)
      BY <2>1 DEF Life
    <3>2. seenUntil[u] <= now /\ seenUntil'[u] = now + DedupTTL /\ seenUntil[u] \in Nat
      BY <1>3, <2>2 DEF Marks, Seen
    <3>3. PICK m \in Nat : m = k + 1
      BY <3>1
    <3>4. published'[u] + Cardinality(Holders(u)') <= m + faults'
      BY <1>2, <1>3, <2>1, <2>2, <3>1, <3>3 DEF Copies
    <3>5. m * DedupTTL <= seenUntil'[u]
      <4>1. m * DedupTTL = k * DedupTTL + DedupTTL /\ k * DedupTTL \in Nat
        BY <3>1, <3>3
      <4>2. k * DedupTTL <= seenUntil[u]
        BY <3>1 DEF Copies
      <4> QED
        BY <1>3, <3>2, <4>1, <4>2
    <3>6. Copies(u, m)'
      BY <3>4, <3>5 DEF Copies
    <3> QED
      BY <1>2, <1>3, <2>1, <3>2, <3>6 DEF Life
  <2>3. CASE j.fresh = job[r][s].fresh /\ faults' = faults /\ seenUntil' = seenUntil
    <3>1. Holders(u)' \subseteq Holders(u)
      BY <1>2, <2>3, HoldersShrink
    <3> QED
      BY <1>2, <1>3, <2>1, <2>3, <3>1, LifeHeld
  <2>4. CASE faults' = faults + 1 /\ (seenUntil' = seenUntil \/ Marks(u))
    <3>1. published'[u] + Cardinality(Holders(u)') + faults <= published[u] + Cardinality(Holders(u)) + faults'
      BY <1>2, <1>3, <2>1, <2>4
    <3>2. seenUntil'[u] >= seenUntil[u] /\ seenUntil'[u] <= now' + DedupTTL
      BY <1>2, <1>3, <2>1, <2>4 DEF Marks, Seen, Life
    <3> QED
      BY <2>1, <3>1, <3>2, LifeKept
  <2> QED
    BY <1>1, <2>2, <2>3, <2>4 DEF Filtering
<1> QED
  BY <1>4, <1>5 DEF Lives

LEMMA LivesPublished ==
    ASSUME Kinds, Kinds', Lives, NEW r \in Rounds, NEW s \in Sources, PublishStep(r, s)
    PROVE  Lives'
<1>1. Moves(r, s, NoJob) /\ NoJob \in JobType /\ now' = now /\ seenUntil' = seenUntil /\ faults' \in Nat /\ faults' >= faults
  BY PublishSteps, NoJobType DEF Beside, redis
<1> SUFFICES ASSUME NEW u \in Urls PROVE Life(u)'
  BY DEF Lives
<1>2. Life(u) /\ now \in Nat /\ faults \in Nat /\ seenUntil[u] \in Nat /\ published[u] \in Nat /\ published'[u] \in Nat
  BY DEF Lives, Kinds
<1>3. Holders(u)' \subseteq Holders(u)
  <2>1. u \notin NoJob.fresh
    BY DEF NoJob
  <2> QED
    BY <1>1, <2>1, HoldersShrink
<1>4. CASE u \notin job[r][s].fresh
  <2>1. published'[u] = published[u]
    <3>1. CASE Publish(r, s)
      BY <1>2, <1>4, <3>1 DEF Publish
    <3>2. CASE PublishRetried(r, s)
      BY <1>2, <1>4, <3>2 DEF PublishRetried
    <3>3. CASE PublishError(r, s)
      BY <1>2, <1>4, <3>3 DEF PublishError
    <3> QED
      BY <3>1, <3>2, <3>3 DEF PublishStep
  <2> QED
    BY <1>1, <1>2, <1>3, <2>1, LifeHeld
<1>5. CASE u \in job[r][s].fresh
  <2>1. <<r, s>> \in Holders(u)
    BY <1>5 DEF Holders
  <2>2. Holders(u)' = Holders(u) \ {<<r, s>>}
    <3>1. \A q \in Rounds, t \in Sources : job'[q][t] = IF q = r /\ t = s THEN NoJob ELSE job[q][t]
      BY <1>1, Moved
    <3>2. NoJob.fresh = {}
      BY DEF NoJob
    <3> QED
      BY <3>1, <3>2 DEF Holders
  <2>3. IsFiniteSet(Holders(u)) /\ Cardinality(Holders(u)) \in Nat
    BY <1>2, FS_CardinalityType DEF Life
  <2>4. IsFiniteSet(Holders(u)') /\ Cardinality(Holders(u)') = Cardinality(Holders(u)) - 1
    <3>1. /\ IsFiniteSet(Holders(u) \ {<<r, s>>})
          /\ Cardinality(Holders(u) \ {<<r, s>>}) = Cardinality(Holders(u)) - 1
      BY <2>1, <2>3, FS_RemoveElement
    <3> QED
      BY <2>2, <3>1
  <2>5. published'[u] + faults <= published[u] + 1 + faults'
    <3>1. CASE Publish(r, s)
      BY <1>1, <1>2, <1>5, <3>1 DEF Publish
    <3>2. CASE PublishRetried(r, s)
      BY <1>2, <1>5, <3>2 DEF PublishRetried, Fault
    <3>3. CASE PublishError(r, s)
      BY <1>1, <1>2, <1>5, <3>3 DEF PublishError, Fault
    <3> QED
      BY <3>1, <3>2, <3>3 DEF PublishStep
  <2>6. published'[u] + Cardinality(Holders(u)') + faults <= published[u] + Cardinality(Holders(u)) + faults'
    BY <1>1, <1>2, <2>3, <2>4, <2>5
  <2>7. seenUntil'[u] >= seenUntil[u] /\ seenUntil'[u] <= now' + DedupTTL
    BY <1>1, <1>2 DEF Life
  <2> QED
    BY <1>2, <2>4, <2>6, <2>7, LifeKept
<1> QED
  BY <1>4, <1>5

LEMMA LivesKept ==
    ASSUME Kinds, Kinds', Flow, Lives, [Next]_vars
    PROVE  Lives'
<1>0. now \in Nat /\ now' \in Nat /\ faults \in Nat
  BY DEF Kinds
<1>1. ASSUME \A u \in Urls : Holders(u)' \subseteq Holders(u), UNCHANGED <<published, seenUntil>>,
             now' >= now, faults' >= faults
      PROVE  Lives'
  BY <1>1, LifeHeld DEF Lives
<1>2. CASE RefreshSources \/ Tick \/ UNCHANGED vars
  BY <1>0, <1>1, <1>2 DEF RefreshSources, Tick, vars, redis, kafka, bounds, Holders
<1>3. CASE Restart
  <2>1. \A u \in Urls : Holders(u)' = {}
    BY <1>3 DEF Restart, Holders, NoJob
  <2> QED
    BY <1>0, <1>1, <1>3, <2>1 DEF Restart, redis
<1>4. ASSUME NEW r \in Rounds, Rounding(r) PROVE Lives'
  <2>1. \A u \in Urls : Holders(u)' \subseteq Holders(u)
    <3>1. CASE job' = job
      BY <3>1 DEF Holders
    <3>2. CASE \E s \in Sources, j \in JobType : Moves(r, s, j) /\ j.fresh = {}
      BY <3>2, HoldersShrink
    <3> QED
      BY <1>4, <3>1, <3>2, RoundingDoes
  <2> QED
    BY <1>0, <1>1, <1>4, <2>1, RoundingDoes DEF redis, kafka
<1>5. ASSUME NEW r \in Rounds, NEW s \in Sources, QuietStep(r, s) PROVE Lives'
  <2>1. \A u \in Urls : Holders(u)' \subseteq Holders(u)
    BY <1>5, QuietSteps, HoldersShrink DEF Quietly
  <2> QED
    BY <1>0, <1>1, <1>5, <2>1, QuietSteps DEF Beside
<1> QED
  BY <1>2, <1>3, <1>4, <1>5, LivesPublished, LivesFiltered, StepKinds

-----------------------------------------------------------------------------
(* No URL disappears *)

\* URLs in flight stay so while every job keeps its own.
LEMMA FlightKept ==
    ASSUME Kinds, NEW r \in Rounds, NEW s \in Sources, NEW j \in JobType, Moves(r, s, j),
           job[r][s].fresh \subseteq j.fresh
    PROVE  InFlight \subseteq InFlight'
BY Moved DEF InFlight

LEMMA SeenKept ==
    ASSUME Kinds, Kinds', Flow, SeenAccounted, [Next]_vars
    PROVE  SeenAccounted'
<1>0. /\ now \in Nat /\ now' \in Nat /\ seenUntil \in [Urls -> Nat]
      /\ published \in [Urls -> Nat] /\ published' \in [Urls -> Nat]
  BY DEF Kinds
<1>1. ASSUME InFlight \subseteq InFlight', UNCHANGED <<published, lost, seenUntil>>, now' >= now
      PROVE  SeenAccounted'
  BY <1>0, <1>1 DEF SeenAccounted, Seen
<1>2. CASE RefreshSources \/ Tick \/ UNCHANGED vars
  <2>1. InFlight' = InFlight
    BY <1>2 DEF RefreshSources, Tick, vars, InFlight
  <2>2. UNCHANGED <<published, lost, seenUntil>> /\ now' >= now
    BY <1>0, <1>2 DEF RefreshSources, Tick, vars, redis, kafka, bounds
  <2> QED
    BY <1>1, <2>1, <2>2
<1>3. CASE Restart
  <2>1. UNCHANGED <<published, seenUntil, now>> /\ lost' = lost \cup InFlight
    BY <1>3 DEF Restart, redis
  <2> QED
    BY <2>1 DEF SeenAccounted, Seen
<1>4. ASSUME NEW r \in Rounds, Rounding(r) PROVE SeenAccounted'
  <2>1. InFlight \subseteq InFlight'
    <3>1. CASE job' = job
      BY <3>1 DEF InFlight
    <3>2. CASE \E s \in Sources, j \in JobType : Moves(r, s, j) /\ job[r][s].fresh = {}
      BY <3>2, FlightKept
    <3> QED
      BY <1>4, <3>1, <3>2, RoundingDoes
  <2> QED
    BY <1>0, <1>1, <1>4, <2>1, RoundingDoes DEF redis, kafka
<1>5. ASSUME NEW r \in Rounds, NEW s \in Sources, QuietStep(r, s) PROVE SeenAccounted'
  <2>1. InFlight \subseteq InFlight'
    BY <1>5, QuietSteps, FlightKept DEF Quietly
  <2> QED
    BY <1>0, <1>1, <1>5, <2>1, QuietSteps DEF Beside
<1>6. ASSUME NEW r \in Rounds, NEW s \in Sources, PublishStep(r, s) PROVE SeenAccounted'
  <2>1. Moves(r, s, NoJob) /\ UNCHANGED <<now, seenUntil>> /\ job[r][s].fresh \subseteq Urls
    BY <1>6, PublishSteps DEF Beside, redis, Kinds, JobType
  <2>2. InFlight \subseteq InFlight' \cup job[r][s].fresh
    <3>1. \A q \in Rounds, t \in Sources : job'[q][t] = IF q = r /\ t = s THEN NoJob ELSE job[q][t]
      BY <2>1, NoJobType, Moved
    <3> QED
      BY <3>1 DEF InFlight
  <2>3. /\ \A u \in Urls : published[u] > 0 => published'[u] > 0
        /\ lost \subseteq lost'
        /\ \A u \in job[r][s].fresh : published'[u] > 0 \/ u \in lost'
    <3>1. CASE Publish(r, s)
      BY <1>0, <2>1, <3>1 DEF Publish
    <3>2. CASE PublishRetried(r, s)
      BY <1>0, <2>1, <3>2 DEF PublishRetried
    <3>3. CASE PublishError(r, s)
      BY <1>0, <2>1, <3>3 DEF PublishError
    <3> QED
      BY <1>6, <3>1, <3>2, <3>3 DEF PublishStep
  <2> QED
    BY <2>1, <2>2, <2>3 DEF SeenAccounted, Seen
<1>7. ASSUME NEW r \in Rounds, NEW s \in Sources, NEW u \in Urls, FilterStep(r, s, u) PROVE SeenAccounted'
  <2>1. PICK j \in JobType : Filters(r, s, u, j) /\ Filtering(r, s, u, j)
    BY <1>7, FilterDoes
  <2>2. UNCHANGED <<now, published>> /\ lost \subseteq lost'
    BY <1>7, <2>1, FilterDoes DEF Filtering
  <2>3. InFlight \subseteq InFlight' /\ j.fresh \subseteq InFlight'
    <3>1. job'[r][s] = j
      BY <2>1, Moved DEF Filters
    <3>2. InFlight \subseteq InFlight'
      BY <2>1, FlightKept DEF Filters
    <3>3. j.fresh \subseteq InFlight'
      BY <3>1 DEF InFlight
    <3> QED
      BY <3>2, <3>3
  <2>4. CASE seenUntil' = seenUntil
    BY <2>2, <2>3, <2>4 DEF SeenAccounted, Seen
  <2>5. CASE seenUntil' # seenUntil
    <3>1. u \in InFlight' \/ u \in lost'
      BY <2>1, <2>3, <2>5 DEF Filtering, Fresher
    <3>2. \A v \in Urls \ {u} : seenUntil'[v] = seenUntil[v]
      BY <1>0, <2>1, <2>5 DEF Filtering, Marks
    <3> QED
      BY <2>2, <2>3, <3>1, <3>2 DEF SeenAccounted, Seen
  <2> QED
    BY <2>4, <2>5
<1> QED
  BY <1>2, <1>3, <1>4, <1>5, <1>6, <1>7, StepKinds

-----------------------------------------------------------------------------
(* Theorems *)

LEMMA Start == Init => IInv
<1> SUFFICES ASSUME Init PROVE IInv
  OBVIOUS
<1>1. Idle \in [phase : {"idle", "check", "collect"}, todo : SUBSET Sources, pick : Sources \cup {NoSource}]
  BY DEF Idle
<1>2. Kinds
  BY <1>1, NoJobType DEF Init, Kinds
<1>3. Flow
  BY DEF Init, Flow, Idle, NoJob, Waiting
<1>4. IsFiniteSet({}) /\ Cardinality({}) = 0 /\ 0 <= MaxWorkers
  BY FS_EmptySet
<1>5. Workers
  <2>1. \A r \in Rounds : Running(r) = {}
    BY DEF Init, Running, NoJob
  <2> QED
    BY <1>4, <2>1 DEF Workers
<1>6. Lives
  <2> SUFFICES ASSUME NEW u \in Urls PROVE Life(u)
    BY DEF Lives
  <2>1. Holders(u) = {}
    BY DEF Init, Holders, NoJob
  <2>2. Copies(u, 0) /\ seenUntil[u] <= now + DedupTTL
    BY <1>4, <2>1 DEF Init, Copies
  <2> QED
    BY <1>4, <2>1, <2>2 DEF Life
<1>7. SeenAccounted
  BY DEF Init, SeenAccounted, Seen
<1> QED
  BY <1>2, <1>3, <1>5, <1>6, <1>7 DEF IInv

LEMMA Inductive == IInv /\ [Next]_vars => IInv'
BY KindsKept, FlowKept, WorkersKept, LivesKept, SeenKept DEF IInv

LEMMA Always == Spec => []IInv
BY Start, Inductive, PTL DEF Spec

\* The lives of a key, DedupTTL each, that fit into the time so far.
LEMMA LivesFit ==
    ASSUME NEW t \in Nat, NEW k \in Nat, k * DedupTTL <= t + DedupTTL
    PROVE  k <= 1 + t \div DedupTTL /\ t \div DedupTTL \in Int
<1>1. PICK q \in Int : q = t \div DedupTTL
  OBVIOUS
<1>2. t < (q + 1) * DedupTTL
  BY <1>1, SMTT(20)
<1>3. (q + 1) * DedupTTL + DedupTTL = (q + 2) * DedupTTL
  BY <1>1
<1>4. k * DedupTTL < (q + 2) * DedupTTL
  <2>1. k * DedupTTL \in Int /\ (q + 1) * DedupTTL \in Int
    BY <1>1
  <2> QED
    BY <1>2, <1>3, <2>1
<1>5. k < q + 2
  BY <1>1, <1>4, SMTT(20)
<1> QED
  BY <1>1, <1>5

\* Every variable has a value of its kind, and no round ever works on more sources
\* than the semaphore admits.
THEOREM CollectorTypeCorrect == Spec => []TypeOK
<1>1. IInv => TypeOK
  BY DEF IInv, Kinds, Workers, TypeOK, JobType
<1> QED
  BY <1>1, Always, PTL

\* However many rounds overlap, a URL is published once per life of its key, and
\* once more for every error.
THEOREM OncePerLife == Spec => []PublishedOnce
<1>1. ASSUME IInv, NEW u \in Urls PROVE published[u] <= 1 + faults + now \div DedupTTL
  <2>1. PICK k \in Nat : Copies(u, k)
    BY <1>1 DEF IInv, Lives, Life
  <2>2. /\ IsFiniteSet(Holders(u)) /\ Cardinality(Holders(u)) \in Nat
        /\ seenUntil[u] <= now + DedupTTL
    BY <1>1, FS_CardinalityType DEF IInv, Lives, Life
  <2>3. now \in Nat /\ faults \in Nat /\ published[u] \in Nat /\ seenUntil[u] \in Nat
    BY <1>1 DEF IInv, Kinds
  <2>4. published[u] <= k + faults
    BY <2>1, <2>2, <2>3 DEF Copies
  <2>5. k * DedupTTL <= now + DedupTTL
    <3>1. k * DedupTTL \in Nat /\ k * DedupTTL <= seenUntil[u]
      BY <2>1 DEF Copies
    <3> QED
      BY <2>2, <2>3, <3>1
  <2>6. k <= 1 + now \div DedupTTL /\ now \div DedupTTL \in Int
    BY <2>1, <2>3, <2>5, LivesFit
  <2> QED
    BY <2>1, <2>3, <2>4, <2>6
<1>2. IInv => PublishedOnce
  BY <1>1 DEF PublishedOnce
<1> QED
  BY <1>2, Always, PTL

\* A URL that is marked as seen was published, is on its way, or is among those
\* that a failed publish, a restart or a SET NX that was sent twice lost.
THEOREM NoneDisappears == Spec => []SeenAccounted
BY Always, PTL DEF IInv

-----------------------------------------------------------------------------
(* Rounds that do not overlap *)

\* A round has ended before cron starts the next one.
Serial == \A q, r \in Rounds : round[q].phase # "idle" /\ round[r].phase # "idle" => q = r

\* A source that is not checked yet has no job, and neither has a round that ended.
Unchecked ==
    \A r \in Rounds, s \in Sources :
        round[r].phase = "idle" \/ s \in round[r].todo => job[r][s].step = "none"

\* A job that has not noted its collection yet is as due as when it was checked.
StillDue ==
    \A r \in Rounds, s \in Sources :
        job[r][s].step \in {"queued", "parse", "setCollected"} => Due(s)

\* The count of deactivations that a job has read is the present one.
CountCurrent ==
    \A r \in Rounds, s \in Sources :
        job[r][s].step = "deactivate" => job[r][s].deacts = deactCount[s]

\* What is stored of a collection is its time without the fraction of the second.
Cut ==
    \A s \in Sources :
        \/ lastAt[s] = -1 /\ collectedAt[s] = -1
        \/ collectedAt[s] \in Nat /\ lastAt[s] = Unix(collectedAt[s])

SerialInv == Unchecked /\ StillDue /\ Cut /\ (faults = 0 => CountCurrent)

\* The one step that notes a collection.
Stores(r, s, step) == job[r][s].step = "setCollected" /\ step = "resetErrors" /\ StoreCollected(s)

\* What a step of a job has to do with the collection of its source, and with
\* its deactivation.
Careful(r, s, j) ==
    /\ Moves(r, s, j) /\ job[r][s].step # "none"
    /\ j.step \in {"queued", "parse", "setCollected"} => job[r][s].step \in {"queued", "parse"}
    /\ UNCHANGED <<lastAt, collectedAt>> \/ Stores(r, s, j.step)
    /\ \/ deactCount' = deactCount
       \/ /\ job[r][s].step = "deactivate" /\ j.step # "deactivate"
          /\ \A t \in Sources \ {s} : deactCount'[t] = deactCount[t]
    /\ j.step = "deactivate" => deactCount' = deactCount /\ (j.deacts = deactCount[s] \/ faults' = faults + 1)
    /\ \/ deactUntil' = deactUntil
       \/ /\ job[r][s].step = "deactivate"
          /\ deactUntil' = [deactUntil EXCEPT ![s] = now + CalcBackoff(job[r][s].deacts)]

\* Goto and Finish, for a step that leaves the deactivation alone.
LEMMA GoesCarefully ==
    ASSUME Kinds, NEW r \in Rounds, NEW s \in Sources, NEW step \in Steps \ {"deactivate"},
           Goto(r, s, step) \/ (step = "none" /\ Finish(r, s)), job[r][s].step # "none",
           step \in {"queued", "parse", "setCollected"} => job[r][s].step \in {"queued", "parse"},
           UNCHANGED <<lastAt, collectedAt>> \/ Stores(r, s, step),
           \/ deactCount' = deactCount
           \/ job[r][s].step = "deactivate" /\ \A t \in Sources \ {s} : deactCount'[t] = deactCount[t],
           \/ deactUntil' = deactUntil
           \/ /\ job[r][s].step = "deactivate"
              /\ deactUntil' = [deactUntil EXCEPT ![s] = now + CalcBackoff(job[r][s].deacts)]
    PROVE  \E j \in JobType : Careful(r, s, j)
<1>1. \E j \in JobType : Moves(r, s, j) /\ j.step = step
  <2>1. CASE Goto(r, s, step)
    <3>1. PICK j \in JobType : Moves(r, s, j) /\ j = [job[r][s] EXCEPT !.step = step]
      BY <2>1, GotoMoves
    <3>2. job[r][s] \in JobType
      BY DEF Kinds
    <3> QED
      BY <3>1, <3>2 DEF JobType
  <2>2. CASE step = "none" /\ Finish(r, s)
    BY <2>2, NoJobType DEF Finish, Moves, NoJob
  <2> QED
    BY <2>1, <2>2
<1> QED
  BY <1>1 DEF Careful

\* Every quiet step is careful.
LEMMA QuietIsCareful ==
    ASSUME Kinds, NEW r \in Rounds, NEW s \in Sources, QuietStep(r, s)
    PROVE  \E j \in JobType : Careful(r, s, j)
<1> USE DEF redis, Steps
<1>0. job[r][s] \in JobType
  BY DEF Kinds
<1>1. CASE Acquire(r, s)
  BY <1>1, GoesCarefully DEF Acquire
<1>2. CASE ParseOk(r, s)
  <2> DEFINE j == [job[r][s] EXCEPT !.step = "setCollected", !.left = Feed[s]]
  <2>1. j \in JobType /\ j.step = "setCollected"
    BY <1>0 DEF JobType
  <2>2. Moves(r, s, j)
    BY <1>2 DEF ParseOk, Moves
  <2>3. Careful(r, s, j)
    <3> HIDE DEF j
    <3> QED
      BY <1>2, <2>1, <2>2 DEF ParseOk, Careful
  <2> QED
    BY <2>1, <2>3
<1>3. CASE ParseFails(r, s)
  BY <1>3, GoesCarefully DEF ParseFails
<1>4. CASE SetCollected(r, s)
  BY <1>4, GoesCarefully DEF SetCollected, Stores
<1>5. CASE ResetErrors(r, s)
  BY <1>5, GoesCarefully DEF ResetErrors
<1>6. CASE SetCollectedError(r, s) \/ ResetError(r, s)
  <2>1. CASE SetCollectedError(r, s)
    BY <2>1, GoesCarefully DEF SetCollectedError, Stores
  <2>2. CASE ResetError(r, s)
    BY <2>2, GoesCarefully DEF ResetError
  <2> QED
    BY <1>6, <2>1, <2>2
<1>7. CASE Filtered(r, s)
  BY <1>7, GoesCarefully DEF Filtered
<1>8. CASE IncrementErrorCount(r, s)
  BY <1>8, GoesCarefully DEF IncrementErrorCount
<1>9. CASE GetDeactivationCount(r, s) \/ GetDeactivationError(r, s)
  <2>1. PICK d \in Nat : /\ job' = [job EXCEPT ![r][s] = [@ EXCEPT !.step = "deactivate", !.deacts = d]]
                         /\ d = deactCount[s] \/ faults' = faults + 1
    BY <1>9 DEF GetDeactivationCount, GetDeactivationError, Fault, Kinds
  <2> DEFINE j == [job[r][s] EXCEPT !.step = "deactivate", !.deacts = d]
  <2>2. j \in JobType /\ j.step = "deactivate" /\ j.deacts = d
    BY <1>0 DEF JobType
  <2>3. Moves(r, s, j)
    BY <2>1 DEF Moves
  <2>4. job[r][s].step = "readDeacts" /\ UNCHANGED <<lastAt, collectedAt, deactCount, deactUntil>>
    BY <1>9 DEF GetDeactivationCount, GetDeactivationError
  <2>5. Careful(r, s, j)
    <3> HIDE DEF j
    <3> QED
      BY <2>1, <2>2, <2>3, <2>4 DEF Careful
  <2> QED
    BY <2>2, <2>5
<1>10. CASE LocallyDeactivate(r, s)
  <2>1. \A t \in Sources \ {s} : deactCount'[t] = deactCount[t]
    BY <1>10 DEF LocallyDeactivate, Kinds
  <2> QED
    BY <1>10, <2>1, GoesCarefully DEF LocallyDeactivate
<1>11. CASE DeactivateError(r, s)
  <2>1. \A t \in Sources \ {s} : deactCount'[t] = deactCount[t]
    BY <1>11 DEF DeactivateError, Kinds
  <2> QED
    BY <1>11, <2>1, GoesCarefully DEF DeactivateError
<1>12. CASE ResetAfter(r, s) \/ ResetAfterError(r, s)
  BY <1>12, GoesCarefully DEF ResetAfter, ResetAfterError
<1>13. CASE CountError(r, s)
  BY <1>13, GoesCarefully DEF CountError
<1> QED
  BY <1>1, <1>2, <1>3, <1>4, <1>5, <1>6, <1>7, <1>8, <1>9, <1>10, <1>11, <1>12, <1>13 DEF QuietStep

\* Every step of a job is careful.
LEMMA JobIsCareful ==
    ASSUME Kinds, NEW r \in Rounds, NEW s \in Sources,
           QuietStep(r, s) \/ PublishStep(r, s) \/ \E u \in Urls : FilterStep(r, s, u)
    PROVE  /\ \E j \in JobType : Careful(r, s, j)
           /\ UNCHANGED <<round, now>> /\ faults' \in Nat /\ faults' >= faults
<1>1. CASE QuietStep(r, s)
  BY <1>1, QuietBeside, QuietIsCareful DEF Beside
<1>2. CASE PublishStep(r, s)
  <2>1. /\ job[r][s].step = "publish" /\ Moves(r, s, NoJob)
        /\ UNCHANGED <<round, now, lastAt, collectedAt, deactCount, deactUntil>>
        /\ faults' \in Nat /\ faults' >= faults
    BY <1>2, PublishSteps DEF Beside, redis
  <2> QED
    BY <2>1, NoJobType DEF Careful, NoJob
<1>3. ASSUME NEW u \in Urls, FilterStep(r, s, u)
      PROVE  /\ \E j \in JobType : Careful(r, s, j)
             /\ UNCHANGED <<round, now>> /\ faults' \in Nat /\ faults' >= faults
  <2>1. PICK j \in JobType : Filters(r, s, u, j) /\ Filtering(r, s, u, j)
    BY <1>3, FilterDoes
  <2>2. UNCHANGED <<round, now, lastAt, collectedAt, deactCount, deactUntil>>
    BY <1>3, FilterDoes
  <2>3. faults' \in Nat /\ faults' >= faults
    BY <2>1 DEF Filtering, Kinds
  <2> QED
    BY <2>1, <2>2, <2>3 DEF Filters, Careful
<1> QED
  BY <1>1, <1>2, <1>3

\* While rounds do not overlap, no other job works on the source of a running one.
LEMMA JobKeepsSerial ==
    ASSUME Kinds, Flow, Serial, SerialInv, NEW r \in Rounds, NEW s \in Sources,
           QuietStep(r, s) \/ PublishStep(r, s) \/ \E u \in Urls : FilterStep(r, s, u)
    PROVE  SerialInv'
<1>1. PICK j \in JobType : Careful(r, s, j)
  BY JobIsCareful
<1>2. UNCHANGED <<round, now>> /\ faults' \in Nat /\ faults' >= faults /\ faults \in Nat
  BY JobIsCareful DEF Kinds
<1>3. \A q \in Rounds, t \in Sources : job'[q][t] = IF q = r /\ t = s THEN j ELSE job[q][t]
  BY <1>1, Moved DEF Careful
<1>4. job[r][s].step # "none" /\ round[r].phase # "idle"
  BY <1>1 DEF Careful, SerialInv, Unchecked
<1>5. \A q \in Rounds \ {r}, t \in Sources : job[q][t].step = "none"
  BY <1>4 DEF Serial, SerialInv, Unchecked
<1>6. Unchecked'
  BY <1>2, <1>3, <1>4 DEF SerialInv, Unchecked
<1>7. StillDue'
  <2> SUFFICES ASSUME NEW t \in Sources, job'[r][t].step \in {"queued", "parse", "setCollected"}
               PROVE  Due(t)'
    BY <1>3, <1>5 DEF StillDue
  <2>1. Due(t) /\ lastAt'[t] = lastAt[t]
    <3>1. CASE t = s
      <4>1. job[r][s].step \in {"queued", "parse"} /\ lastAt' = lastAt
        BY <1>1, <1>3, <3>1 DEF Careful, Stores
      <4> QED
        BY <3>1, <4>1 DEF SerialInv, StillDue
    <3>2. CASE t # s
      BY <1>1, <1>3, <3>2 DEF Careful, Stores, StoreCollected, SerialInv, StillDue, Kinds
    <3> QED
      BY <3>1, <3>2
  <2> QED
    BY <1>2, <2>1 DEF Due
<1>8. ASSUME faults' = 0 PROVE CountCurrent'
  <2>1. faults' = faults /\ CountCurrent
    BY <1>2, <1>8 DEF SerialInv
  <2> SUFFICES ASSUME NEW t \in Sources, job'[r][t].step = "deactivate"
               PROVE  job'[r][t].deacts = deactCount'[t]
    BY <1>3, <1>5 DEF CountCurrent
  <2>2. CASE t = s
    BY <1>1, <1>2, <1>3, <2>1, <2>2 DEF Careful
  <2>3. CASE t # s
    BY <1>1, <1>3, <2>1, <2>3 DEF Careful, CountCurrent
  <2> QED
    BY <2>2, <2>3
<1>9. Cut'
  <2>1. CASE UNCHANGED <<lastAt, collectedAt>>
    BY <2>1 DEF SerialInv, Cut, Unix
  <2>2. CASE StoreCollected(s)
    BY <2>2 DEF StoreCollected, SerialInv, Cut, Unix, Kinds
  <2> QED
    BY <1>1, <2>1, <2>2 DEF Careful, Stores
<1> QED
  BY <1>6, <1>7, <1>8, <1>9 DEF SerialInv

\* A round checks each of its sources once, before it has a job for it.
LEMMA RoundKeepsSerial ==
    ASSUME Kinds, Flow, SerialInv, NEW r \in Rounds, Rounding(r)
    PROVE  SerialInv'
<1>0. \A q \in Rounds : round[q] \in [phase : {"idle", "check", "collect"}, todo : SUBSET Sources, pick : Sources \cup {NoSource}]
  BY DEF Kinds
<1>1. UNCHANGED <<lastAt, collectedAt, deactCount, now>> /\ faults' \in {faults, faults + 1} /\ faults \in Nat
  BY DEF Rounding, StartRound, RoundStep, CheckBreaker, CheckDue, CheckError, Launch, EndRound, RoundFrame,
         redis, bounds, Fault, Kinds
<1>2. CASE CheckDue(r)
  <2> DEFINE s == round[r].pick
  <2>1. s \in Sources /\ s \in round[r].todo /\ round[r].phase = "check"
    BY <1>0, <1>2 DEF CheckDue, Flow
  <2>2. /\ \A q \in Rounds \ {r} : round'[q] = round[q]
        /\ round'[r].phase = "check" /\ round'[r].todo = round[r].todo \ {s}
    BY <1>0, <1>2, <2>1 DEF CheckDue, Checked, Kinds
  <2>3. \A q \in Rounds, t \in Sources : q # r \/ t # s => job'[q][t] = job[q][t]
    BY <1>2, <2>1 DEF CheckDue, Kinds
  <2>4. job'[r][s].step # "none" => job'[r][s].step = "queued" /\ Due(s)
    <3>1. job[r][s] \in JobType /\ job[r][s].step = "none"
      BY <2>1 DEF Kinds, SerialInv, Unchecked
    <3>2. CASE Due(s)
      <4>1. job'[r][s] = [job[r][s] EXCEPT !.step = "queued"]
        BY <1>2, <2>1, <3>2 DEF CheckDue, Kinds
      <4> QED
        BY <3>1, <3>2, <4>1 DEF JobType
    <3>3. CASE ~Due(s)
      BY <1>2, <3>1, <3>3 DEF CheckDue
    <3> QED
      BY <3>2, <3>3
  <2> HIDE DEF s
  <2>5. Unchecked'
    BY <2>1, <2>2, <2>3 DEF SerialInv, Unchecked
  <2>6. StillDue' /\ Cut'
    BY <1>1, <2>3, <2>4 DEF SerialInv, StillDue, Due, Cut, Unix
  <2>7. faults' = 0 => CountCurrent'
    BY <1>1, <2>3, <2>4 DEF SerialInv, CountCurrent
  <2> QED
    BY <2>5, <2>6, <2>7 DEF SerialInv
<1>3. ASSUME ~CheckDue(r) PROVE SerialInv'
  <2>1. UNCHANGED job
    BY <1>3 DEF Rounding, StartRound, RoundStep, CheckBreaker, CheckError, Launch, EndRound
  <2>2. \A q \in Rounds \ {r} : round'[q] = round[q]
    BY DEF Rounding, StartRound, RoundStep, CheckBreaker, CheckDue, CheckError, Checked, Launch, EndRound, Kinds
  <2>3. /\ round'[r].phase = "idle" => \A s \in Sources : job[r][s].step = "none"
        /\ \A s \in round'[r].todo : s \in round[r].todo \/ round[r].phase = "idle"
    <3>1. CASE StartRound(r)
      BY <1>0, <3>1 DEF StartRound, Kinds
    <3>2. ASSUME NEW s \in Sources, Checked(r, s), round[r].phase = "check"
          PROVE  round'[r].phase = "check" /\ round'[r].todo \subseteq round[r].todo
      BY <1>0, <3>2 DEF Checked, Kinds
    <3>3. CASE \E s \in Sources : CheckBreaker(r, s)
      <4>1. PICK s \in Sources : CheckBreaker(r, s)
        BY <3>3
      <4>2. CASE Deactivated(s)
        BY <3>2, <4>1, <4>2 DEF CheckBreaker
      <4>3. CASE ~Deactivated(s)
        <5>1. round' = [round EXCEPT ![r].pick = s] /\ round[r].phase = "check"
          BY <4>1, <4>3 DEF CheckBreaker
        <5>2. round'[r].phase = round[r].phase /\ round'[r].todo = round[r].todo
          BY <1>0, <5>1 DEF Kinds
        <5> QED
          BY <5>1, <5>2
      <4> QED
        BY <4>2, <4>3
    <3>4. CASE \E s \in Sources : CheckError(r, s)
      BY <3>2, <3>4 DEF CheckError
    <3>5. CASE Launch(r)
      BY <1>0, <3>5 DEF Launch, Kinds
    <3>6. CASE EndRound(r)
      BY <1>0, <3>6 DEF EndRound, Idle, Kinds
    <3> QED
      BY <1>3, <3>1, <3>3, <3>4, <3>5, <3>6 DEF Rounding, RoundStep
  <2>4. Unchecked'
    BY <2>1, <2>2, <2>3 DEF SerialInv, Unchecked
  <2>5. StillDue' /\ Cut' /\ (faults' = 0 => CountCurrent')
    BY <1>1, <2>1 DEF SerialInv, StillDue, Due, Cut, Unix, CountCurrent
  <2> QED
    BY <2>4, <2>5 DEF SerialInv
<1> QED
  BY <1>2, <1>3

\* Every step keeps what holds between rounds that do not overlap.
LEMMA SerialNext == Kinds /\ Flow /\ Serial /\ SerialInv /\ [Next]_vars => SerialInv'
<1> SUFFICES ASSUME Kinds, Flow, Serial, SerialInv, [Next]_vars PROVE SerialInv'
  OBVIOUS
<1>1. CASE RefreshSources \/ UNCHANGED vars
  BY <1>1 DEF RefreshSources, vars, redis, bounds, SerialInv, Unchecked, StillDue, Due, Cut, Unix, CountCurrent
<1>2. CASE Tick
  <2>1. /\ UNCHANGED <<round, job, lastAt, collectedAt, deactCount, faults>>
        /\ now' = now + 1 /\ now \in Nat /\ lastAt \in [Sources -> Int] /\ Interval \in Nat
    BY <1>2 DEF Tick, redis, Kinds
  <2>2. \A s \in Sources : Due(s) => Due(s)'
    BY <2>1 DEF Due
  <2> QED
    BY <2>1, <2>2 DEF SerialInv, Unchecked, StillDue, Cut, Unix, CountCurrent
<1>3. CASE Restart
  BY <1>3 DEF Restart, redis, NoJob, SerialInv, Unchecked, StillDue, Cut, Unix, CountCurrent
<1> QED
  BY <1>1, <1>2, <1>3, JobKeepsSerial, RoundKeepsSerial, StepKinds

\* In the initial state there is no job.
LEMMA SerialInit == Init => SerialInv
BY DEF Init, NoJob, SerialInv, Unchecked, StillDue, Cut, CountCurrent

\* Only a job that was due notes a collection.
LEMMA CollectedWhenDue ==
    ASSUME Kinds, Flow, SerialInv, [Next]_vars, NEW s \in Sources, collectedAt'[s] # collectedAt[s]
    PROVE  Due(s)
<1>1. ~(RefreshSources \/ Restart \/ Tick \/ UNCHANGED vars)
  BY DEF RefreshSources, Restart, Tick, vars, redis
<1>2. \A r \in Rounds : ~Rounding(r)
  BY RoundingDoes DEF redis
<1>3. PICK r \in Rounds, t \in Sources :
         QuietStep(r, t) \/ PublishStep(r, t) \/ \E u \in Urls : FilterStep(r, t, u)
  BY <1>1, <1>2, StepKinds
<1>4. PICK j \in JobType : Careful(r, t, j)
  BY <1>3, JobIsCareful
<1>5. t = s /\ job[r][s].step = "setCollected"
  BY <1>4 DEF Careful, Stores, StoreCollected, Kinds
<1> QED
  BY <1>5 DEF SerialInv, StillDue

\* Rounds that do not overlap collect a source in its intervals, but for less than
\* the second that Unix() cuts off, whatever errors, lost replies and restarts come
\* between.
THEOREM IntervalsHold == Spec /\ []Serial => IntervalKept
<1>3. ASSUME IInv, SerialInv, [Next]_vars, NEW s \in Sources,
             collectedAt'[s] # collectedAt[s], collectedAt[s] # -1
      PROVE  now > collectedAt[s] + Interval - Second
  <2>1. Due(s)
    BY <1>3, CollectedWhenDue DEF IInv
  <2>2. collectedAt[s] \in Nat /\ lastAt[s] = Unix(collectedAt[s])
    BY <1>3 DEF SerialInv, Cut
  <2>3. lastAt[s] \in Int /\ 0 <= lastAt[s] /\ collectedAt[s] < lastAt[s] + Second
    BY <2>2, CutOff
  <2>4. now > lastAt[s] + Interval /\ now \in Nat
    BY <1>3, <2>1, <2>3 DEF Due, IInv, Kinds
  <2> QED
    BY <2>2, <2>3, <2>4
<1>1. IInv /\ SerialInv /\ [Next]_vars =>
        [\A s \in Sources : collectedAt'[s] # collectedAt[s] /\ collectedAt[s] # -1 =>
            now > collectedAt[s] + Interval - Second]_vars
  BY <1>3
<1>2. IInv /\ Serial /\ SerialInv /\ [Next]_vars => SerialInv'
  BY SerialNext DEF IInv
<1> QED
  BY <1>1, <1>2, SerialInit, Always, PTL DEF Spec, IntervalKept

\* A deactivation lasts as long as the count that its job has read demands.
LEMMA DeactivatedByCount ==
    ASSUME Kinds, Flow, SerialInv, faults = 0, [Next]_vars, NEW s \in Sources, deactUntil'[s] # deactUntil[s]
    PROVE  deactUntil'[s] - now = CalcBackoff(deactCount[s])
<1>1. ~(RefreshSources \/ Restart \/ Tick \/ UNCHANGED vars)
  BY DEF RefreshSources, Restart, Tick, vars, redis
<1>2. \A r \in Rounds : ~Rounding(r)
  BY RoundingDoes DEF redis
<1>3. PICK r \in Rounds, t \in Sources :
         QuietStep(r, t) \/ PublishStep(r, t) \/ \E u \in Urls : FilterStep(r, t, u)
  BY <1>1, <1>2, StepKinds
<1>4. PICK j \in JobType : Careful(r, t, j)
  BY <1>3, JobIsCareful
<1>5. /\ t = s /\ job[r][s].step = "deactivate"
      /\ deactUntil'[s] = now + CalcBackoff(job[r][s].deacts)
  BY <1>4 DEF Careful, Kinds
<1>6. job[r][s].deacts = deactCount[s]
  BY <1>5 DEF SerialInv, CountCurrent
<1>7. now \in Int /\ CalcBackoff(deactCount[s]) \in Int
  BY BackoffType DEF Kinds
<1> QED
  BY <1>5, <1>6, <1>7

\* CalcBackoff stops doubling after ten deactivations, which makes no difference
\* where the longest backoff is reached by then: 15 minutes and 24 hours, the
\* defaults, reach it after seven.
LEMMA BackoffIs ==
    ASSUME \A n \in Nat : n >= 10 => BaseBackoff * 2^n >= MaxBackoff, NEW n \in Nat
    PROVE  CalcBackoff(n) = IF BaseBackoff * 2^n <= MaxBackoff THEN BaseBackoff * 2^n ELSE MaxBackoff
<1>1. BaseBackoff * 2^n \in Int /\ BaseBackoff * 2^10 \in Int /\ MaxBackoff \in Int
  <2>1. 2^n \in Int /\ 2^10 \in Int
    OBVIOUS
  <2> QED
    BY <2>1
<1>2. CASE n <= 10
  BY <1>2 DEF CalcBackoff
<1>3. CASE n > 10
  <2>0. n >= 10 /\ 10 >= 10 /\ 10 \in Nat
    BY <1>3
  <2>3. BaseBackoff * 2^n >= MaxBackoff
    BY <2>0, Zenon
  <2>4. BaseBackoff * 2^10 >= MaxBackoff
    BY <2>0, Zenon
  <2>1. BaseBackoff * 2^n >= MaxBackoff /\ BaseBackoff * 2^10 >= MaxBackoff
    BY <2>3, <2>4
  <2>2. CalcBackoff(n) = IF BaseBackoff * 2^10 <= MaxBackoff THEN BaseBackoff * 2^10 ELSE MaxBackoff
    BY <1>3 DEF CalcBackoff
  <2> QED
    BY <1>1, <2>1, <2>2
<1> QED
  BY <1>2, <1>3

\* While rounds do not overlap and nothing has failed, the k-th deactivation of a
\* source lasts BaseBackoff * 2^(k-1), up to MaxBackoff, for every k.
THEOREM BackoffHolds ==
    ASSUME \A n \in Nat : n >= 10 => BaseBackoff * 2^n >= MaxBackoff
    PROVE  Spec /\ []Serial /\ [](faults = 0) => BackoffDoubles
<1>1. ASSUME IInv, SerialInv, faults = 0, [Next]_vars, NEW s \in Sources, deactUntil'[s] # deactUntil[s]
      PROVE  LET full == BaseBackoff * 2^deactCount[s] IN
             deactUntil'[s] - now = IF full <= MaxBackoff THEN full ELSE MaxBackoff
  <2>1. deactUntil'[s] - now = CalcBackoff(deactCount[s])
    BY <1>1, DeactivatedByCount DEF IInv
  <2>2. deactCount[s] \in Nat
    BY <1>1 DEF IInv, Kinds
  <2> QED
    BY <2>1, <2>2, BackoffIs
<1>2. IInv /\ SerialInv /\ faults = 0 /\ [Next]_vars =>
        [\A s \in Sources : deactUntil'[s] # deactUntil[s] =>
            LET full == BaseBackoff * 2^deactCount[s] IN
            deactUntil'[s] - now = IF full <= MaxBackoff THEN full ELSE MaxBackoff]_vars
  BY <1>1
<1>3. IInv /\ Serial /\ SerialInv /\ [Next]_vars => SerialInv'
  BY SerialNext DEF IInv
<1> QED
  BY <1>2, <1>3, SerialInit, Always, PTL DEF Spec, BackoffDoubles

-----------------------------------------------------------------------------
(* Every round comes nearer to its end.  What RoundsEnd adds is the fairness. *)

\* Steps that collectFromSource has left at most, without those of its filter.
JobLeft(step) ==
    CASE step = "queued"       -> 10
      [] step = "parse"        -> 9
      [] step = "setCollected" -> 8
      [] step = "resetErrors"  -> 7
      [] step = "filter"       -> 6
      [] step = "publish"      -> 5
      [] step = "countError"   -> 4
      [] step = "readDeacts"   -> 3
      [] step = "deactivate"   -> 2
      [] step = "resetAfter"   -> 1
      [] step = "none"         -> 0

JobShrinks(r, s) ==
    \/ job'[r][s] = job[r][s]
    \/ JobLeft(job'[r][s].step) < JobLeft(job[r][s].step)
    \/ /\ job'[r][s].step = job[r][s].step
       /\ job'[r][s].left \subseteq job[r][s].left /\ job'[r][s].left # job[r][s].left

\* A source less to check, or a source that passed the breaker.
CheckShrinks(r) ==
    \/ round'[r] = round[r] /\ job'[r] = job[r]
    \/ round'[r].todo \subseteq round[r].todo /\ round'[r].todo # round[r].todo
    \/ /\ round'[r].todo = round[r].todo /\ job'[r] = job[r]
       /\ round[r].pick = NoSource /\ round'[r].pick # NoSource

RoundShrinks(r) ==
    \/ round'[r] = Idle /\ \A s \in Sources : job'[r][s].step = "none"
    \/ round[r].phase = "check" /\ round'[r].phase = "check" /\ CheckShrinks(r)
    \/ round[r].phase = "check" /\ round'[r].phase = "collect" /\ job'[r] = job[r]
    \/ round[r].phase = "collect" /\ round'[r] = round[r] /\ \A s \in Sources : JobShrinks(r, s)

\* No source is checked twice in a round, no step of a goroutine and no URL of
\* its feed comes back, whatever fails and however the rounds overlap.
RoundsShrink == [][\A r \in Rounds : round[r].phase # "idle" => RoundShrinks(r)]_vars

\* What is left, step by step.
LEMMA JobLeftIs ==
    /\ JobLeft("queued") = 10 /\ JobLeft("parse") = 9 /\ JobLeft("setCollected") = 8
    /\ JobLeft("resetErrors") = 7 /\ JobLeft("filter") = 6 /\ JobLeft("publish") = 5
    /\ JobLeft("countError") = 4 /\ JobLeft("readDeacts") = 3 /\ JobLeft("deactivate") = 2
    /\ JobLeft("resetAfter") = 1 /\ JobLeft("none") = 0
BY DEF JobLeft

\* A step that leads the job of r and s to j leaves less of it.
Nearer(r, s, j) == Moves(r, s, j) /\ JobLeft(j.step) < JobLeft(job[r][s].step)

\* Goto and Finish bring a job nearer to its end.
LEMMA GoesNearer ==
    ASSUME Kinds, NEW r \in Rounds, NEW s \in Sources, NEW step \in Steps,
           Goto(r, s, step) \/ (step = "none" /\ Finish(r, s)),
           JobLeft(step) < JobLeft(job[r][s].step)
    PROVE  \E j \in JobType : Nearer(r, s, j)
<1>1. CASE Goto(r, s, step)
  <2>1. PICK j \in JobType : Moves(r, s, j) /\ j = [job[r][s] EXCEPT !.step = step]
    BY <1>1, GotoMoves
  <2>2. job[r][s] \in JobType
    BY DEF Kinds
  <2>3. j.step = step
    BY <2>1, <2>2 DEF JobType
  <2> QED
    BY <2>1, <2>3 DEF Nearer
<1>2. CASE step = "none" /\ Finish(r, s)
  <2>1. Moves(r, s, NoJob) /\ NoJob.step = "none"
    BY <1>2 DEF Finish, Moves, NoJob
  <2> QED
    BY <1>2, <2>1, NoJobType DEF Nearer
<1> QED
  BY <1>1, <1>2

\* So does every step outside the filter.
LEMMA QuietIsNearer ==
    ASSUME Kinds, NEW r \in Rounds, NEW s \in Sources, QuietStep(r, s)
    PROVE  \E j \in JobType : Nearer(r, s, j)
<1>0. job[r][s] \in JobType
  BY DEF Kinds
<1>1. CASE GetDeactivationCount(r, s) \/ GetDeactivationError(r, s)
  <2>1. PICK d \in Nat : job' = [job EXCEPT ![r][s] = [@ EXCEPT !.step = "deactivate", !.deacts = d]]
    BY <1>1 DEF GetDeactivationCount, GetDeactivationError, Kinds
  <2> DEFINE j == [job[r][s] EXCEPT !.step = "deactivate", !.deacts = d]
  <2>2. j \in JobType /\ j.step = "deactivate"
    BY <1>0 DEF JobType, Steps
  <2>3. Moves(r, s, j)
    BY <2>1 DEF Moves
  <2>4. job[r][s].step = "readDeacts"
    BY <1>1 DEF GetDeactivationCount, GetDeactivationError
  <2>5. Nearer(r, s, j)
    <3> HIDE DEF j
    <3> QED
      BY <2>2, <2>3, <2>4, JobLeftIs DEF Nearer
  <2> QED
    BY <2>2, <2>5
<1> USE JobLeftIs DEF Steps
<1>2. CASE Acquire(r, s)
  BY <1>2, GoesNearer DEF Acquire
<1>3. CASE ParseOk(r, s)
  <2> DEFINE j == [job[r][s] EXCEPT !.step = "setCollected", !.left = Feed[s]]
  <2>1. j \in JobType /\ j.step = "setCollected"
    BY <1>0 DEF JobType
  <2>2. Moves(r, s, j)
    BY <1>3 DEF ParseOk, Moves
  <2>3. Nearer(r, s, j)
    <3> HIDE DEF j
    <3> QED
      BY <1>3, <2>1, <2>2 DEF ParseOk, Nearer
  <2> QED
    BY <2>1, <2>3
<1>4. CASE ParseFails(r, s)
  BY <1>4, GoesNearer DEF ParseFails
<1>5. CASE SetCollected(r, s)
  BY <1>5, GoesNearer DEF SetCollected
<1>6. CASE ResetErrors(r, s)
  BY <1>6, GoesNearer DEF ResetErrors
<1>7. CASE SetCollectedError(r, s) \/ ResetError(r, s)
  BY <1>7, GoesNearer DEF SetCollectedError, ResetError
<1>8. CASE Filtered(r, s)
  BY <1>8, GoesNearer DEF Filtered
<1>9. CASE IncrementErrorCount(r, s)
  BY <1>9, GoesNearer DEF IncrementErrorCount
<1>10. CASE LocallyDeactivate(r, s)
  BY <1>10, GoesNearer DEF LocallyDeactivate
<1>11. CASE DeactivateError(r, s)
  BY <1>11, GoesNearer DEF DeactivateError
<1>12. CASE ResetAfter(r, s) \/ ResetAfterError(r, s)
  BY <1>12, GoesNearer DEF ResetAfter, ResetAfterError
<1>13. CASE CountError(r, s)
  BY <1>13, GoesNearer DEF CountError
<1> QED
  BY <1>1, <1>2, <1>3, <1>4, <1>5, <1>6, <1>7, <1>8, <1>9, <1>10, <1>11, <1>12, <1>13 DEF QuietStep

\* A step of a job leaves less of it, and leaves the rounds and the other jobs alone.
LEMMA JobStepShrinks ==
    ASSUME Kinds, Flow, NEW r \in Rounds, NEW s \in Sources,
           QuietStep(r, s) \/ PublishStep(r, s) \/ \E u \in Urls : FilterStep(r, s, u)
    PROVE  \A q \in Rounds : round[q].phase # "idle" => RoundShrinks(q)
<1>1. UNCHANGED round
  BY JobIsCareful
<1>2. /\ \A q \in Rounds, t \in Sources : q # r \/ t # s => job'[q][t] = job[q][t]
      /\ JobShrinks(r, s)
  <2>1. ASSUME NEW j \in JobType, Moves(r, s, j),
               \/ JobLeft(j.step) < JobLeft(job[r][s].step)
               \/ j.step = job[r][s].step /\ j.left \subseteq job[r][s].left /\ j.left # job[r][s].left
        PROVE  /\ \A q \in Rounds, t \in Sources : q # r \/ t # s => job'[q][t] = job[q][t]
               /\ JobShrinks(r, s)
    BY <2>1, Moved DEF JobShrinks
  <2>2. CASE QuietStep(r, s)
    BY <2>1, <2>2, QuietIsNearer DEF Nearer
  <2>3. CASE PublishStep(r, s)
    <3>1. Moves(r, s, NoJob) /\ job[r][s].step = "publish" /\ NoJob.step = "none"
      BY <2>3, PublishSteps DEF NoJob
    <3> QED
      BY <2>1, <3>1, NoJobType, JobLeftIs
  <2>4. ASSUME NEW u \in Urls, FilterStep(r, s, u)
        PROVE  /\ \A q \in Rounds, t \in Sources : q # r \/ t # s => job'[q][t] = job[q][t]
               /\ JobShrinks(r, s)
    <3>1. PICK j \in JobType : Filters(r, s, u, j)
      BY <2>4, FilterDoes
    <3>2. u \in job[r][s].left
      BY <2>4 DEF FilterStep, IsNewURL, DedupError, DedupResent
    <3> QED
      BY <2>1, <3>1, <3>2 DEF Filters
  <2> QED
    BY <2>2, <2>3, <2>4
<1>3. \A t \in Sources : JobShrinks(r, t)
  BY <1>2 DEF JobShrinks
<1>4. round[r].phase = "collect"
  <2>1. round[r].phase = "collect" \/ job[r][s].step \notin Waiting
    BY DEF QuietStep, Acquire, ParseOk, ParseFails, SetCollected, ResetErrors, SetCollectedError, ResetError,
           Filtered, IncrementErrorCount, GetDeactivationCount, GetDeactivationError, LocallyDeactivate,
           DeactivateError, ResetAfter, CountError, ResetAfterError, PublishStep, Publish, PublishRetried,
           PublishError, FilterStep, IsNewURL, DedupError, DedupResent, Waiting
  <2> QED
    BY <2>1 DEF Flow
<1>5. \A q \in Rounds : q # r => job'[q] = job[q]
  <2>1. \E j \in JobType : Careful(r, s, j)
    BY JobIsCareful
  <2>2. PICK j \in JobType : Moves(r, s, j)
    BY <2>1 DEF Careful
  <2> QED
    BY <2>2 DEF Moves, Kinds
<1>6. \A q \in Rounds : q # r => \A t \in Sources : JobShrinks(q, t)
  BY <1>5 DEF JobShrinks
<1>7. \A q \in Rounds : round[q].phase \in {"idle", "check", "collect"}
  BY DEF Kinds
<1> QED
  BY <1>1, <1>3, <1>4, <1>5, <1>6, <1>7 DEF RoundShrinks, CheckShrinks

\* A step of a round takes one of its sources on, or ends a phase.
LEMMA RoundStepShrinks ==
    ASSUME Kinds, Flow, NEW r \in Rounds, Rounding(r)
    PROVE  \A q \in Rounds : round[q].phase # "idle" => RoundShrinks(q)
<1>0. \A q \in Rounds : round[q] \in [phase : {"idle", "check", "collect"}, todo : SUBSET Sources, pick : Sources \cup {NoSource}]
  BY DEF Kinds
<1>1. \A q \in Rounds \ {r} : round'[q] = round[q] /\ job'[q] = job[q]
  <2>1. \A q \in Rounds \ {r} : round'[q] = round[q]
    BY DEF Rounding, StartRound, RoundStep, CheckBreaker, CheckDue, CheckError, Checked, Launch, EndRound, Kinds
  <2>2. \A q \in Rounds \ {r} : job'[q] = job[q]
    BY RoundingDoes DEF Moves, Kinds
  <2> QED
    BY <2>1, <2>2
<1>2. \A q \in Rounds \ {r} : round[q].phase # "idle" => RoundShrinks(q)
  BY <1>0, <1>1 DEF RoundShrinks, CheckShrinks, JobShrinks
<1> SUFFICES ASSUME round[r].phase # "idle" PROVE RoundShrinks(r)
  BY <1>2
<1>3. ASSUME NEW s \in round[r].todo, Checked(r, s), round[r].phase = "check" PROVE RoundShrinks(r)
  <2>1. round'[r].phase = "check" /\ round'[r].todo = round[r].todo \ {s}
    BY <1>0, <1>3 DEF Checked, Kinds
  <2> QED
    BY <1>3, <2>1 DEF RoundShrinks, CheckShrinks
<1>4. ASSUME NEW s \in Sources, CheckBreaker(r, s) PROVE RoundShrinks(r)
  <2>1. CASE Deactivated(s)
    BY <1>3, <1>4, <2>1 DEF CheckBreaker
  <2>2. CASE ~Deactivated(s)
    <3>1. round' = [round EXCEPT ![r].pick = s] /\ round[r].phase = "check" /\ round[r].pick = NoSource /\ job' = job
      BY <1>4, <2>2 DEF CheckBreaker
    <3>2. round'[r].phase = round[r].phase /\ round'[r].todo = round[r].todo /\ round'[r].pick = s
      BY <1>0, <3>1 DEF Kinds
    <3> QED
      BY <3>1, <3>2 DEF RoundShrinks, CheckShrinks
  <2> QED
    BY <2>1, <2>2
<1>5. CASE CheckDue(r)
  BY <1>3, <1>5 DEF CheckDue, Flow
<1>6. ASSUME NEW s \in Sources, CheckError(r, s) PROVE RoundShrinks(r)
  BY <1>3, <1>6 DEF CheckError
<1>7. CASE Launch(r)
  <2>1. round'[r].phase = "collect" /\ round[r].phase = "check" /\ job' = job
    BY <1>0, <1>7 DEF Launch, Kinds
  <2> QED
    BY <2>1 DEF RoundShrinks
<1>8. CASE EndRound(r)
  <2>1. round'[r] = Idle /\ job' = job /\ \A s \in Sources : job[r][s].step = "none"
    BY <1>8 DEF EndRound, Kinds
  <2> QED
    BY <2>1 DEF RoundShrinks
<1>9. ~StartRound(r)
  BY DEF StartRound
<1> QED
  BY <1>4, <1>5, <1>6, <1>7, <1>8, <1>9 DEF Rounding, RoundStep

\* A round that is not idle comes nearer to its end with every step that touches it.
THEOREM RoundsComeToEnd == Spec => RoundsShrink
<1>1. ASSUME Kinds, Flow, [Next]_vars PROVE [\A r \in Rounds : round[r].phase # "idle" => RoundShrinks(r)]_vars
  <2>1. CASE UNCHANGED vars
    BY <2>1
  <2>2. CASE RefreshSources \/ Tick
    <3>1. UNCHANGED <<round, job>> /\ \A r \in Rounds : round[r].phase \in {"idle", "check", "collect"}
      BY <1>1, <2>2 DEF RefreshSources, Tick, Kinds
    <3> QED
      BY <3>1 DEF RoundShrinks, CheckShrinks, JobShrinks
  <2>3. CASE Restart
    BY <2>3 DEF Restart, RoundShrinks, NoJob
  <2> QED
    BY <1>1, <2>1, <2>2, <2>3, StepKinds, JobStepShrinks, RoundStepShrinks
<1>2. IInv /\ [Next]_vars => [\A r \in Rounds : round[r].phase # "idle" => RoundShrinks(r)]_vars
  BY <1>1 DEF IInv
<1> QED
  BY <1>2, Always, PTL DEF Spec, RoundsShrink
=============================================================================
