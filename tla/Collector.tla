------------------------------ MODULE Collector ------------------------------
(***************************************************************************)
(* news-collector: cron rounds that collect the RSS sources that are due   *)
(* (internal/services/collector), with their state in Redis                *)
(* (internal/store/collector).                                             *)
(*                                                                         *)
(* cron starts a round every minute, also while earlier ones still run.  A *)
(* round reads the breaker and the last collection of every source, then   *)
(* collects the due ones in goroutines, MaxWorkers of them at a time: it   *)
(* parses the feed, and either counts the error and may open the breaker,  *)
(* or filters the URLs seen before and publishes the rest to raw_news.     *)
(* Every Redis call is a step of its own.  go-redis sends a command again  *)
(* when its reply is lost, so a call may have been applied several times.  *)
(***************************************************************************)
EXTENDS Integers, FiniteSets

CONSTANTS
    Sources, Urls,
    Feed,         \* the (normalised) URLs in the feed of a source
    Rounds,       \* slots for rounds that run at the same time
    MaxWorkers,   \* collector.max_workers
    MaxErrCount,  \* collector.max_error_count
    Second,       \* ticks of the clock in a second
    Minute,       \* ticks of the clock in a minute: "0 * * * * *"
    Interval,     \* fetch_interval of the sources, whole seconds, in ticks
    DedupTTL,     \* collector.dedup_ttl
    BaseBackoff, MaxBackoff,
    RedisRetries, \* MaxRetries of go-redis, 3 unless it is set
    MaxTime,      \* bound: the clock, in ticks
    MaxFaults,    \* bound: errors of Redis and Kafka and lost replies of Redis
    MaxCrashes,   \* bound: restarts
    NoSource

ASSUME CollectorAssumption ==
    /\ Feed \in [Sources -> SUBSET Urls]
    /\ MaxWorkers \in Nat \ {0} /\ MaxErrCount \in Nat
    /\ Second \in Nat \ {0} /\ Minute \in Nat \ {0} /\ Interval \in Nat
    /\ DedupTTL \in Nat \ {0} /\ BaseBackoff \in Nat /\ MaxBackoff \in Nat
    /\ RedisRetries \in Nat
    /\ MaxTime \in Nat /\ MaxFaults \in Nat /\ MaxCrashes \in Nat
    /\ NoSource \notin Sources

VARIABLES
    sources,     \* the cache of RefreshSources
    round,       \* per round: its phase, the sources still to check, the one being checked
    job,         \* per round and source: the goroutine of collectFromSource
    fired,       \* the minute of the last round
    lastAt,      \* last_collected_at in ticks, -1 without one
    collectedAt, \* the time at which last_collected_at was taken
    errorCount,
    deactCount,  \* deactivation_count
    deactUntil,  \* end of the nc:deact key's life
    seenUntil,   \* end of the nc:seen key's life
    published,   \* messages in raw_news
    lost,        \* URLs seen and dropped by a failed publish, a crash or a lost reply
    now, faults, crashes

redis  == <<lastAt, collectedAt, errorCount, deactCount, deactUntil, seenUntil>>
kafka  == <<published, lost>>
bounds == <<now, faults, crashes>>
vars   == <<sources, round, job, fired, lastAt, collectedAt, errorCount, deactCount,
            deactUntil, seenUntil, published, lost, now, faults, crashes>>

Idle  == [phase |-> "idle", todo |-> {}, pick |-> NoSource]
NoJob == [step |-> "none", left |-> {}, fresh |-> {}, deacts |-> 0]

Steps == {"none", "queued", "parse", "setCollected", "resetErrors", "filter", "publish",
          "countError", "readDeacts", "deactivate", "resetAfter"}

Deactivated(s) == deactUntil[s] > now
Seen(u) == seenUntil[u] > now

Fault == faults < MaxFaults /\ faults' = faults + 1

\* n replies are lost and the command is sent again, with success in the end.
Resent(n) == faults + n <= MaxFaults /\ faults' = faults + n

\* A call that returns an error was applied so many times.
Applied == 0..RedisRetries + 1

Init ==
    /\ sources = {}
    /\ round = [r \in Rounds |-> Idle]
    /\ job = [r \in Rounds |-> [s \in Sources |-> NoJob]]
    /\ fired = -1
    /\ lastAt = [s \in Sources |-> -1]
    /\ collectedAt = [s \in Sources |-> -1]
    /\ errorCount = [s \in Sources |-> 0]
    /\ deactCount = [s \in Sources |-> 0]
    /\ deactUntil = [s \in Sources |-> 0]
    /\ seenUntil = [u \in Urls |-> 0]
    /\ published = [u \in Urls |-> 0]
    /\ lost = {}
    /\ now = 0 /\ faults = 0 /\ crashes = 0

-----------------------------------------------------------------------------
(* RefreshSources and CollectFromDueSources *)

\* main-service answers with the sources it has at that moment.
RefreshSources ==
    /\ \E current \in SUBSET Sources : sources' = current
    /\ UNCHANGED <<round, job, fired, redis, kafka, bounds>>

StartRound(r) ==
    /\ round[r].phase = "idle"
    /\ fired < now \div Minute
    /\ sources # {}
    /\ fired' = now \div Minute
    /\ round' = [round EXCEPT ![r] = [phase |-> "check", todo |-> sources, pick |-> NoSource]]
    /\ UNCHANGED <<sources, job, redis, kafka, bounds>>

Checked(r, s) == round' = [round EXCEPT ![r].todo = @ \ {s}, ![r].pick = NoSource]

RoundFrame == UNCHANGED <<sources, fired, redis, kafka, now, crashes>>

CheckBreaker(r, s) ==
    /\ round[r].phase = "check" /\ round[r].pick = NoSource
    /\ s \in round[r].todo
    /\ IF Deactivated(s) THEN Checked(r, s) ELSE round' = [round EXCEPT ![r].pick = s]
    /\ UNCHANGED <<job, faults>> /\ RoundFrame

\* Mutant: the check of the interval is a second short.
DueEarly(s) == lastAt[s] = -1 \/ now > lastAt[s] + Interval - Second

\* After(nextFetch): strictly later than the end of the interval.
Due(s) == lastAt[s] = -1 \/ now > lastAt[s] + Interval

CheckDue(r) ==
    LET s == round[r].pick IN
    /\ s # NoSource
    /\ Checked(r, s)
    /\ job' = IF Due(s) THEN [job EXCEPT ![r][s].step = "queued"] ELSE job
    /\ UNCHANGED faults /\ RoundFrame

\* A Redis error in either check leaves the source out of the round.
CheckError(r, s) ==
    /\ round[r].phase = "check"
    /\ s \in round[r].todo /\ round[r].pick \in {NoSource, s}
    /\ Fault
    /\ Checked(r, s)
    /\ UNCHANGED job /\ RoundFrame

Launch(r) ==
    /\ round[r].phase = "check" /\ round[r].todo = {}
    /\ round' = [round EXCEPT ![r].phase = "collect"]
    /\ UNCHANGED <<job, faults>> /\ RoundFrame

\* wg.Wait
EndRound(r) ==
    /\ round[r].phase = "collect"
    /\ \A s \in Sources : job[r][s].step = "none"
    /\ round' = [round EXCEPT ![r] = Idle]
    /\ UNCHANGED <<job, faults>> /\ RoundFrame

-----------------------------------------------------------------------------
(* collectFromSource *)

Running(r) == {s \in Sources : job[r][s].step \notin {"none", "queued"}}

Goto(r, s, step) == job' = [job EXCEPT ![r][s].step = step]
Finish(r, s) == job' = [job EXCEPT ![r][s] = NoJob]

JobFrame == UNCHANGED <<sources, round, fired, now, crashes>>

\* Mutant: the semaphore has room for one more.
AcquireOneMore(r, s) ==
    /\ round[r].phase = "collect" /\ job[r][s].step = "queued"
    /\ Cardinality(Running(r)) <= MaxWorkers
    /\ Goto(r, s, "parse")
    /\ UNCHANGED <<redis, kafka, faults>> /\ JobFrame

Acquire(r, s) ==
    /\ round[r].phase = "collect" /\ job[r][s].step = "queued"
    /\ Cardinality(Running(r)) < MaxWorkers
    /\ Goto(r, s, "parse")
    /\ UNCHANGED <<redis, kafka, faults>> /\ JobFrame

ParseOk(r, s) ==
    /\ job[r][s].step = "parse"
    /\ job' = [job EXCEPT ![r][s] = [@ EXCEPT !.step = "setCollected", !.left = Feed[s]]]
    /\ UNCHANGED <<redis, kafka, faults>> /\ JobFrame

\* All attempts of ParseFeedWithRetry have failed.
ParseFails(r, s) ==
    /\ job[r][s].step = "parse"
    /\ Goto(r, s, "countError")
    /\ UNCHANGED <<redis, kafka, faults>> /\ JobFrame

\* t.Unix(): the fraction of the second is cut off.
Unix(t) == (t \div Second) * Second

StoreCollected(s) ==
    /\ lastAt' = [lastAt EXCEPT ![s] = Unix(now)]
    /\ collectedAt' = [collectedAt EXCEPT ![s] = now]

SetCollected(r, s) ==
    /\ job[r][s].step = "setCollected"
    /\ StoreCollected(s)
    /\ Goto(r, s, "resetErrors")
    /\ UNCHANGED <<errorCount, deactCount, deactUntil, seenUntil, kafka, faults>> /\ JobFrame

ResetErrors(r, s) ==
    /\ job[r][s].step = "resetErrors"
    /\ errorCount' = [errorCount EXCEPT ![s] = 0]
    /\ Goto(r, s, "filter")
    /\ UNCHANGED <<lastAt, collectedAt, deactCount, deactUntil, seenUntil, kafka, faults>>
    /\ JobFrame

\* Both errors are only logged, whether or not Redis has stored the value.
SetCollectedError(r, s) ==
    /\ job[r][s].step = "setCollected"
    /\ Fault
    /\ StoreCollected(s) \/ UNCHANGED <<lastAt, collectedAt>>
    /\ Goto(r, s, "resetErrors")
    /\ UNCHANGED <<errorCount, deactCount, deactUntil, seenUntil, kafka>> /\ JobFrame

ResetError(r, s) ==
    /\ job[r][s].step = "resetErrors"
    /\ Fault
    /\ errorCount' = [errorCount EXCEPT ![s] = 0] \/ UNCHANGED errorCount
    /\ Goto(r, s, "filter")
    /\ UNCHANGED <<lastAt, collectedAt, deactCount, deactUntil, seenUntil, kafka>> /\ JobFrame

Keep(r, s, u, isNew) ==
    job' = [job EXCEPT ![r][s].left = @ \ {u},
                       ![r][s].fresh = IF isNew THEN @ \cup {u} ELSE @]

\* Mutant: the key is tested and not set.
TestUrl(r, s, u) ==
    /\ job[r][s].step = "filter" /\ u \in job[r][s].left
    /\ Keep(r, s, u, ~Seen(u))
    /\ UNCHANGED <<redis, kafka, faults>> /\ JobFrame

\* SET NX with a TTL, which an existing key keeps.
IsNewURL(r, s, u) ==
    /\ job[r][s].step = "filter" /\ u \in job[r][s].left
    /\ Keep(r, s, u, ~Seen(u))
    /\ seenUntil' = IF Seen(u) THEN seenUntil ELSE [seenUntil EXCEPT ![u] = now + DedupTTL]
    /\ UNCHANGED <<lastAt, collectedAt, errorCount, deactCount, deactUntil, kafka, faults>>
    /\ JobFrame

\* Mutant: fail closed.
DedupErrorDrops(r, s, u) ==
    /\ job[r][s].step = "filter" /\ u \in job[r][s].left
    /\ Fault
    /\ Keep(r, s, u, FALSE)
    /\ \/ UNCHANGED seenUntil
       \/ ~Seen(u) /\ seenUntil' = [seenUntil EXCEPT ![u] = now + DedupTTL]
    /\ UNCHANGED <<lastAt, collectedAt, errorCount, deactCount, deactUntil, kafka>> /\ JobFrame

\* Redis fails, with or without having set the key: the item counts as new.
DedupError(r, s, u) ==
    /\ job[r][s].step = "filter" /\ u \in job[r][s].left
    /\ Fault
    /\ Keep(r, s, u, TRUE)
    /\ \/ UNCHANGED seenUntil
       \/ ~Seen(u) /\ seenUntil' = [seenUntil EXCEPT ![u] = now + DedupTTL]
    /\ UNCHANGED <<lastAt, collectedAt, errorCount, deactCount, deactUntil, kafka>> /\ JobFrame

\* The reply of the SET NX that set the key is lost; the command is sent again,
\* finds the key, and redis.Nil makes a new URL a duplicate.
DedupResent(r, s, u) ==
    /\ job[r][s].step = "filter" /\ u \in job[r][s].left
    /\ ~Seen(u) /\ RedisRetries > 0
    /\ Fault
    /\ Keep(r, s, u, FALSE)
    /\ seenUntil' = [seenUntil EXCEPT ![u] = now + DedupTTL]
    /\ lost' = lost \cup {u}
    /\ UNCHANGED <<lastAt, collectedAt, errorCount, deactCount, deactUntil, published>> /\ JobFrame

\* Mutant: without fresh news the goroutine does not return.
FilteredStays(r, s) ==
    /\ job[r][s].step = "filter" /\ job[r][s].left = {}
    /\ job[r][s].fresh # {}
    /\ Goto(r, s, "publish")
    /\ UNCHANGED <<redis, kafka, faults>> /\ JobFrame

Filtered(r, s) ==
    /\ job[r][s].step = "filter" /\ job[r][s].left = {}
    /\ IF job[r][s].fresh = {} THEN Finish(r, s) ELSE Goto(r, s, "publish")
    /\ UNCHANGED <<redis, kafka, faults>> /\ JobFrame

Publish(r, s) ==
    /\ job[r][s].step = "publish"
    /\ published' = [u \in Urls |-> published[u] + IF u \in job[r][s].fresh THEN 1 ELSE 0]
    /\ Finish(r, s)
    /\ UNCHANGED <<redis, lost, faults>> /\ JobFrame

\* WriteMessages has written part of the batch twice before it succeeded.
PublishRetried(r, s) ==
    /\ job[r][s].step = "publish"
    /\ Fault
    /\ \E part \in SUBSET job[r][s].fresh :
          published' = [u \in Urls |-> published[u] + IF u \in part THEN 2
                                                       ELSE IF u \in job[r][s].fresh THEN 1 ELSE 0]
    /\ Finish(r, s)
    /\ UNCHANGED <<redis, lost>> /\ JobFrame

\* WriteMessages returns an error after part of the batch; it is logged, and
\* the URLs stay marked as seen.
PublishError(r, s) ==
    /\ job[r][s].step = "publish"
    /\ Fault
    /\ \E part \in SUBSET job[r][s].fresh :
          /\ published' = [u \in Urls |-> published[u] + IF u \in part THEN 1 ELSE 0]
          /\ lost' = lost \cup (job[r][s].fresh \ part)
    /\ Finish(r, s)
    /\ UNCHANGED redis /\ JobFrame

-----------------------------------------------------------------------------
(* handleCollectError *)

IncrementErrorCount(r, s) ==
    /\ job[r][s].step = "countError"
    /\ \E n \in 0..RedisRetries :
          /\ Resent(n)
          /\ errorCount' = [errorCount EXCEPT ![s] = @ + 1 + n]
          /\ IF errorCount[s] + 1 + n < MaxErrCount THEN Finish(r, s) ELSE Goto(r, s, "readDeacts")
    /\ UNCHANGED <<lastAt, collectedAt, deactCount, deactUntil, seenUntil, kafka>> /\ JobFrame

GetDeactivationCount(r, s) ==
    /\ job[r][s].step = "readDeacts"
    /\ job' = [job EXCEPT ![r][s] = [@ EXCEPT !.step = "deactivate", !.deacts = deactCount[s]]]
    /\ UNCHANGED <<redis, kafka, faults>> /\ JobFrame

\* The count is taken to be 0.
GetDeactivationError(r, s) ==
    /\ job[r][s].step = "readDeacts"
    /\ Fault
    /\ job' = [job EXCEPT ![r][s] = [@ EXCEPT !.step = "deactivate", !.deacts = 0]]
    /\ UNCHANGED <<redis, kafka>> /\ JobFrame

\* Mutant: the first deactivation doubles already.
CalcBackoffShifted(count) ==
    LET backoff == BaseBackoff * 2^(IF count + 1 <= 10 THEN count + 1 ELSE 10) IN
    IF backoff <= MaxBackoff THEN backoff ELSE MaxBackoff

CalcBackoff(count) ==
    LET backoff == BaseBackoff * 2^(IF count <= 10 THEN count ELSE 10) IN
    IF backoff <= MaxBackoff THEN backoff ELSE MaxBackoff

\* SET and HINCRBY in one pipeline, which is sent again as a whole.
LocallyDeactivate(r, s) ==
    /\ job[r][s].step = "deactivate"
    /\ deactUntil' = [deactUntil EXCEPT ![s] = now + CalcBackoff(job[r][s].deacts)]
    /\ \E n \in 0..RedisRetries :
          Resent(n) /\ deactCount' = [deactCount EXCEPT ![s] = @ + 1 + n]
    /\ Goto(r, s, "resetAfter")
    /\ UNCHANGED <<lastAt, collectedAt, errorCount, seenUntil, kafka>> /\ JobFrame

\* The pipeline is no transaction: an error may follow either of its writes.
DeactivateError(r, s) ==
    /\ job[r][s].step = "deactivate"
    /\ Fault
    /\ \/ UNCHANGED <<deactUntil, deactCount>>
       \/ /\ deactUntil' = [deactUntil EXCEPT ![s] = now + CalcBackoff(job[r][s].deacts)]
          /\ \E done \in Applied : deactCount' = [deactCount EXCEPT ![s] = @ + done]
    /\ Finish(r, s)
    /\ UNCHANGED <<lastAt, collectedAt, errorCount, seenUntil, kafka>> /\ JobFrame

ResetAfter(r, s) ==
    /\ job[r][s].step = "resetAfter"
    /\ errorCount' = [errorCount EXCEPT ![s] = 0]
    /\ Finish(r, s)
    /\ UNCHANGED <<lastAt, collectedAt, deactCount, deactUntil, seenUntil, kafka, faults>>
    /\ JobFrame

CountError(r, s) ==
    /\ job[r][s].step = "countError"
    /\ Fault
    /\ \E done \in Applied : errorCount' = [errorCount EXCEPT ![s] = @ + done]
    /\ Finish(r, s)
    /\ UNCHANGED <<lastAt, collectedAt, deactCount, deactUntil, seenUntil, kafka>> /\ JobFrame

ResetAfterError(r, s) ==
    /\ job[r][s].step = "resetAfter"
    /\ Fault
    /\ errorCount' = [errorCount EXCEPT ![s] = 0] \/ UNCHANGED errorCount
    /\ Finish(r, s)
    /\ UNCHANGED <<lastAt, collectedAt, deactCount, deactUntil, seenUntil, kafka>> /\ JobFrame

-----------------------------------------------------------------------------
\* URLs that passed the filter and are not published yet.
InFlight == UNION {job[r][s].fresh : r \in Rounds, s \in Sources}

\* The process stops, after Stop does not wait for the jobs of cron, or crashes,
\* and is started again.
Restart ==
    /\ crashes < MaxCrashes
    /\ crashes' = crashes + 1
    /\ sources' = {}
    /\ round' = [r \in Rounds |-> Idle]
    /\ job' = [r \in Rounds |-> [s \in Sources |-> NoJob]]
    /\ lost' = lost \cup InFlight
    /\ UNCHANGED <<fired, redis, published, now, faults>>

Tick ==
    /\ now < MaxTime
    /\ now' = now + 1
    /\ UNCHANGED <<sources, round, job, fired, redis, kafka, faults, crashes>>

RoundStep(r) ==
    \/ \E s \in Sources : CheckBreaker(r, s)
    \/ CheckDue(r) \/ Launch(r) \/ EndRound(r)

JobStep(r, s) ==
    \/ Acquire(r, s) \/ ParseOk(r, s) \/ ParseFails(r, s)
    \/ SetCollected(r, s) \/ ResetErrors(r, s)
    \/ \E u \in Urls : IsNewURL(r, s, u)
    \/ Filtered(r, s) \/ Publish(r, s)
    \/ IncrementErrorCount(r, s) \/ GetDeactivationCount(r, s)
    \/ LocallyDeactivate(r, s) \/ ResetAfter(r, s)

FaultStep(r, s) ==
    \/ CheckError(r, s) \/ SetCollectedError(r, s) \/ ResetError(r, s)
    \/ \E u \in Urls : DedupError(r, s, u) \/ DedupResent(r, s, u)
    \/ PublishRetried(r, s) \/ PublishError(r, s)
    \/ CountError(r, s) \/ GetDeactivationError(r, s)
    \/ DeactivateError(r, s) \/ ResetAfterError(r, s)

Next ==
    \/ RefreshSources \/ Restart \/ Tick
    \/ \E r \in Rounds :
          \/ StartRound(r) \/ RoundStep(r)
          \/ \E s \in Sources : JobStep(r, s) \/ FaultStep(r, s)

Spec == Init /\ [][Next]_vars

\* The goroutines of a round run, and the parser has a timeout.
Fairness ==
    \A r \in Rounds : WF_vars(RoundStep(r)) /\ \A s \in Sources : WF_vars(JobStep(r, s))

FairSpec == Spec /\ Fairness

-----------------------------------------------------------------------------
(* Properties *)

\* Every variable has a value of its kind.
TypeOK ==
    /\ sources \subseteq Sources
    /\ round \in [Rounds -> [phase : {"idle", "check", "collect"}, todo : SUBSET Sources,
                             pick : Sources \cup {NoSource}]]
    /\ job \in [Rounds -> [Sources -> [step : Steps, left : SUBSET Urls,
                                       fresh : SUBSET Urls, deacts : Nat]]]
    /\ fired \in Int /\ lastAt \in [Sources -> Int] /\ collectedAt \in [Sources -> Int]
    /\ errorCount \in [Sources -> Nat] /\ deactCount \in [Sources -> Nat]
    /\ deactUntil \in [Sources -> Int] /\ seenUntil \in [Urls -> Nat]
    /\ published \in [Urls -> Nat] /\ lost \subseteq Urls
    /\ now \in Nat /\ faults \in Nat /\ crashes \in Nat
    /\ \A r \in Rounds : Cardinality(Running(r)) <= MaxWorkers

\* SET NX makes one goroutine the owner of a URL: with overlapping rounds and
\* sources that share it, a URL is published once per life of its key; only an
\* error of Redis or Kafka adds to that.
PublishedOnce == \A u \in Urls : published[u] <= 1 + faults + now \div DedupTTL

\* A URL that is marked as seen was published, is on its way, or was lost by a
\* failed publish, by a restart, or by a SET NX that go-redis had to send twice:
\* an error of Redis itself loses none, filterDuplicates fails open.
SeenAccounted ==
    \A u \in Urls : Seen(u) => published[u] > 0 \/ u \in InFlight \/ u \in lost

\* Rounds that do not overlap collect a source in its intervals, but for less than
\* a second: Unix() has cut the last time off.  (The comment of IsDue promises the
\* whole FetchInterval.)
IntervalKept ==
    [][\A s \in Sources :
          collectedAt'[s] # collectedAt[s] /\ collectedAt[s] # -1 =>
              now > collectedAt[s] + Interval - Second]_vars

\* The k-th deactivation of a source lasts BaseBackoff * 2^(k-1), up to MaxBackoff.
BackoffDoubles ==
    [][\A s \in Sources : deactUntil'[s] # deactUntil[s] =>
          LET full == BaseBackoff * 2^deactCount[s] IN
          deactUntil'[s] - now = IF full <= MaxBackoff THEN full ELSE MaxBackoff]_vars

\* Every round comes to its end: the semaphore lets every source of it through.
RoundsEnd == \A r \in Rounds : round[r].phase # "idle" ~> round[r].phase = "idle"
=============================================================================
