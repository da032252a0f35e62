------------------------------ MODULE Retention ------------------------------
(***************************************************************************)
(* How long news is kept (internal/services/retention).  A news item has a *)
(* row in main-service and, if it has a text, an object in the bucket.     *)
(* They are removed by two loops in two processes: DBCleaner, by the       *)
(* created_at of the row, and S3Cleaner, by the day in the key of the      *)
(* object, which is the day the item was processed.                        *)
(***************************************************************************)
EXTENDS Integers, FiniteSets

CONSTANTS
    News,            \* news.id
    OldNews,         \* items that may have been saved before the behaviour starts
    ProcessedBefore, CreatedBefore,  \* and when
    DayLength,       \* ticks of the clock per day
    RetentionDays,   \* news_retention_days = 7
    CleanupInterval, \* cleanup_interval = 24h, in ticks
    DeleteBatch,     \* objects per DeleteObjects call: 1000
    MaxNow,          \* bound: the clock
    MaxCleanErrors,  \* bound: runs of a cleaner that fail
    MaxRestarts      \* bound: restarts

ASSUME RetentionAssumption ==
    /\ OldNews \subseteq News /\ IsFiniteSet(News)
    /\ ProcessedBefore \in [News -> Nat] /\ CreatedBefore \in [News -> Nat]
    /\ DayLength \in Nat \ {0} /\ RetentionDays \in Nat /\ CleanupInterval \in Nat \ {0}

VARIABLES
    processedAt,  \* ProcessedAt of an item, Unborn before
    rows,         \* items with a row
    createdAt,    \* created_at of the row, Unborn before
    texts,        \* items with an object in the bucket
    uploaded,     \* items that ever had one
    dbDue, s3Due, \* when the cleaners run next
    doomed,       \* objects that S3Cleaner has listed and not yet deleted
    now,
    cleanErrors, restarts

items        == <<processedAt, rows, createdAt, uploaded>>
cleaners     == <<dbDue, s3Due, doomed>>
retentionVars == <<items, texts, cleaners, now, cleanErrors, restarts>>

Unborn == -1

Kept == RetentionDays * DayLength

\* Truncate(24 * time.Hour), and the day in a key.
Day(t) == t - (t % DayLength)

RetentionInit ==
    /\ now = Kept
    /\ \E old \in {{}, OldNews} :
          /\ processedAt = [n \in News |-> IF n \in old THEN ProcessedBefore[n] ELSE Unborn]
          /\ createdAt = [n \in News |-> IF n \in old THEN CreatedBefore[n] ELSE Unborn]
          /\ rows = old /\ texts = old /\ uploaded = old
    /\ doomed = {}
    /\ dbDue = now /\ s3Due = now
    /\ cleanErrors = 0 /\ restarts = 0

CleanError == cleanErrors < MaxCleanErrors /\ cleanErrors' = cleanErrors + 1

-----------------------------------------------------------------------------
(* The pipeline *)

\* Process stamps the item; PutText stores its text, if it has one, under the
\* key of BuildNewsTextKey.
StoreText(n) ==
    /\ processedAt[n] = Unborn
    /\ processedAt' = [processedAt EXCEPT ![n] = now]
    /\ \E text \in {{}, {n}} : texts' = texts \cup text /\ uploaded' = uploaded \cup text
    /\ UNCHANGED <<rows, createdAt, cleaners, now, cleanErrors, restarts>>

\* The batch is saved later, perhaps on another day, and perhaps at the same time
\* as that of another processor.
SaveRow(n) ==
    /\ processedAt[n] # Unborn /\ createdAt[n] = Unborn
    /\ createdAt' = [createdAt EXCEPT ![n] = now]
    /\ rows' = rows \cup {n}
    /\ UNCHANGED <<processedAt, texts, uploaded, cleaners, now, cleanErrors, restarts>>

-----------------------------------------------------------------------------
(* DBCleaner.runOnce in main-service *)

\* Mutant: the threshold is one day off.
OverdueRowsEarly == {n \in rows : createdAt[n] < now - Kept + DayLength}

\* DELETE FROM news WHERE created_at < now - retention.
OverdueRows == {n \in rows : createdAt[n] < now - Kept}

CleanRows ==
    /\ now >= dbDue
    /\ dbDue' = dbDue + CleanupInterval
    /\ \/ rows' = rows \ OverdueRows /\ UNCHANGED cleanErrors
       \/ CleanError /\ UNCHANGED rows
    /\ UNCHANGED <<processedAt, createdAt, texts, uploaded, s3Due, doomed, now, restarts>>

-----------------------------------------------------------------------------
(* S3Cleaner.runOnce in news-processor *)

\* Mutant: the days before the one that the retention starts in are kept too.
OverdueTextsLate == {n \in texts : Day(processedAt[n]) < Day(now - Kept) - DayLength}

OverdueTexts == {n \in texts : Day(processedAt[n]) < Day(now - Kept)}

\* All pages are listed before anything is deleted.
ListOld ==
    /\ now >= s3Due /\ doomed = {}
    /\ s3Due' = s3Due + CleanupInterval
    /\ \/ doomed' = OverdueTexts /\ UNCHANGED cleanErrors
       \/ CleanError /\ UNCHANGED doomed
    /\ UNCHANGED <<items, texts, dbDue, now, restarts>>

\* deleteObjects, a batch at a time.
DeleteObjects ==
    \E batch \in SUBSET doomed :
        /\ batch # {} /\ (Cardinality(batch) = DeleteBatch \/ batch = doomed)
        /\ Cardinality(batch) <= DeleteBatch
        /\ texts' = texts \ batch
        /\ doomed' = doomed \ batch
        /\ UNCHANGED <<items, dbDue, s3Due, now, cleanErrors, restarts>>

\* An error of a batch, of which a part may be deleted, ends the run.
DeleteObjectsError ==
    /\ doomed # {}
    /\ CleanError
    /\ \E part \in SUBSET doomed : Cardinality(part) <= DeleteBatch /\ texts' = texts \ part
    /\ doomed' = {}
    /\ UNCHANGED <<items, dbDue, s3Due, now, restarts>>

-----------------------------------------------------------------------------
\* A process that starts cleans at once, and from then on at its interval.
Restart ==
    /\ restarts < MaxRestarts
    /\ restarts' = restarts + 1
    /\ \/ dbDue' = now /\ UNCHANGED <<s3Due, doomed>>
       \/ s3Due' = now /\ doomed' = {} /\ UNCHANGED dbDue
    /\ UNCHANGED <<items, texts, now, cleanErrors>>

\* A cleaner does not oversleep its tick.
Advance ==
    /\ now < MaxNow
    /\ now < dbDue /\ now < s3Due /\ doomed = {}
    /\ now' = now + 1
    /\ UNCHANGED <<items, texts, cleaners, cleanErrors, restarts>>

RetentionNext ==
    \/ \E n \in News : StoreText(n) \/ SaveRow(n)
    \/ CleanRows \/ ListOld \/ DeleteObjects \/ DeleteObjectsError \/ Restart \/ Advance

-----------------------------------------------------------------------------
(* Properties *)

\* The two loops remove nothing that is younger than the retention: a row whose
\* object is gone refers to a text older than that, whatever the time of day the
\* cleaners were started at.
KeptLongEnough ==
    /\ \A n \in uploaded \ texts : now - processedAt[n] > Kept
    /\ \A n \in News \ rows : createdAt[n] # Unborn => now - createdAt[n] > Kept

\* And they leave nothing for long: a row an interval more, an object, whose day
\* must be over too, a day more, and either one interval more per failed run.
\* It covers objects whose row was never saved.
CleanedInTime ==
    LET slack == (1 + cleanErrors + restarts) * CleanupInterval IN
    /\ \A n \in rows : now - createdAt[n] <= Kept + slack
    /\ \A n \in texts : now - processedAt[n] < Kept + DayLength + slack
=============================================================================
