SPECIFICATION MCSpec
CONSTANTS
  i1 = i1 i2 = i2 u1 = u1 u2 = u2 s1 = s1 s2 = s2 r1 = r1 r2 = r2 n1 = n1 n2 = n2
  NoValue = NoValue
  Users = {u1, u2}
  MaxFaults = 1
  Slots = {s1, s2}
  RuleIds = {r1, r2}
  MaxActive = 1
  Period = 2
  MaxCalling = 2
  MaxToggles = 1
  NoAge = 7
  News = {n1, n2}
  OldNews = {n1, n2}
  ProcessedBefore <- Together
  CreatedBefore <- InTurn
  DayLength = 2
  RetentionDays = 2
  CleanupInterval = 2
  DeleteBatch = 1
  MaxNow = 8
  MaxCleanErrors = 1
  MaxRestarts = 1
  Readers = {s1}
  Admins = {u2}
  Preferences <- SomePreferences
  Queries <- SomeQueries
  CategoryOf <- ChosenCategory
  SourceOf <- OneSource
  LanguageOf <- Languages
  WordRank <- Ranks
  SearchRank <- Ranks
  DefaultLimit = 1
  MaxLimit = 2
  MaxListLimit = 3
  DefaultHours = 3
  MaxHours = 4
  MaxEvents = 2
  Instances = {i1, i2}
  Known <- Embedded
  MaxMigrationFaults = 2
CONSTRAINT SmallParts
VIEW ApiView
INVARIANTS TypeOK AcksHold  KeptLongEnough CleanedInTime SchemaSound
PROPERTIES HiddenStays
CHECK_DEADLOCK FALSE
