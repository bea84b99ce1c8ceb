SPECIFICATION ClientSpec
CONSTANTS
  Path = {"f", "m"}
  Split = {"m"}
  Content = {"a", "b"}
  Branch = {"main", "dev"}
  Main = "main"
  Proc = {"terminal", "trainer"}
  Does <- DoesDef
  Quota <- QuotaDef
  MaxEdits = 2
  MaxCommits = 2
  TreeFile <- TreeFileDef
  WalkRoot <- WalkRootDef
  GitLine <- GitLineDef
  MaxGitLines = 2
  NameGlobs <- NameGlobsDef
  HardIgnored = {5}
  DefaultIgnored = {4}
  Noise = {6}
  AnySegments = AnySegments
  SigningKey = {"k1", "k2", "k3"}
  Absent = Absent
  Empty = Empty
  Unknown = Unknown
  MaxKills = 2
  Artifact = {"w"}
  ObjectsOf <- ObjectsOfDef
  Whole <- WholeDef
  MaxQueued = 2
  MaxFaults = 1
  Version = {"c1", "c2", "c3"}
  Nil = Nil
  ParentOf <- ParentOfDef
  BlobOf <- BlobOfDef
  AuthoredAt <- AuthoredAtDef
  InRun = {"c2"}
  Unnamed = {"c3"}
  Limit = 2
  MaxHttpFaults = 1
  MaxExports = 1
  MaxLosses = 1
  Byte = {0, 1}
  Gear <- GearDef
  Word = 16
  MIN_CHUNK = 2
  AVG_CHUNK = 8
  MAX_CHUNK = 8
  MaxLen = 12
  Header <- HeaderDef
  Layouts <- LayoutsDef
  Contents <- ContentsDef
  MaxWrites = 2
  MaxSplitFaults = 1
  MaxAdds = 2
  TreePath <- TreePathDef
  RowEntry <- RowEntryDef
  SizeOf <- SizeOfDef
  Dataset <- DatasetDef
  LegacyName = {"code", "artifacts"}
  AV_ANOMALY_MASS_REWRITE_FILES = 2
  MaxTreeDepth = 3
  MaxTreeCommits = 3
  MaxTreeEdits = 3
  Blob = {"b1", "b2"}
  Revision = {"v1", "v2"}
  BlobsOf <- BlobsOfDef
  MaxCreates = 2
INVARIANTS CleanIsTrue MovedStaysQueued ArchiveIsClosed RestoreHasLanded ChunkBounds TailCutsAlone EntryRestores
           RowsKeepTheTrees VerifiedRestoreIsWhole WalkIsTheRules KeysKept
PROPERTY CheckoutKeepsWork
CHECK_DEADLOCK FALSE
