CONSTANTS
  HashKey = {"p", "q", "r", "s", "t"}
  HashValue = {"v"}
  HashOf <- HashOfDef
  OtherHashes <- OtherHashesDef
  MaxSlab = 8
  Byte = {"0", "a", "n"}
  Newline = "n"
  Hole = "0"
  Data <- DataDef
  MaxRead = 2
  MaxFile = 3
  BufferSize = 2
  Modes = {"r", "rw", "rw lines", "ra"}
  Item = {"null", "x"}
  Null = "null"
  Lists <- ListsDef
  MaxElems = 3
  MinSlots = 2
  FrontRoom = 2
  Big = 4
  Page = 2
  Type = {"P", "Q", "R", "X"}
  NoType = "none"
  TypeChecks <- TypeChecksDef
  TypeNumber <- TypeNumberDef
  Candidate <- CandidateDef
  Captures <- CapturesDef
  Routine = {"r1", "r2"}
  First = "r1"
  MaxCandidates = 3
  MD_CACHE_MAX_ENTRIES = 1
  Headers = 3
  Blocks = 2
  StorageSizes = {2, 3}
  MinimumBlock = 3
  BlockCap = 0
  Project = {"a", "b", "c", "d", "e"}
  Unknown = {"nowhere"}
  Depends <- DependsDef
  Files = 2
  Requests <- RequestsDef
  MaxDepth = 4
  Starts = 2
  Module = {"u", "v", "w"}
  Elsewhere = {"elsewhere"}
  Uses <- UsesDef
  Source = 3
  MaxLists = 2
  MaxGimme = 2
  Habits = {}
  MaxFrames = 4
  MaxExceptions = 2
  MaxEvents = 5
SPECIFICATION Spec
VIEW Deciding
INVARIANTS
  HashFindsStored HashBucketsAccounted
  IoEofAtEnd
  QrpaWithinSlots
  MdCacheFresh
  SgStoragesApart SgCountsCover
  PandaRecordedComplete
  BuildOrderSorted
  LazyListsComplete LazyNoFurther
  JumpTargetsLive CodeAtHome HandlersInOrder
PROPERTIES
  IoRefinesFile QrpaRefinesArray MdAnswerRight SgSharingKept PandaKeepsRequested PandaEnds
CHECK_DEADLOCK FALSE
