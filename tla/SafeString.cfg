SPECIFICATION MCSpec
CONSTANTS
  Parts = {"SafeString"}
  Size = 2
  Elements = {Zero, e1, e2, e3}
  Zero = Zero
  Appenders = {a1, a2}
  Callbacks = {"none", "fail", "keep", "flush"}
  k16 = k16
  k24 = k24
  kOdd = kOdd
  NoKey = NoKey
  Keys = {k16, k24, kOdd}
  KeyLen <- MCKeyLen
  Texts = {Blank, Marked, hello}
  Blank = Blank
  Marked = Marked
  Noise = Noise
  EnvKeys = {NoKey, k16}
  MaxSeals = 1
  N = 3
  Values = {v1, v2}
  Producers = {p1}
  Consumers = {c1}
  Removers = {c1}
  Readers = {r1}
  SparesBase = TRUE
  Nil = Nil
  Free = Free
  ObjectKeys = {1, 2, 3}
  Folder <- MCFolder
  ModeOf <- MCModeOf
  b2 = b2
  Buckets = {b1, b2}
  NoBucket = NoBucket
  Homes = {NoBucket, b1}
  MaxKeys = 1
  Items = {x1, x2, x3}
  MaxBatch = 2
  Base = 12
  UnitCount = 3
  MaxInt = 2047
  CapTexts <- MCCapTexts
  CapValues <- MCCapValues
  CapNumbers <- MCCapNumbers
  FloatProduct <- MCFloatProduct
  NoText = NoText
  Statuses = {404, 500}
  OwnCode = OwnCode
  MaxNodes = 5
  MaxMembers = 4
  PageSizes = {0, 1, 2, 3}
  StreamLens = {0, 2, 4, 5}
  PreLens = {0, 1, 3}
  Limits = {0, 2, 3, 6}
  CopyLen = 2
  Goroutines = {g1, g2}
  Setters = {g2}
  AppLogger = AppLogger
  NoData = NoData
  BoundPairs <- MCBoundPairs
  Options <- MCOptions
  RecordPairs <- MCRecordPairs
  MaxTraces = 2
  MaxBound = 1
  MaxPairs = 1
PROPERTY
  StringKeepsText
