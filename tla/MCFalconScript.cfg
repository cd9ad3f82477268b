SPECIFICATION ScriptSpec
CONSTANTS
  n = 4
  q = 17
  sigBound = 80
  WordSize = 64
  BlockSize = 4
  MaxWords = 5
  Words <- SomeWords
  Genuine <- GenuineTables
  Updates <- OtherTables
  Keys <- SomeKeys
  Sigs <- SomeSigs
  LogQ = 5
  LowBits = 2
  MaxValue = 7
  ByteBits = 3
  Vectors <- SomeVectors
  CodeWords <- SomeCode
  Files <- ShortFiles
  None = None
INVARIANTS
  TypeOK
  BytesInOrder
  HashUniform
  AcceptsShort
  SignerUnderstood
  HashJudged
  SimulationForetells
  Canonical
