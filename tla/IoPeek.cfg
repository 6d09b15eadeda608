CONSTANTS
  Byte = {"0", "a", "n"}
  Newline = "n"
  Hole = "0"
  Data <- DataDef
  MaxRead = 2
  MaxFile = 3
  BufferSize = 3
  Modes = {"rw"}
SPECIFICATION IoSpec
PROPERTY IoPeekRight
