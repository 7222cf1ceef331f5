CONSTANTS
  NoName = NoName
  TypeIds <- MCTypeIds
  Def <- MCDef
  FieldNames <- MCFieldNames
  Roots <- StringRoots
  NilRoots = {FALSE}
  Buffers <- MCBuffers
  DefaultOrder = "LE"
  CustomMax = 1
  MaxDepth = 5
  MaxDecodes = 2
SPECIFICATION Spec
PROPERTY TruncationKeepsCursor
