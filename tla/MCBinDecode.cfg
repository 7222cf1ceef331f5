CONSTANTS
  NoName = NoName
  TypeIds <- MCTypeIds
  Def <- MCDef
  FieldNames <- MCFieldNames
  Roots <- AllRoots
  NilRoots = {TRUE, FALSE}
  Buffers <- MCBuffers
  DefaultOrder = "LE"
  CustomMax = 1
  MaxDepth = 5
  MaxDecodes = 2
SPECIFICATION Spec
INVARIANT TypeOK
PROPERTY SizeofHonoured
PROPERTY Terminates
PROPERTY EngineIsReader
