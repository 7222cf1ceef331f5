CONSTANTS
  NoName = NoName
  TypeIds <- MCTypeIds
  Def <- MCDef
  FieldNames <- MCFieldNames
  Roots <- NilRecRoots
  NilRoots = {TRUE}
  Buffers <- MCBuffers
  DefaultOrder = "LE"
  CustomMax = 1
  MaxDepth = 5
  MaxDecodes = 2
SPECIFICATION Spec
INVARIANT OnlyDefinitionPanics
