CONSTANTS
  Buffers <- MCBuffers
  Args <- InRangeArgs
  MaxInt = 15
SPECIFICATION Spec
PROPERTY AbsSpec
