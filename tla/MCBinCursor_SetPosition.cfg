CONSTANTS
  Buffers <- MCBuffers
  Args <- WrapArgs
  MaxInt = 15
SPECIFICATION Spec
PROPERTY AbsSpec
