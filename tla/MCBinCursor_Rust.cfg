CONSTANTS
  Buffers <- NegativeRust
  Args <- InRangeArgs
  MaxInt = 15
SPECIFICATION Spec
INVARIANT NoInputPanic
