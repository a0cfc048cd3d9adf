\* A program of 8 bytes of code and 63 of data.
CONSTANTS
  Byte = 4
  Bits = 16
  Fraction = 512
  Bias = 31
  ExtBias = 127
  NoType = NoType
  Types <- MCTypes
  Variables <- MCVariables
  Parse <- parse
  Format <- FormatParsed
  Plan <- Planned
  Texts <- MCTexts
  Questions <- MCQuestions
  Assignments <- MCAssignments
  Limits = {0, 2, 3}
  Targets <- MCTargets
  Fresh <- MCFresh
  Int3 = 3
  MaxInstruction = 2
  MaxChanges = 2
  Lines <- MCLines
  Functions <- MCFunctions
  Reach = 4
SPECIFICATION Spec
INVARIANT TypeOK
INVARIANT ParsesAsWritten
INVARIANT ArithmeticIsC
INVARIANT PointersAreArrays
INVARIANT ShownIsThere
INVARIANT BreakpointsLandInside
PROPERTY SetIsExact
