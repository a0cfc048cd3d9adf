\* A breakpoint below the address that is disassembled.
CONSTANTS
  Byte = 4
  Bits = 16
  Fraction = 512
  Bias = 31
  ExtBias = 127
  NoType = NoType
  Types <- MCTypes
  Variables <- MCVariables
  Parse <- parse
  Format <- FormatParsed
  Plan <- Planned
  Texts = {}
  Questions = {}
  Assignments = {}
  Limits = {}
  Targets <- MCTargets
  Fresh <- MCFresh
  Int3 = 3
  MaxInstruction = 2
  MaxChanges = 2
  Lines <- MCLines
  Functions <- MCFunctions
  Reach = 4
SPECIFICATION Spec
INVARIANT DisassemblyShowsProgram
