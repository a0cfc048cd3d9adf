\* An array longer than the limit, with a run of equal elements across it.
CONSTANTS
  Byte = 4
  Bits = 16
  Fraction = 512
  Bias = 31
  ExtBias = 127
  NoType = NoType
  Types <- MCTypes
  Variables <- MCVariables
  Parse <- parse
  Format <- FormatParsed
  Plan <- Planned
  Texts = {}
  Questions <- MCQuestions
  Assignments <- MCAssignments
  Limits = {2}
  Targets = {}
  Fresh <- MCFresh
  Int3 = 3
  MaxInstruction = 2
  MaxChanges = 2
  Lines <- MCLines
  Functions <- MCFunctions
  Reach = 4
SPECIFICATION Spec
INVARIANT ElementsLimited
