\* What a tool that leaves its group, a cancelled command and a skipped agent do.
\* Each is violated: TLC shows the first; leave the others out to see one.
SPECIFICATION Spec
CONSTANTS
  fixer = fixer
  reviewer = reviewer
  lint = lint
  tests = tests
  coder = coder
  nobody = nobody
  Members <- MCMembers
  Body <- MCBody
  Commands <- MCCommands
  Until = tests
  Caught = {}
  From <- MCFrom
  OnAny = {reviewer}
  Branches = {reviewer}
  Outside = coder
  Nobody = nobody
  Checked = {fixer}
  Retries = 2
  Budget = 2
  MaxRepeats = 3
  Prices <- MCPrices
  Leaves = TRUE
INVARIANTS
  OwnConversationContinues
PROPERTIES
  AnswersForItsProgram
  LoopIsOver
CHECK_DEADLOCK FALSE
