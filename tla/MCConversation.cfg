SPECIFICATION Spec
CONSTANTS
  fixer = fixer
  reviewer = reviewer
  lint = lint
  tests = tests
  coder = coder
  nobody = nobody
  Members <- MCMembers
  Body <- MCBody
  Commands <- MCCommands
  Until = tests
  Caught = {}
  From <- MCFrom
  OnAny = {reviewer}
  Branches = {reviewer}
  Outside = coder
  Nobody = nobody
  Checked = {fixer}
  Retries = 2
  Budget = 2
  MaxRepeats = 3
  Prices <- MCPrices
  Leaves = FALSE
INVARIANTS
  RepairsWhatWasRejected
  OthersAreUntouched
  RemembersLastRepeat
PROPERTIES
  KeepsPromise
CHECK_DEADLOCK FALSE
