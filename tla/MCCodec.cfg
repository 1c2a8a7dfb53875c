SPECIFICATION Spec
CONSTANTS
  Inputs <- MCInputs
  Words <- MCWords
INVARIANTS TypeOK FramesDoNotDependOnReads NothingHeldBack CommandsAreUnderstood
CHECK_DEADLOCK FALSE
