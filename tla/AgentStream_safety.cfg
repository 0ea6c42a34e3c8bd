SPECIFICATION Spec
CONSTANTS
  main = main
  aside = aside
  Runs <- MCRuns
  Main = main
  AllRuns = AllRuns
  Topics <- MCTopics
  Done = Done
  MaxEvents = 2
  MaxTracked = 1
  MaxTokens = 6
  MaxRetries = 1
  BaseDelay = 1
  RetryAfters = {2}
  RetryBudget = 1
  Timeout = 1
  Scopes <- MCScopes
  Sizes <- MCSizes
  StreamBuffer = 1
  MaxIterations = 3
  CountsBack = TRUE
CHECK_DEADLOCK FALSE
INVARIANTS TypeOK StreamIsRecord PromptFits ContainerGone ThreadsAreAwaited
PROPERTIES ImplementsStream StreamEnds
