SPECIFICATION Spec
CONSTANTS
  Interval = 2
  Latency = 1
  PromptProgram = FALSE
  MaxInbound = 2
INVARIANTS
  AnsweringClientKept
CHECK_DEADLOCK FALSE
