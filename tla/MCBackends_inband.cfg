\* Delimiters inside prompts and answers, and a runner that may die in the middle of a line.
SPECIFICATION Spec
CONSTANTS
  MaxCalls = 2
  MaxLines = 3
  PromptWord = {"text", "END", "PROMPT"}
  AnswerWord = {"text", "END", "blank"}
  PipeCap = 2
  Faults = {"spawn", "runner"}
INVARIANTS AnswerFromThisCall CleanAnswerWhole
PROPERTY GenerateEnds
CHECK_DEADLOCK FALSE
