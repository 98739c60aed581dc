SPECIFICATION Spec
CONSTANTS
  Answers <- MCAnswers
  None = None
INVARIANTS TypeOK LossesExplained StatusExplained WorseNeverScoresHigher
