CONSTANTS
  MaxVarbinds = 2
SPECIFICATION Spec
INVARIANT OwnAnswers
