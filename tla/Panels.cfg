SPECIFICATION Spec
CONSTANTS
  Calls = 2
  FormTimers = 1
  ThanksTimers = 2
  Groups = {ga, gb}
  Owned = {ga}
  People = {"p", "q"}
  Ids = {"n1", "n2"}
  Posts = {"p"}
  Theirs = "f"
  Recorders = 2
  Procs = {"first", "second"}
  Wrap = 7
  Timeout = 2
  Period = 2
  Delay = 1
  Late = 1
  MaxBackoff = 2
INVARIANTS TypeOK ProgressIsReal ScreenIsTrue
PROPERTY AnswersAreMinded
CHECK_DEADLOCK FALSE
