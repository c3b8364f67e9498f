SPECIFICATION Spec
CONSTANTS
  m1 = m1
  m2 = m2
  c1 = c1
  c2 = c2
  Msgs <- MCMsgs
  Calls <- MCCalls
  MaxIterations = 2
  HistoryWindow = 3
  Ceiling = 3
  MaxFaults = 1
  MaxLoads = 1
SYMMETRY Alike
VIEW WithoutPrior
INVARIANTS OutcomesSettled NeverStuck
PROPERTIES CleanHandover AnswersAgree
CHECK_DEADLOCK FALSE
