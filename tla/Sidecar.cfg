CONSTANTS
  r1 = r1
  r2 = r2
  NoRun = NoRun
  Runs = {r1, r2}
  Kinds = {"tool", "policy"}
  GuardedKinds = {"policy"}
  MaxRuns = 2
  MaxPending = 1
  MaxQueue = 1
  MaxAsks <- OneAsker
  MaxEvents <- OneEvent
  MaxReplies = 2
SPECIFICATION Spec
INVARIANT AnswersHandedOver
PROPERTIES Sequenced CancelledRunEnds ShutdownEnds
CHECK_DEADLOCK FALSE
