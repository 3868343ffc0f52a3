CONSTANTS
  r1 = r1
  r2 = r2
  o1 = o1
  o2 = o2
  w = w
  q = q
  k = k
  write = write
  read = read
  NoKey = NoKey
  NoSlot = NoSlot
  Runs = {r1, r2}
  Slots = {o1, o2}
  Sigs = {w, q}
  ReadOnly = {q}
  ParallelSafe = {q}
  Keys = {k}
  Reusing = {}
  PartyErrors = {"cancelled"}
  MaxToolCalls = 3
  MaxIdentical = 2
  MaxFanOut = 2
  MaxVms = 1
  MaxModelCalls = 3
  Adaptive = {r2}
  RunOf <- MCRunOf
  KeyOf <- MCKeyOf
  SlotAt <- MCSlotAt
  ToolOf <- MCToolOf
SPECIFICATION Spec
INVARIANTS ReportsTruth ReservesHold BatchDiscipline
PROPERTY StoppedRunEnds
CHECK_DEADLOCK FALSE
