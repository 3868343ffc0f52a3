CONSTANTS
  r1 = r1
  r2 = r2
  w = w
  x = x
  q = q
  p = p
  k = k
  NoKey = NoKey
  NoSlot = NoSlot
  Runs = {r1}
  Slots <- MCSlots
  RunOf <- MCRunOf
  KeyOf <- MCKeyOf
  Plans <- MCPlans
  Sigs = {w, x, q, p}
  ReadOnly = {q, p}
  Keys = {k}
  Reusing = {r1}
  Forced = {}
  PartyErrors = {"tool"}
  MaxNodes = 4
  MaxToolCalls = 4
  MaxIdentical = 2
  MaxModelCalls = 3
  MaxRetries = 1
  MaxParallel = 2
SPECIFICATION Spec
INVARIANTS LedgerBalances EffectsSound ScheduleSound SynthesisReserved
PROPERTY StoppedRunEnds
CHECK_DEADLOCK FALSE
