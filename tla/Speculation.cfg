CONSTANTS
  r1 = r1
  r2 = r2
  q = q
  w = w
  k = k
  NoKey = NoKey
  NoSlot = NoSlot
  Sigs = {q, w}
  ReadOnly = {q}
  Eligible = {q}
  Keys = {k}
  Reusing = {}
  PartyErrors = {"tool"}
  MaxToolCalls = 1
  MaxIdentical = 1
  Required = 1
  Slots <- MCSlots
  RunOf <- MCRunOf
  KeyOf <- MCKeyOf
  Asks <- MCAsks
  Runs = {r1, r2}
SPECIFICATION Spec
INVARIANTS LedgersBalance NoSlotLeak KeyExclusion
PROPERTIES BreakerHolds TurnsComeToRest
CHECK_DEADLOCK FALSE
