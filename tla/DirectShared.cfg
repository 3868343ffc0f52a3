CONSTANTS
  r1 = r1
  r2 = r2
  w = w
  v = v
  q = q
  k = k
  NoKey = NoKey
  NoSlot = NoSlot
  Runs = {r1, r2}
  Slots = {r1, r2}
  Sigs = {w, v}
  ReadOnly = {}
  Keys = {k}
  Reusing = {r2}
  PartyErrors = {"tool", "cancelled"}
  MaxToolCalls = 1
  MaxIdentical = 1
  MaxModelCalls = 1
  MaxRetries = 0
  MaxRepairs = 0
  MaxCallsPerTurn = 1
  RunOf <- MCRunOf
  KeyOf <- MCKeyOf
SPECIFICATION Spec
INVARIANT PermitsSound
PROPERTIES StoppedRunEnds EveryRunEnds
CHECK_DEADLOCK FALSE
