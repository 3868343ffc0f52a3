CONSTANTS
  r1 = r1
  r2 = r2
  w = w
  v = v
  q = q
  k = k
  NoKey = NoKey
  NoSlot = NoSlot
  Runs = {r1}
  Slots = {r1}
  Sigs = {w, q}
  ReadOnly = {q}
  Keys = {k}
  Reusing = {r1}
  PartyErrors = {"tool", "timedOut"}
  MaxToolCalls = 3
  MaxIdentical = 2
  MaxModelCalls = 3
  MaxRetries = 1
  MaxRepairs = 1
  MaxCallsPerTurn = 2
  RunOf <- MCRunOf
  KeyOf <- MCKeyOf
SPECIFICATION Spec
INVARIANTS ClassifiedOnce EffectsSound OutcomeSound
PROPERTY NoStartAfterStop
CHECK_DEADLOCK FALSE
