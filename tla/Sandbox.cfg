CONSTANTS
  MaxItems = 2
  MaxInt = 3
  MaxOperands = 3
  MaxReturn = 28
  MaxFuel = 34
  MaxYields = 3
  Slices = {1, 7}
  Programs <- MCPrograms
  Outputs <- MCOutputs
SPECIFICATION Spec
INVARIANTS AgreesWithSource VerifierSound
CHECK_DEADLOCK FALSE
