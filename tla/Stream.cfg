SPECIFICATION Spec
CONSTANTS
  HardLimits <- MCHard
  DefaultLimits <- MCDefault
  ValidArguments <- MCValid
  Jobs <- MCJobs
  Items <- MCItems
  MaxItems = 6
  MaxResponse = 7
  MaxStream = 11
  MaxLine = 3
  MaxEvents = 5
INVARIANTS AssemblySound ErrorsSound
PROPERTY EveryRequestEnds
