SPECIFICATION Spec
CONSTANTS
  Threads = {t1, t2}
  Known <- MCKnown
  Setup <- MCSetup
  Replacements <- MCReplacements
  Requests <- MCRequests
  Scale = 1000
  Ln2 = 693
  SeriesTerms = 5
  MaxTerms = 5
  MaxAliases = 2
  MaxIndexes = 2
  MaxIndexBytes = 60
  MaxCatalogs = 2
  MaxCatalogBytes = 30
  MaxStarts = 3
  MaxStopping = 1
  MaxRegistries = 2
SYMMETRY Symmetric
INVARIANT ScopesSound
PROPERTY CachesSound
CHECK_DEADLOCK FALSE
