SPECIFICATION Spec
CONSTANTS
  k1 = k1
  server = server
  script = script
  w1 = w1
  w2 = w2
  w3 = w3
  t1 = t1
  t2 = t2
  here = here
  geo = geo
  h1 = h1
  h2 = h2
  Null = Null
  Empty = Empty
  Keys <- MCKeys
  Writers <- MCWriters
  Processes <- MCProcesses
  ProcessOf <- MCProcessOf
  Texts <- MCTexts
  Labels <- MCLabels
  GeoLabel = geo
  Hashes <- MCHashes
  Inputs <- MCInputs
  MaxVersions = 3
INVARIANTS
  TypeOK
  IndexesFollowText
  LogReconstructs
PROPERTIES
  LabelGivesWayOnlyUnseen
  KeepsPromise
