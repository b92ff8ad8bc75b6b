SPECIFICATION Spec
CONSTANTS
  Pages <- ThreePages
  BadPages = {3}
  WornPages = {2}
  Batches <- Lists
  NoVal = NoVal
  Garbled = Garbled
  NoPage = NoPage
  MaxCalls = 3
  MaxConns = 2
  MaxCrashes = 1

PROPERTIES ReadsWhatWasAsked
CHECK_DEADLOCK FALSE
