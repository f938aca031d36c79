CONSTANTS
  Env = {a, b}
  Unknown = {b}
  MaxPublish <- Publishes
  MaxCrashes = 1
SPECIFICATION Spec
INVARIANTS NoReplay OnlyKnownLosses
PROPERTY AtMostOnce
