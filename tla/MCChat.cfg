CONSTANTS
  Mine = {a1, a2}
  Theirs = {b1}
  MaxEvents = 3
  Concurrent = {a1}
  MaxBusy = 1
SPECIFICATION ChatSpec
INVARIANTS OrderedView RaisedIsSafe
 
CHECK_DEADLOCK FALSE
