\* Two callers of one image, one caller of another, a failing pull and a crash.
SPECIFICATION FairSpec
CONSTANTS
  Nil = Nil
  c1 = c1
  c2 = c2
  c3 = c3
  n1 = n1
  n2 = n2
  f1 = f1
  f2 = f2
  Callers = {c1, c2, c3}
  Names = {n1, n2}
  Files = {f1, f2}
  ImageOf <- TwoForOne
  Dest <- Apart
  MaxCalls = 4
  MaxFaults = 1
  MaxCrashes = 1
INVARIANTS RecordedIsComplete
PROPERTIES PullReturns
\* All calls have been made.
CHECK_DEADLOCK FALSE
