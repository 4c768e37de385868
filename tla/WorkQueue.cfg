\* Two keys, two workers: a key can be asked for while it is handled, a worker
\* can be idle while the other works, and a failed key is retried once.
CONSTANTS
  Keys = {k1, k2}
  NoKey = NoKey
  Workers = {w1, w2}
  MaxRetries = 1
SPECIFICATION FairSpec
INVARIANTS TriesBounded
PROPERTIES AskedIsHandled CancelStopsRun ImplementsKeyQueue
\* After Run has returned nothing more has to happen.
CHECK_DEADLOCK FALSE
