CONSTANTS
  Threads = {t1, t2, t3, t4}
  Max = 2
SPECIFICATION Spec
INVARIANT NeverTooMany
INVARIANT EnoughAwake
INVARIANT NobodySleepsAlone
PROPERTY KeepsServing
PROPERTY EveryoneAnswered
PROPERTY ImplementsPool
