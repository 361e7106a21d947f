SPECIFICATION FairSpec
CONSTANTS
  Threads = {t1, t2, t3}
  Collector = gc
  MaxNesting = 2
INVARIANT
  GateInv
PROPERTY
  FlipNotStarved
