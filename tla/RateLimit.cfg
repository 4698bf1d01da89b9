\* Two addresses; one token every 2 ticks, 2 tokens at once; entries are
\* removed after more than 4 ticks, the least IdleAssumption allows.
CONSTANTS
  a = a
  b = b
  Ip = {a, b}
  Burst = 2
  Period = 2
  MaxIdle = 4
  MaxTime = 7
SPECIFICATION Spec
INVARIANTS TypeOK WithinRate
PROPERTY ImplementsBucket
