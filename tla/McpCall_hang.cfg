SPECIFICATION Spec
CONSTANTS
  a = a  b = b  c = c  d = d
  haiku = haiku  global = global  nova = nova
  OnLoop = {a}
  InThread = {b, c, d}
  Strict = {d}
  Asking = {a, c}
  Swallows = {a}
  Primary = haiku
  Fallbacks <- MCFallbacks
  PoolSize = 2
PROPERTIES TimeoutBoundsTheWait
CHECK_DEADLOCK FALSE
