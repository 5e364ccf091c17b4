SPECIFICATION Spec
CONSTANTS
  p1 = p1  p2 = p2  c1 = c1  c2 = c2
  onceA = onceA  onceB = onceB  of = of  lasting = lasting
  Procs = {p1}
  Channels = {c1}
  Once = {onceA}
  OnceOf = {}
  Lasting = {lasting}
  Timed = {}
  Uses <- DeafUse
  MaxErrors = 0
  MaxMessages = 1
INVARIANT OthersKeepTheChannel
CHECK_DEADLOCK FALSE
