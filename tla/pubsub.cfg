SPECIFICATION LiveSpec
CONSTANTS
  p1 = p1  p2 = p2  c1 = c1  c2 = c2
  onceA = onceA  onceB = onceB  of = of  lasting = lasting
  Procs = {p1, p2}
  Channels = {c1, c2}
  Once = {onceA, onceB}
  OnceOf = {of}
  Lasting = {lasting}
  Timed = {onceA, of}
  Uses <- PrivateAndShared
  MaxErrors = 1
  MaxMessages = 2
INVARIANTS
  TypeOK
  NotDeaf
  OneAnswer
PROPERTIES
  Unsubscribes
  TimedCallsAnswer
  MessagesAnswer
CHECK_DEADLOCK FALSE
