\* One payment in two deposits, one tick, one caller of getPaymentStatus.
CONSTANTS
  t1 = t1
  t2 = t2
  p1 = p1
  f1 = f1
  f2 = f2
  N = 1
  Ticks = {t1}
  Pollers = {p1}
  Forwarders = {}
  Currencies = {"SOL"}
  Amounts = {4}
  UNIT = 2
  RoundedUp = {}
  Deposits = {2}
  MaxDeposited = 4
  RENT = 1
  FEE = 1
SYMMETRY MCSymmetry
SPECIFICATION Spec
INVARIANT CompletedStaysForwardable
\* A gateway whose payments are all settled has nothing left to do.
CHECK_DEADLOCK FALSE
