\* One payment in SOL, two callers of forwardFunds.
CONSTANTS
  t1 = t1
  t2 = t2
  p1 = p1
  f1 = f1
  f2 = f2
  N = 1
  Ticks = {t1}
  Pollers = {}
  Forwarders = {f1, f2}
  Currencies = {"SOL"}
  Amounts = {4}
  UNIT = 2
  RoundedUp = {}
  Deposits = {1, 4}
  MaxDeposited = 5
  RENT = 1
  FEE = 1
SYMMETRY MCSymmetry
SPECIFICATION Spec
INVARIANT ForwardedOnce
\* A gateway whose payments are all settled has nothing left to do.
CHECK_DEADLOCK FALSE
