\* One payment in NOVA.
CONSTANTS
  t1 = t1
  t2 = t2
  p1 = p1
  f1 = f1
  f2 = f2
  N = 1
  Ticks = {t1}
  Pollers = {p1}
  Forwarders = {}
  Currencies = {"NOVA"}
  Amounts = {4}
  UNIT = 2
  RoundedUp = {}
  Deposits = {2}
  MaxDeposited = 4
  RENT = 1
  FEE = 1
SYMMETRY MCSymmetry
SPECIFICATION Spec
INVARIANT NovaPaidInFull
\* A gateway whose payments are all settled has nothing left to do.
CHECK_DEADLOCK FALSE
