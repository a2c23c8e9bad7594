\* One payment in SOL, two callers of forwardFunds, overlapping ticks, one caller of getPaymentStatus, an amount below zero and one whose double product is rounded up.
CONSTANTS
  t1 = t1
  t2 = t2
  p1 = p1
  f1 = f1
  f2 = f2
  N = 1
  Ticks = {t1, t2}
  Pollers = {p1}
  Forwarders = {f1, f2}
  Currencies = {"SOL"}
  Amounts <- SignedAmounts
  UNIT = 2
  RoundedUp = {4}
  Deposits = {1, 4}
  MaxDeposited = 5
  RENT = 1
  FEE = 1
SYMMETRY MCSymmetry
SPECIFICATION Spec
INVARIANTS TypeOK OnlyCompletedForwarded ReportedWasMoved
PROPERTIES BookSpec SettledAndQuietIsFinal
\* A gateway whose payments are all settled has nothing left to do.
CHECK_DEADLOCK FALSE
