\* constants.rs to scale: MIN_PURCHASE * PUBLIC_SALE_RATE > U64_MAX.
CONSTANTS
  alice = alice
  bob = bob
  Users <- MCUsers
  Mints = {"nova"}
  NoKey = NoKey
  U64_MAX = 7
  LAMPORTS_PER_SOL = 3
  TOKEN_DECIMALS = 9
  MIN_PURCHASE = 2
  MAX_PURCHASE = 3
  SEED_ROUND_RATE = 6
  PRIVATE_SALE_RATE = 5
  PUBLIC_SALE_RATE = 4
  InitialLamports = 5
  SolAmounts = {1, 2, 3, 4}
  TokenAmounts = {3, 7}
  OtherDecimals = {}
  Times = {0}
SYMMETRY MCSymmetry
SPECIFICATION Spec
INVARIANT WithinLimitsNeverOverflows
