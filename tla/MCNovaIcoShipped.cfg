\* Two mints, one of them possibly with other decimals, and a clock; constants.rs
\* to scale: MIN_PURCHASE * PUBLIC_SALE_RATE > U64_MAX.
CONSTANTS
  alice = alice
  bob = bob
  Users <- MCUsers
  Mints = {"nova", "other"}
  NoKey = NoKey
  U64_MAX = 8
  LAMPORTS_PER_SOL = 2
  TOKEN_DECIMALS = 9
  MIN_PURCHASE = 3
  MAX_PURCHASE = 4
  SEED_ROUND_RATE = 5
  PRIVATE_SALE_RATE = 4
  PUBLIC_SALE_RATE = 3
  InitialLamports = 5
  SolAmounts = {2, 3, 4, 5}
  TokenAmounts = {4}
  OtherDecimals = {6}
  Times = {0, 1}
SYMMETRY MCSymmetry
SPECIFICATION Spec
\* Once both addresses hold a mint without nine decimals and its supply is
\* minted, no sale can start and nobody can do anything.
CHECK_DEADLOCK FALSE
INVARIANTS OneVault NothingSoldIfOverflow
