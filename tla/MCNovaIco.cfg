\* The sale of one mint, two wallets: authority, buyers and treasury in every combination.
CONSTANTS
  alice = alice
  bob = bob
  Users <- MCUsers
  Mints = {"nova"}
  NoKey = NoKey
  U64_MAX = 12
  LAMPORTS_PER_SOL = 3
  TOKEN_DECIMALS = 9
  MIN_PURCHASE = 2
  MAX_PURCHASE = 4
  SEED_ROUND_RATE = 4
  PRIVATE_SALE_RATE = 3
  PUBLIC_SALE_RATE = 2
  InitialLamports = 5
  SolAmounts = {1, 2, 3, 4, 5}
  TokenAmounts = {3, 7}
  OtherDecimals = {}
  Times = {0}
SYMMETRY MCSymmetry
SPECIFICATION Spec
INVARIANTS TypeOK NeverOversold VaultLedger VaultBacksUnsold SoldMatchesRecords TokensConserved SolLedger SeedRateIsTheBest
PROPERTIES VaultOutflow SaleSpec
