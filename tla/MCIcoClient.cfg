\* A client with two wallets and two calls under way, on one mint.
CONSTANTS
  alice = alice
  bob = bob
  c1 = c1
  c2 = c2
  Users = {alice, bob}
  Mints = {"nova"}
  NoKey = NoKey
  U64_MAX = 12
  LAMPORTS_PER_SOL = 3
  TOKEN_DECIMALS = 9
  MIN_PURCHASE = 2
  MAX_PURCHASE = 4
  SEED_ROUND_RATE = 3
  PRIVATE_SALE_RATE = 3
  PUBLIC_SALE_RATE = 3
  InitialLamports = 4
  SolAmounts = {2}
  TokenAmounts = {4, 7}
  OtherDecimals = {}
  Times = {0}
  Calls = {c1, c2}
  Supply = 7
  MAX_SAFE = 7
  SolArgs = {3}
  RoundedDown = {3}
  Phases = {1}
SYMMETRY MCSymmetry
SPECIFICATION ClientSpec
INVARIANTS ClientTypeOK ReturnedMintIsSupplied PaidIsRecorded RecordedIsPaid
PROPERTIES OnlyTheCallerSpends
