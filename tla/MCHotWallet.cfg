\* One process, which may be restarted: its file, and up to two transactions sent while the keypair changes between the awaits.
CONSTANTS
  w1 = w1
  w2 = w2
  k1 = k1
  k2 = k2
  pw1 = pw1
  pw2 = pw2
  Wallets = {w1}
  Keys = {k1, k2}
  NoKey = NoKey
  Passwords = {pw1}
  Network = "devnet"
  RENT = 1
  InitialSol = 1
  InitialTokens = 1
  Amounts = {1}
  MaxTx = 2
SYMMETRY MCSymmetry
SPECIFICATION Spec
INVARIANTS TypeOK LatestSaveIsReadBack ReturnedWasExecuted
PROPERTY OnlyTheCallerPays
