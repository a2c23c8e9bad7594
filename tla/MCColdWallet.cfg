\* Two processes that share the wallet file, three keys of which two co-sign, a transaction in either format.
CONSTANTS
  w1 = w1
  w2 = w2
  pw1 = pw1
  pw2 = pw2
  Wallets = {w1, w2}
  Keys = {"k1", "k2", "phrase"}
  NoKey = NoKey
  Passwords = {pw1, pw2}
  ShortPasswords = {pw2}
  PhraseKeys = {"phrase"}
  Transactions = {"t"}
  Required = {"k1", "phrase"}
SYMMETRY MCSymmetry
SPECIFICATION Spec
INVARIANTS TypeOK LatestSaveIsReadBack SignedStaysValid
