----------------------------- MODULE ColdWallet -----------------------------
(***************************************************************************)
(* The cold wallet, app/wallet/cold-wallet.js: ColdWallet objects, the     *)
(* wallet file they share (WalletFile), and transactions that are carried  *)
(* to them, signed offline and carried on to the next co-signer.           *)
(*                                                                         *)
(* Every method is synchronous; signTransaction is one step.  A serialized *)
(* transaction is a slot for a signature per required signer; the message  *)
(* the signatures are about does not change while it is carried around.    *)
(* What is carried on is what a wallet returned; one that throws returns   *)
(* nothing, and the transaction stays as it was.                           *)
(***************************************************************************)
EXTENDS Integers, WalletFile

CONSTANTS
  ShortPasswords, \* passwords of less than 8 characters
  PhraseKeys,     \* keys that fromSeedPhrase derives, each from a phrase of its own
  Transactions,   \* transactions being carried between co-signers
  Required        \* the keys that have to sign every transaction

ASSUME ColdWalletAssumption ==
  /\ ShortPasswords \subseteq Passwords /\ PhraseKeys \subseteq Keys
  /\ Required \subseteq Keys

VARIABLES
  format,     \* format[t]: the format transaction t is serialized in
  signature,  \* signature[t][k]: k's signature slot in transaction t
  signedBy    \* history: signedBy[t]: keys whose wallet returned t signed

carried == <<format, signature, signedBy>>
vars == <<fileVars, carried>>

Formats == {"legacy", "v0"}

\* A co-signer's slot is invalid when, say, it was filled before the blockhash
\* was replaced.
Signatures == [Required -> {"none", "valid", "invalid"}]

----------------------------------------------------------------------------
(* Keys and the wallet file                                                *)

\* Mutant: the version is left out, as in the hot wallet's file.
NewContentNoVersion(w, password) ==
  [key |-> keypair[w], password |-> password, kdf |-> "sha512", version |-> 0]

NewContent(w, password) ==
  [key |-> keypair[w], password |-> password, kdf |-> "sha512", version |-> 2]

\* How loadWallet derives the key from the password.
KdfOf(version) == IF version = 2 THEN "sha512" ELSE "sha256"

GenerateWallet(w, k) == k \notin PhraseKeys /\ NewKeypair(w, k) /\ UNCHANGED carried

FromSeedPhrase(w, k) ==
  /\ k \in PhraseKeys
  /\ TakeKeypair(w, k) /\ UNCHANGED <<generated, carried>>

CreatePaperBackup(w) == RevealSecret(w) /\ UNCHANGED carried
RestoreFromBackup(w, k) == TakeSecret(w, k) /\ UNCHANGED carried

SaveOpen(w, password) ==
  /\ password \notin ShortPasswords
  /\ OpenForWriting(w, NewContent(w, password)) /\ UNCHANGED carried

SaveWrite(w) == WriteOut(w) /\ UNCHANGED carried

LoadWallet(w, password) ==
  ReadIn(w, password, KdfOf(file.content.version)) /\ UNCHANGED carried

Restart(w) == EndProcess(w) /\ UNCHANGED carried

----------------------------------------------------------------------------
(* signTransaction                                                         *)

\* Mutant: Transaction.sign is used, which first drops the other signatures.
SigningAlone(slots, k) == [j \in Required |-> IF j = k THEN "valid" ELSE "none"]

\* Transaction.partialSign.
PartialSigning(slots, k) == [slots EXCEPT ![k] = "valid"]

\* Mutant: serialize is told not to verify the signatures.
SerializableAlways(slots) == TRUE

\* serialize({ requireAllSignatures: false }) refuses an invalid signature.
Serializable(slots) == \A k \in Required : slots[k] # "invalid"

\* Transaction.from refuses a versioned message.
ParsedAsLegacy(t) == format[t] = "legacy"

\* partialSign refuses a key that is not one of the signers.
SignedAsLegacy(t, k) ==
  ParsedAsLegacy(t) /\ k \in Required /\ Serializable(PartialSigning(signature[t], k))

\* Whatever the legacy branch throws, the transaction is tried again as a
\* versioned one. That branch throws before it signs: the blockhash that it
\* encodes for display is a base58 string by then, and encode takes bytes. So
\* what is not signed as a legacy transaction is not returned at all.
SignTransaction(w, t) ==
  LET k == keypair[w]
  IN  /\ Running(w) /\ k # NoKey
      /\ SignedAsLegacy(t, k)
      /\ signature' = [signature EXCEPT ![t] = PartialSigning(@, k)]
      /\ signedBy' = [signedBy EXCEPT ![t] = @ \cup {k}]
      /\ UNCHANGED <<fileVars, format>>

\* A transaction is prepared anew: nobody, or somebody else, has signed it.
Prepare(t, f, slots) ==
  /\ format' = [format EXCEPT ![t] = f]
  /\ signature' = [signature EXCEPT ![t] = slots]
  /\ signedBy' = [signedBy EXCEPT ![t] = {}]
  /\ UNCHANGED fileVars

----------------------------------------------------------------------------
\* The file may be one an earlier version, or the hot wallet, has written.
EarlierFiles == {c \in Content : c.version # 2 /\ c.kdf = "sha256" /\ c.key \notin PhraseKeys}

Init ==
  /\ \/ FileInit(File("missing", NoContent))
     \/ \E c \in EarlierFiles : FileInit(File("whole", c))
  /\ format = [t \in Transactions |-> "legacy"]
  /\ signature = [t \in Transactions |-> [k \in Required |-> "none"]]
  /\ signedBy = [t \in Transactions |-> {}]

Storing(w) ==
  \/ \E k \in Keys : GenerateWallet(w, k) \/ FromSeedPhrase(w, k) \/ RestoreFromBackup(w, k)
  \/ CreatePaperBackup(w)
  \/ \E password \in Passwords : SaveOpen(w, password) \/ LoadWallet(w, password)
  \/ SaveWrite(w)
  \/ Restart(w)

Next ==
  \/ \E w \in Wallets : Storing(w) \/ \E t \in Transactions : SignTransaction(w, t)
  \/ \E t \in Transactions, f \in Formats, slots \in Signatures : Prepare(t, f, slots)

Spec == Init /\ [][Next]_vars

----------------------------------------------------------------------------
(* Properties                                                              *)

\* Every variable holds values of its type: what is saved is a wallet, and a
\* signature slot belongs to a required signer.
TypeOK ==
  /\ FileTypeOK
  /\ format \in [Transactions -> Formats]
  /\ signature \in [Transactions -> Signatures]
  /\ signedBy \in [Transactions -> SUBSET Required]

\* Unless the latest save was cut off or met another one, the file opens with
\* the password of that save and gives its key, whether this version of the
\* wallet wrote it or an earlier one, and whatever crashes and overlapping
\* saves came before.
LatestSaveIsReadBack ==
  Undisturbed =>
    /\ Decrypts(last.password, KdfOf(file.content.version))
    /\ file.content.key = last.key

\* A transaction that wallets have returned signed carries the valid signature
\* of each of them, whoever signed after it, and no invalid signature: one that
\* another co-signer left invalid is never carried on.
SignedStaysValid ==
  \A t \in Transactions : signedBy[t] # {} =>
    /\ \A k \in signedBy[t] : signature[t][k] = "valid"
    /\ \A k \in Required : signature[t][k] # "invalid"

----------------------------------------------------------------------------
\* What makes LatestSaveIsReadBack inductive: the file says how its key was
\* derived.
SavedAsItIsRead == last # NoContent => last.kdf = KdfOf(last.version)

IInv ==
  TypeOK /\ FileInv /\ SavedAsItIsRead /\ SignedStaysValid

=============================================================================
