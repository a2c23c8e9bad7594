-------------------------- MODULE ColdWalletProofs --------------------------
(***************************************************************************)
(* Proofs about ColdWallet, for any number of processes, keys, passwords,  *)
(* transactions and co-signers.                                            *)
(***************************************************************************)
EXTENDS ColdWallet, WalletFileProofs

----------------------------------------------------------------------------
(* The file                                                                *)

\* What is saved is a wallet, as its keypair is.
LEMMA SaveIsOpen ==
  ASSUME FileTypeOK, NEW w \in Wallets, NEW password \in Passwords, SaveOpen(w, password)
  PROVE  /\ NewContent(w, password) \in Content
         /\ OpenForWriting(w, NewContent(w, password))
  <1>1. keypair[w] \in Keys
    BY DEF SaveOpen, OpenForWriting, CanSave, FileTypeOK
  <1> QED
    BY <1>1 DEF SaveOpen, NewContent, Content

\* A step of the cold wallet is one of the file and its keys, or leaves them.
LEMMA StepIsFileStep ==
  ASSUME FileTypeOK, [Next]_vars
  PROVE  [FileNext]_fileVars
  <1>1. ASSUME NEW w \in Wallets, Storing(w) PROVE FileNext
    <2>1. ASSUME NEW k \in Keys,
                 GenerateWallet(w, k) \/ FromSeedPhrase(w, k) \/ RestoreFromBackup(w, k)
          PROVE  FileNext
      BY <2>1 DEF GenerateWallet, FromSeedPhrase, RestoreFromBackup, FileNext
    <2>2. CASE CreatePaperBackup(w) \/ SaveWrite(w) \/ Restart(w)
      BY <2>2 DEF CreatePaperBackup, SaveWrite, Restart, FileNext
    <2>3. ASSUME NEW password \in Passwords, SaveOpen(w, password) PROVE FileNext
      BY <2>3, SaveIsOpen DEF FileNext
    <2>4. ASSUME NEW password \in Passwords, LoadWallet(w, password) PROVE FileNext
      BY <2>4 DEF LoadWallet, KdfOf, FileNext
    <2> QED
      BY <1>1, <2>1, <2>2, <2>3, <2>4 DEF Storing
  <1> QED
    BY <1>1 DEF Next, SignTransaction, Prepare, vars

\* The wallet starts without a file, or with an earlier one.
LEMMA InitIsFileInit ==
  ASSUME Init
  PROVE  \E initial \in {File("missing", NoContent)} \cup {File("whole", c) : c \in Content} :
           FileInit(initial)
  BY DEF Init, EarlierFiles

\* The cold wallet treats its file and its keys as WalletFile says, as the hot
\* wallet does.
THEOREM ImplementsFile == Spec => FileSpec
  <1> DEFINE Initial == \E initial \in {File("missing", NoContent)}
                                         \cup {File("whole", c) : c \in Content} :
                           FileInit(initial)
  <1>1. Init => Initial
    BY InitIsFileInit
  <1>2. Initial => FileInv
    BY FileInvInit
  <1>3. FileInv /\ [Next]_vars => [FileNext]_fileVars
    BY StepIsFileStep DEF FileInv
  <1>4. FileInv /\ [Next]_vars => FileInv'
    BY <1>3, FileInvStep
  <1> QED
    BY <1>1, <1>2, <1>3, <1>4, PTL DEF Spec, FileSpec

----------------------------------------------------------------------------
(* Signing                                                                 *)

\* What is carried between co-signers, whatever becomes of keys and file.
SigningInv ==
  /\ format \in [Transactions -> Formats]
  /\ signature \in [Transactions -> Signatures]
  /\ signedBy \in [Transactions -> SUBSET Required]
  /\ SignedStaysValid

\* A wallet that signs fills its own slot and leaves the others, none of which
\* is invalid.
LEMMA SigningFillsOneSlot ==
  ASSUME NEW t \in Transactions, NEW k \in Keys, signature[t] \in Signatures,
         SignedAsLegacy(t, k)
  PROVE  /\ k \in Required /\ PartialSigning(signature[t], k) \in Signatures
         /\ PartialSigning(signature[t], k)[k] = "valid"
         /\ \A j \in Required \ {k} : PartialSigning(signature[t], k)[j] = signature[t][j]
         /\ \A j \in Required : PartialSigning(signature[t], k)[j] # "invalid"
  BY DEF SignedAsLegacy, Serializable, PartialSigning, Signatures

\* A wallet signs a transaction.
LEMMA SignStep ==
  ASSUME SigningInv, FileTypeOK, NEW w \in Wallets, NEW t \in Transactions,
         SignTransaction(w, t)
  PROVE  SigningInv'
  <1> DEFINE k == keypair[w]
             slots == PartialSigning(signature[t], k)
  <1>1. k \in Keys /\ format' = format
    BY DEF SignTransaction, FileTypeOK
  <1>2. /\ SignedAsLegacy(t, k)
        /\ signature' = [signature EXCEPT ![t] = slots]
        /\ signedBy' = [signedBy EXCEPT ![t] = @ \cup {k}]
    BY DEF SignTransaction
  <1>3. /\ k \in Required /\ slots \in Signatures /\ slots[k] = "valid"
        /\ \A j \in Required \ {k} : slots[j] = signature[t][j]
        /\ \A j \in Required : slots[j] # "invalid"
    BY <1>1, <1>2, SigningFillsOneSlot DEF SigningInv
  <1> HIDE DEF k, slots
  <1>4. /\ signature' \in [Transactions -> Signatures]
        /\ signedBy' \in [Transactions -> SUBSET Required]
    BY <1>2, <1>3 DEF SigningInv
  <1>5. SignedStaysValid'
    <2> SUFFICES ASSUME NEW s \in Transactions, signedBy'[s] # {}
                 PROVE  /\ \A j \in signedBy'[s] : signature'[s][j] = "valid"
                        /\ \A j \in Required : signature'[s][j] # "invalid"
      BY DEF SignedStaysValid
    <2>1. CASE s # t
      BY <1>2, <2>1 DEF SigningInv, SignedStaysValid
    <2>2. CASE s = t
      <3>1. signature'[s] = slots /\ signedBy'[s] = signedBy[t] \cup {k}
        BY <1>2, <2>2 DEF SigningInv
      <3>2. \A j \in signedBy[t] : j \in Required /\ signature[t][j] = "valid"
        BY DEF SigningInv, SignedStaysValid
      <3> QED
        BY <1>3, <3>1, <3>2
    <2> QED
      BY <2>1, <2>2
  <1> QED
    BY <1>1, <1>4, <1>5 DEF SigningInv

\* No step of any process breaks it.
LEMMA SigningStep ==
  ASSUME SigningInv, FileTypeOK, [Next]_vars
  PROVE  SigningInv'
  <1>1. CASE UNCHANGED carried
    BY <1>1 DEF carried, SigningInv, SignedStaysValid
  <1>2. ASSUME NEW t \in Transactions, NEW f \in Formats, NEW slots \in Signatures,
               Prepare(t, f, slots)
        PROVE  SigningInv'
    <2>1. /\ format' \in [Transactions -> Formats]
          /\ signature' \in [Transactions -> Signatures]
          /\ signedBy' \in [Transactions -> SUBSET Required]
      BY <1>2 DEF Prepare, SigningInv
    <2>2. SignedStaysValid'
      BY <1>2 DEF Prepare, SigningInv, SignedStaysValid
    <2> QED
      BY <2>1, <2>2 DEF SigningInv
  <1>3. ASSUME NEW w \in Wallets, Storing(w) PROVE SigningInv'
    BY <1>1, <1>3 DEF Storing, GenerateWallet, FromSeedPhrase, RestoreFromBackup,
                      CreatePaperBackup, SaveOpen, LoadWallet, SaveWrite, Restart
  <1> QED
    BY <1>1, <1>2, <1>3, SignStep DEF Next, vars

----------------------------------------------------------------------------
(* Theorems                                                                *)

\* The inductive invariant holds in every reachable state.
THEOREM Invariance == Spec => []IInv
  <1>1. Init => IInv
    <2> SUFFICES ASSUME Init PROVE IInv
      OBVIOUS
    <2>1. FileInv
      BY InitIsFileInit, FileInvInit
    <2>2. SavedAsItIsRead
      <3>1. CASE FileInit(File("missing", NoContent))
        BY <3>1 DEF FileInit, File, SavedAsItIsRead
      <3>2. ASSUME NEW c \in EarlierFiles, FileInit(File("whole", c)) PROVE SavedAsItIsRead
        BY <3>2 DEF FileInit, File, SavedAsItIsRead, EarlierFiles, KdfOf
      <3> QED
        BY <3>1, <3>2 DEF Init
    <2>3. SigningInv
      BY DEF Init, SigningInv, Formats, Signatures, SignedStaysValid
    <2> QED
      BY <2>1, <2>2, <2>3 DEF IInv, TypeOK, FileInv, SigningInv
  <1>2. IInv /\ [Next]_vars => IInv'
    <2> SUFFICES ASSUME IInv, [Next]_vars PROVE IInv'
      OBVIOUS
    <2>1. FileInv /\ SavedAsItIsRead /\ SigningInv /\ FileTypeOK
      BY DEF IInv, TypeOK, FileInv, SigningInv
    <2>2. FileInv' /\ SigningInv'
      BY <2>1, StepIsFileStep, FileInvStep, SigningStep
    <2>3. SavedAsItIsRead'
      <3>1. ASSUME NEW w \in Wallets, NEW password \in Passwords, SaveOpen(w, password)
            PROVE  SavedAsItIsRead'
        BY <3>1 DEF SaveOpen, OpenForWriting, NewContent, KdfOf, SavedAsItIsRead
      <3>2. CASE last' = last
        BY <2>1, <3>2 DEF SavedAsItIsRead
      <3> QED
        BY <3>1, <3>2 DEF Next, Storing, GenerateWallet, FromSeedPhrase, RestoreFromBackup,
             CreatePaperBackup, LoadWallet, SaveWrite, Restart, NewKeypair, TakeSecret,
             TakeKeypair, RevealSecret, ReadIn, WriteOut, EndProcess, SignTransaction,
             Prepare, vars, fileVars, disk
    <2> QED
      BY <2>2, <2>3 DEF IInv, TypeOK, FileInv, SigningInv
  <1> QED
    BY <1>1, <1>2, PTL DEF Spec

\* Every variable always holds values of its type: what is saved is a wallet,
\* and only required signers sign.
THEOREM TypeCorrect == Spec => []TypeOK
  <1>1. IInv => TypeOK
    BY DEF IInv
  <1> QED
    BY <1>1, Invariance, PTL

\* What saveWallet wrote last can be loaded again, and so can the file of an
\* earlier version, unless that save was cut off or met another one.
THEOREM SavesAreReadBack == Spec => []LatestSaveIsReadBack
  <1>1. IInv => LatestSaveIsReadBack
    <2> SUFFICES ASSUME IInv, Undisturbed
                 PROVE  /\ Decrypts(last.password, KdfOf(file.content.version))
                        /\ file.content.key = last.key
      BY DEF LatestSaveIsReadBack
    <2>1. file = File("whole", last) /\ last.kdf = KdfOf(last.version)
      BY DEF IInv, FileInv, UndisturbedIsWhole, Undisturbed, SavedAsItIsRead
    <2>2. file.state = "whole" /\ file.content = last
      BY <2>1 DEF File
    <2> QED
      BY <2>1, <2>2 DEF Decrypts
  <1> QED
    BY <1>1, Invariance, PTL

\* A transaction that wallets have returned signed keeps the signature of each,
\* whoever signs after it, and never carries an invalid one.
THEOREM SignaturesStay == Spec => []SignedStaysValid
  <1>1. IInv => SignedStaysValid
    BY DEF IInv
  <1> QED
    BY <1>1, Invariance, PTL
=============================================================================
