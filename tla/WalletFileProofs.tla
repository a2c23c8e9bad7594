-------------------------- MODULE WalletFileProofs --------------------------
(***************************************************************************)
(* Proofs about WalletFile, for any number of processes, keys and          *)
(* passwords, in any interleaving of saves, loads and crashes.             *)
(***************************************************************************)
EXTENDS WalletFile, TLAPS

USE DEF CanSave, Truncated, Running

\* What is being written can be told from nothing being written.
LEMMA ContentIsNotNothing == NoContent \notin Content
  BY DEF NoContent, Content

\* The file as the first process finds it.
LEMMA FileInvInit ==
  ASSUME NEW initial \in {File("missing", NoContent)} \cup {File("whole", c) : c \in Content},
         FileInit(initial)
  PROVE  FileInv
  <1>1. /\ initial.content \in Content \cup {NoContent}
        /\ initial.content = NoContent \/ initial = File("whole", initial.content)
        /\ initial.state \in {"missing", "whole"}
        /\ initial = [state |-> initial.state, content |-> initial.content]
    BY DEF File
  <1>2. generated \subseteq Keys
    BY <1>1 DEF FileInit, Content
  <1>3. FileTypeOK
    BY <1>1, <1>2 DEF FileInit, FileTypeOK
  <1> QED
    BY <1>1, <1>3 DEF FileInit, FileInv, UndisturbedIsWhole, Undisturbed, OneWriter

\* Taking, generating and handing out keys leaves the file alone.
LEMMA KeysStep ==
  ASSUME FileInv, keypair' \in [Wallets -> Keys \cup {NoKey}],
         generated' \subseteq Keys, exported' \subseteq Keys, UNCHANGED <<writing, disk>>
  PROVE  FileInv'
  BY DEF FileInv, FileTypeOK, UndisturbedIsWhole, Undisturbed, OneWriter, disk

\* A save is opened: it meets another one, or is the only one.
LEMMA OpenStep ==
  ASSUME FileInv, NEW w \in Wallets, NEW content \in Content, OpenForWriting(w, content)
  PROVE  FileInv'
  <1>1. /\ file' = File("empty", NoContent) /\ last' = content
        /\ writing' = [writing EXCEPT ![w] = content]
        /\ disturbed' = \E v \in Wallets : writing[v] # NoContent
        /\ UNCHANGED <<keypair, generated, exported>>
    BY DEF OpenForWriting
  <1>2. FileTypeOK'
    BY <1>1 DEF FileInv, FileTypeOK, File
  <1>3. writing'[w] = content /\ content # NoContent
    BY <1>1, ContentIsNotNothing DEF FileInv, FileTypeOK
  <1>4. UndisturbedIsWhole'
    BY <1>3 DEF UndisturbedIsWhole, Undisturbed
  <1>5. ASSUME ~disturbed' PROVE \A v \in Wallets : v # w => writing'[v] = NoContent
    BY <1>1, <1>5 DEF FileInv, FileTypeOK
  <1>6. OneWriter'
    BY <1>1, <1>3, <1>5 DEF OneWriter
  <1> QED
    BY <1>2, <1>4, <1>6 DEF FileInv

\* A save is completed: undisturbed, it leaves the file whole.
LEMMA WriteStep ==
  ASSUME FileInv, NEW w \in Wallets, WriteOut(w)
  PROVE  FileInv'
  <1>1. /\ writing[w] # NoContent /\ writing' = [writing EXCEPT ![w] = NoContent]
        /\ \/ file' = File("whole", writing[w])
           \/ file.state # "empty" /\ file' = File("garbled", NoContent)
        /\ UNCHANGED <<keypair, generated, exported, last, disturbed>>
    BY DEF WriteOut
  <1>2. FileTypeOK'
    BY <1>1 DEF FileInv, FileTypeOK, File
  <1>3. ASSUME ~disturbed
        PROVE  /\ file' = File("whole", last)
               /\ \A v \in Wallets : writing'[v] = NoContent
    <2>1. /\ writing[w] = last /\ file = File("empty", NoContent)
          /\ \A v \in Wallets : writing[v] # NoContent => v = w
      BY <1>1, <1>3 DEF FileInv, OneWriter
    <2>2. file' = File("whole", last)
      BY <1>1, <2>1 DEF File
    <2> QED
      BY <1>1, <2>1, <2>2 DEF FileInv, FileTypeOK
  <1>4. UndisturbedIsWhole' /\ OneWriter'
    BY <1>1, <1>3 DEF UndisturbedIsWhole, Undisturbed, OneWriter
  <1> QED
    BY <1>2, <1>4 DEF FileInv

\* A process ends: if it was writing, the save is cut off.
LEMMA EndStep ==
  ASSUME FileInv, NEW w \in Wallets, EndProcess(w)
  PROVE  FileInv'
  <1>1. /\ writing' = [writing EXCEPT ![w] = NoContent]
        /\ disturbed' = (disturbed \/ writing[w] # NoContent)
        /\ keypair' = [keypair EXCEPT ![w] = NoKey]
        /\ UNCHANGED <<generated, exported, file, last>>
    BY DEF EndProcess
  <1>2. FileTypeOK'
    BY <1>1 DEF FileInv, FileTypeOK
  <1>3. ~disturbed' => ~disturbed /\ writing' = writing
    BY <1>1 DEF FileInv, FileTypeOK
  <1>4. UndisturbedIsWhole' /\ OneWriter'
    BY <1>1, <1>3 DEF FileInv, UndisturbedIsWhole, Undisturbed, OneWriter
  <1> QED
    BY <1>2, <1>4 DEF FileInv

\* No step of any process breaks the invariant.
LEMMA FileInvStep ==
  ASSUME FileInv, [FileNext]_fileVars
  PROVE  FileInv'
  <1>1. ASSUME NEW w \in Wallets, NEW k \in Keys,
               \/ NewKeypair(w, k) \/ TakeSecret(w, k)
               \/ TakeKeypair(w, k) /\ UNCHANGED generated
        PROVE  FileInv'
    <2>1. /\ keypair' = [keypair EXCEPT ![w] = k] /\ generated' \subseteq Keys
          /\ UNCHANGED <<exported, writing, disk>>
      BY <1>1 DEF NewKeypair, TakeSecret, TakeKeypair, FileInv, FileTypeOK
    <2> QED
      BY <2>1, KeysStep DEF FileInv, FileTypeOK
  <1>2. ASSUME NEW w \in Wallets, RevealSecret(w) PROVE FileInv'
    BY <1>2, KeysStep DEF RevealSecret, FileInv, FileTypeOK
  <1>3. ASSUME NEW w \in Wallets, NEW password, NEW kdf \in {"sha256", "sha512"},
               ReadIn(w, password, kdf)
        PROVE  FileInv'
    <2>1. file.content # NoContent
      BY <1>3 DEF ReadIn, Decrypts, NoContent
    <2>2. file.content.key \in Keys
      BY <2>1 DEF FileInv, FileTypeOK, Content
    <2>3. /\ keypair' = [keypair EXCEPT ![w] = file.content.key]
          /\ UNCHANGED <<generated, exported, writing, disk>>
      BY <1>3 DEF ReadIn, TakeKeypair
    <2> QED
      BY <2>2, <2>3, KeysStep DEF FileInv, FileTypeOK
  <1>4. CASE UNCHANGED fileVars
    BY <1>4, KeysStep DEF fileVars, FileInv, FileTypeOK
  <1> QED
    BY <1>1, <1>2, <1>3, <1>4, OpenStep, WriteStep, EndStep DEF FileNext

\* The file of either wallet is whole and holds what the latest save wrote,
\* unless that save was cut off or met another one, however many processes load,
\* save and end around it and whatever became of the saves before.
THEOREM FileInvariance == FileSpec => []FileInv
  <1> DEFINE Initial == \E initial \in {File("missing", NoContent)}
                                         \cup {File("whole", c) : c \in Content} :
                           FileInit(initial)
  <1>1. Initial => FileInv
    BY FileInvInit
  <1>2. FileInv /\ [FileNext]_fileVars => FileInv'
    BY FileInvStep
  <1> QED
    BY <1>1, <1>2, PTL DEF FileSpec
=============================================================================
