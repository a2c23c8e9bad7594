----------------------------- MODULE WalletFile -----------------------------
(***************************************************************************)
(* What the hot wallet (app/wallet/hot-wallet.js) and the cold wallet      *)
(* (app/wallet/cold-wallet.js) have in common: wallet objects, each in a   *)
(* process of its own as the CLIs create them, that generate, hand out and *)
(* take keypairs, and the one encrypted file they save to and load from.   *)
(*                                                                         *)
(* A method that does not await runs without interruption by its own       *)
(* process, but fs.writeFileSync truncates the file and writes it in two   *)
(* steps that other processes, and a crash, can see.                       *)
(*                                                                         *)
(* The modules that extend this one add the guards, formats and further    *)
(* state of either wallet.                                                 *)
(***************************************************************************)
CONSTANTS
  Wallets,    \* processes with a wallet object each
  Keys,       \* keypairs
  NoKey,      \* null
  Passwords   \* arguments of saveWallet and loadWallet

ASSUME WalletFileAssumption == NoKey \notin Keys

VARIABLES
  keypair,    \* keypair[w]: this.keypair
  generated,  \* keys that were generated
  exported,   \* keys whose secret was handed to the owner
  file,       \* the wallet file
  writing,    \* writing[w]: what w is about to write into the truncated file
  last,       \* history: what the latest saveWallet wrote, or is writing
  disturbed   \* history: was the latest save cut off, or did it meet another one?

disk == <<file, last, disturbed>>
fileVars == <<keypair, generated, exported, writing, disk>>

\* How the file's key was derived from the password (PBKDF2 with 100000 rounds
\* of sha256 or with 210000 of sha512), and its version field, 0 if there is none.
NoContent == [key |-> NoKey, password |-> NoKey, kdf |-> "none", version |-> 0]
Content == [key : Keys, password : Passwords, kdf : {"sha256", "sha512"}, version : {0, 2}]

File(state, content) == [state |-> state, content |-> content]

\* w is not inside writeFileSync.
Running(w) == writing[w] = NoContent

----------------------------------------------------------------------------
(* Keys                                                                    *)

TakeKeypair(w, k) ==
  /\ Running(w)
  /\ keypair' = [keypair EXCEPT ![w] = k]
  /\ UNCHANGED <<exported, writing, disk>>

NewKeypair(w, k) ==
  /\ k \notin generated
  /\ generated' = generated \cup {k}
  /\ TakeKeypair(w, k)

RevealSecret(w) ==
  /\ Running(w) /\ keypair[w] # NoKey
  /\ exported' = exported \cup {keypair[w]}
  /\ UNCHANGED <<keypair, generated, writing, disk>>

TakeSecret(w, k) ==
  /\ k \in exported
  /\ TakeKeypair(w, k) /\ UNCHANGED generated

----------------------------------------------------------------------------
(* The file                                                                *)

\* Mutant: it is not checked that a wallet is loaded.
CanSaveNothing(w) == Running(w)

CanSave(w) == Running(w) /\ keypair[w] # NoKey

\* Mutant: a file that exists is left as it is.
TruncatedIfNew == IF file.state = "missing" THEN File("empty", NoContent) ELSE file

Truncated == File("empty", NoContent)

OpenForWriting(w, content) ==
  /\ CanSave(w)
  /\ file' = Truncated
  /\ writing' = [writing EXCEPT ![w] = content]
  /\ last' = content
  /\ disturbed' = \E v \in Wallets : ~Running(v)
  /\ UNCHANGED <<keypair, generated, exported>>

\* Two contents may differ by a character in length: written over a longer
\* one, a content is followed by what is left of the other.
WriteOut(w) ==
  /\ ~Running(w)
  /\ \/ file' = File("whole", writing[w])
     \/ file.state # "empty" /\ file' = File("garbled", NoContent)
  /\ writing' = [writing EXCEPT ![w] = NoContent]
  /\ UNCHANGED <<keypair, generated, exported, last, disturbed>>

\* JSON.parse succeeds, and the key derived from the password as kdf says fits
\* the authentication tag.  Any other load throws.
Decrypts(password, kdf) ==
  /\ file.state = "whole"
  /\ file.content.password = password /\ file.content.kdf = kdf

ReadIn(w, password, kdf) ==
  /\ Decrypts(password, kdf)
  /\ TakeKeypair(w, file.content.key) /\ UNCHANGED generated

\* The process ends, at whatever point, and the next one starts.
EndProcess(w) ==
  /\ keypair' = [keypair EXCEPT ![w] = NoKey]
  /\ writing' = [writing EXCEPT ![w] = NoContent]
  /\ disturbed' = (disturbed \/ ~Running(w))
  /\ UNCHANGED <<generated, exported, file, last>>

----------------------------------------------------------------------------
\* `initial`: the file there is when the first process starts.
FileInit(initial) ==
  /\ keypair = [w \in Wallets |-> NoKey]
  /\ generated = IF initial.content = NoContent THEN {} ELSE {initial.content.key}
  /\ exported = {}
  /\ file = initial
  /\ writing = [w \in Wallets |-> NoContent]
  /\ last = initial.content /\ disturbed = FALSE

FileNext ==
  \E w \in Wallets :
    \/ \E k \in Keys :
         NewKeypair(w, k) \/ TakeSecret(w, k) \/ (TakeKeypair(w, k) /\ UNCHANGED generated)
    \/ RevealSecret(w)
    \/ \E content \in Content : OpenForWriting(w, content)
    \/ WriteOut(w)
    \/ \E password \in Passwords, kdf \in {"sha256", "sha512"} : ReadIn(w, password, kdf)
    \/ EndProcess(w)

\* The file is missing, or was left by an earlier process.
FileSpec ==
  /\ \E initial \in {File("missing", NoContent)} \cup {File("whole", c) : c \in Content} :
       FileInit(initial)
  /\ [][FileNext]_fileVars

----------------------------------------------------------------------------
(* Properties                                                              *)

\* Every variable holds values of its type: what is in the file, or about to
\* be written, is a wallet or nothing.
FileTypeOK ==
  /\ keypair \in [Wallets -> Keys \cup {NoKey}]
  /\ generated \subseteq Keys /\ exported \subseteq Keys
  /\ file \in [state : {"missing", "empty", "garbled", "whole"},
               content : Content \cup {NoContent}]
  /\ writing \in [Wallets -> Content \cup {NoContent}]
  /\ last \in Content \cup {NoContent}
  /\ disturbed \in BOOLEAN

\* No save is going on, and the latest one was neither cut off nor met another
\* one, whatever became of those before it.
Undisturbed == ~disturbed /\ last # NoContent /\ \A w \in Wallets : Running(w)

\* Unless the latest save was cut off or met another one, the file holds what
\* that save wrote, complete: a save repairs what a crash or an overlap of
\* earlier ones has left.
UndisturbedIsWhole == Undisturbed => file = File("whole", last)

----------------------------------------------------------------------------
\* What makes UndisturbedIsWhole inductive: a save that is going on is the
\* only one, has an empty file before it, and is writing `last`.
OneWriter ==
  ~disturbed =>
    /\ \A v, w \in Wallets : ~Running(v) /\ ~Running(w) => v = w
    /\ \A w \in Wallets : ~Running(w) => writing[w] = last /\ file = Truncated

FileInv == FileTypeOK /\ UndisturbedIsWhole /\ OneWriter

=============================================================================
