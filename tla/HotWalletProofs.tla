--------------------------- MODULE HotWalletProofs ---------------------------
(***************************************************************************)
(* Proofs about HotWallet, for any number of processes, keys, passwords,   *)
(* amounts and transactions.                                               *)
(***************************************************************************)
EXTENDS HotWallet, WalletFileProofs

----------------------------------------------------------------------------
(* The file                                                                *)

\* What is saved is a wallet, as its keypair is.
LEMMA SaveIsOpen ==
  ASSUME FileTypeOK, NEW w \in Wallets, NEW password \in Passwords, SaveOpen(w, password)
  PROVE  /\ NewContent(w, password) \in Content
         /\ OpenForWriting(w, NewContent(w, password))
  <1>1. keypair[w] \in Keys
    BY DEF SaveOpen, OpenForWriting, CanSave, FileTypeOK
  <1> QED
    BY <1>1 DEF SaveOpen, NewContent, Content

\* A step of the hot wallet is one of the file and its keys, or leaves them.
LEMMA StepIsFileStep ==
  ASSUME FileTypeOK, [Next]_vars
  PROVE  [FileNext]_fileVars
  <1>1. ASSUME NEW w \in Wallets, Storing(w) PROVE FileNext
    <2>1. ASSUME NEW k \in Keys, GenerateWallet(w, k) \/ ImportFromSecretKey(w, k)
          PROVE  FileNext
      BY <2>1 DEF GenerateWallet, ImportFromSecretKey, FileNext
    <2>2. CASE ExportSecretKey(w) \/ SaveWrite(w) \/ Restart(w)
      BY <2>2 DEF ExportSecretKey, SaveWrite, Restart, FileNext
    <2>3. ASSUME NEW password \in Passwords, SaveOpen(w, password) PROVE FileNext
      BY <2>3, SaveIsOpen DEF FileNext
    <2>4. ASSUME NEW password \in Passwords, LoadWallet(w, password) PROVE FileNext
      BY <2>4 DEF LoadWallet, FileNext
    <2> QED
      BY <1>1, <2>1, <2>2, <2>3, <2>4 DEF Storing
  <1>2. ASSUME NEW w \in Wallets, Sending(w) PROVE UNCHANGED fileVars
    BY <1>2 DEF Sending, SendSOL, RequestAirdrop, SendTokens, GetTokenBalance, LookUp,
                CreateAccount, SendTokensTo, TransferTokens, Return, Throw, Submit
  <1> QED
    BY <1>1, <1>2 DEF Next, Execute, Fail, vars

\* The hot wallet treats its file and its keys as WalletFile says.
THEOREM ImplementsFile == Spec => FileSpec
  <1>1. Init => FileInit(File("missing", NoContent))
    BY DEF Init
  <1>2. FileInit(File("missing", NoContent)) =>
          \E initial \in {File("missing", NoContent)} \cup {File("whole", c) : c \in Content} :
            FileInit(initial)
    OBVIOUS
  <1>3. FileInv /\ [Next]_vars => [FileNext]_fileVars
    BY StepIsFileStep DEF FileInv
  <1>4. Init => FileInv
    BY <1>1, FileInvInit
  <1>5. FileInv /\ [Next]_vars => FileInv'
    BY <1>3, FileInvStep
  <1> QED
    BY <1>1, <1>2, <1>3, <1>4, <1>5, PTL DEF Spec, FileSpec

----------------------------------------------------------------------------
(* Sending                                                                 *)

\* What the chain and the callers know, whatever becomes of keys and file.
SendingInv ==
  /\ call \in [Wallets -> CallRecord]
  /\ tx \in [Ids -> Transaction]
  /\ sent \in 0..MaxTx /\ returned \subseteq 1..sent
  /\ sol \in [Keys -> Nat] /\ tokens \in [Keys -> Nat] /\ accounts \subseteq Keys
  /\ CallsAreSound /\ PayersAreFair /\ ReturnedWasExecuted

LEMMA IInvIs == IInv <=> FileInv /\ SavedAsItIsRead /\ SendingInv
  BY DEF IInv, TypeOK, FileInv, SendingInv

\* A transaction that is handed to the node is a new one, and fairly paid for.
LEMMA SubmitStep ==
  ASSUME SendingInv, FileTypeOK, NEW w \in Wallets,
         NEW pc \in {"source", "recipient", "balance", "sending"},
         NEW kind \in {"SOL", "tokens", "airdrop", "account"},
         NEW from \in Keys \cup {NoKey}, NEW to \in Keys \cup {NoKey},
         NEW signer \in Keys \cup {NoKey}, NEW amount \in Nat,
         Submit(w, pc, kind, from, to, signer, amount),
         pc = "sending" \/ pc = call[w].pc,
         kind = "account" => from = signer /\ amount = RENT /\ to \in Keys,
         kind \in {"SOL", "tokens"} =>
           from = IF call[w].pc = "idle" THEN keypair[w] ELSE call[w].from
  PROVE  SendingInv'
  <1> USE HotWalletAssumption
  <1>0. PICK old \in CallRecord : old = call[w]
    BY DEF SendingInv
  <1> DEFINE caller == IF call[w].pc = "idle" THEN keypair[w] ELSE call[w].from
             t == [state |-> "flying", kind |-> kind, from |-> from, to |-> to,
                   signer |-> signer, amount |-> amount, caller |-> caller]
             c == [old EXCEPT !.pc = pc, !.id = sent + 1]
  <1>1. /\ sent' = sent + 1 /\ sent + 1 \in Ids /\ sent \in Nat
        /\ tx' = [tx EXCEPT ![sent + 1] = t]
        /\ UNCHANGED <<sol, tokens, accounts, returned>>
    BY DEF Submit, SendingInv, Ids, balances
  <1>2. call' = [call EXCEPT ![w] = c]
    BY <1>0 DEF Submit, SendingInv
  <1>3. call[w] \in CallRecord /\ caller \in Keys \cup {NoKey}
    BY DEF FileTypeOK, SendingInv, CallRecord
  <1>4. t \in Transaction /\ PaidFairly(t)
    <2> HIDE DEF caller
    <2>1. t \in Transaction
      BY <1>3 DEF Transaction
    <2>2. kind \in {"SOL", "tokens"} => from = caller
      BY DEF caller
    <2> QED
      BY <2>1, <2>2 DEF PaidFairly
  <1>5. /\ c \in CallRecord /\ c.pc = pc /\ c.id = sent + 1
        /\ c.from = call[w].from /\ c.to = call[w].to
    <2>1. sent + 1 \in 0..MaxTx
      BY <1>1 DEF Ids
    <2> DEFINE id == sent + 1
    <2> HIDE DEF id
    <2>2. id \in 0..MaxTx
      BY <2>1 DEF id
    <2>3. [old EXCEPT !.pc = pc, !.id = id] \in CallRecord
      BY <2>2 DEF CallRecord
    <2>4. /\ [old EXCEPT !.pc = pc, !.id = id].pc = pc
          /\ [old EXCEPT !.pc = pc, !.id = id].id = id
          /\ [old EXCEPT !.pc = pc, !.id = id].from = old.from
          /\ [old EXCEPT !.pc = pc, !.id = id].to = old.to
      BY DEF CallRecord
    <2> QED
      BY <1>0, <2>3, <2>4, Zenon DEF id
  <1> HIDE DEF t, c, caller
  <1>6. /\ call' \in [Wallets -> CallRecord] /\ tx' \in [Ids -> Transaction]
        /\ sent' \in 0..MaxTx /\ returned' \subseteq 1..sent'
        /\ sol' \in [Keys -> Nat] /\ tokens' \in [Keys -> Nat] /\ accounts' \subseteq Keys
    BY <1>1, <1>2, <1>4, <1>5 DEF SendingInv, Ids
  <1>7. CallsAreSound'
    <2> SUFFICES ASSUME NEW v \in Wallets
                 PROVE  /\ call'[v].pc = "sending" => call'[v].id \in 1..sent'
                        /\ call'[v].pc \in {"source", "balance"} => call'[v].from \in Keys
                        /\ call'[v].pc \in {"source", "recipient"} => call'[v].to \in Keys
      BY DEF CallsAreSound
    <2>1. /\ call[v].pc = "sending" => call[v].id \in 1..sent
          /\ call[v].pc \in {"source", "balance"} => call[v].from \in Keys
          /\ call[v].pc \in {"source", "recipient"} => call[v].to \in Keys
      BY DEF SendingInv, CallsAreSound
    <2>2. CASE v # w
      <3>1. call'[v] = call[v]
        BY <1>2, <2>2 DEF SendingInv
      <3> QED
        BY <1>1, <2>1, <3>1
    <2>3. CASE v = w
      <3>1. call'[v] = c
        BY <1>2, <2>3 DEF SendingInv
      <3> QED
        BY <1>1, <1>5, <2>1, <2>3, <3>1
    <2> QED
      BY <2>2, <2>3
  <1>8. PayersAreFair'
    <2>1. \A i \in Ids : tx'[i] = t \/ tx'[i] = tx[i]
      BY <1>1 DEF SendingInv
    <2> QED
      BY <1>4, <2>1 DEF SendingInv, PayersAreFair, PaidFairly
  <1>9. ReturnedWasExecuted'
    <2>1. \A i \in returned : i \in Ids /\ i # sent + 1
      BY <1>1 DEF SendingInv, Ids
    <2> QED
      BY <1>1, <2>1 DEF SendingInv, ReturnedWasExecuted
  <1> QED
    BY <1>6, <1>7, <1>8, <1>9 DEF SendingInv

\* A call goes on, ends or is dropped without sending anything.
LEMMA CallStep ==
  ASSUME SendingInv, NEW w \in Wallets, NEW c \in CallRecord,
         c.pc # "sending",
         c.pc \in {"source", "balance"} => c.from \in Keys,
         c.pc \in {"source", "recipient"} => c.to \in Keys,
         call' = [call EXCEPT ![w] = c],
         UNCHANGED chain,
         returned' = returned \/ (returned' = returned \cup {call[w].id}
                                  /\ call[w].pc = "sending" /\ Confirmed(call[w].id))
  PROVE  SendingInv'
  <1>1. UNCHANGED <<tx, sent, sol, tokens, accounts>>
    BY DEF chain, balances
  <1>2. call' \in [Wallets -> CallRecord] /\ returned' \subseteq 1..sent
    BY DEF SendingInv, CallsAreSound
  <1>3. CallsAreSound' /\ PayersAreFair'
    BY <1>1 DEF SendingInv, CallsAreSound, PayersAreFair, PaidFairly
  <1>4. ReturnedWasExecuted'
    BY <1>1 DEF SendingInv, ReturnedWasExecuted, Confirmed
  <1> QED
    BY <1>1, <1>2, <1>3, <1>4 DEF SendingInv

\* What a transaction gives and gets is an amount or nothing.
LEMMA AmountsAreNat ==
  ASSUME NEW t \in Transaction, NEW kinds, NEW k
  PROVE  Gives(t, kinds, k) \in Nat /\ Gets(t, kinds, k) \in Nat
  BY DEF Gives, Gets, Transaction

\* The chain executes a transaction whose payer can pay for it.
LEMMA ExecuteStep ==
  ASSUME SendingInv, NEW i \in Ids, Execute(i)
  PROVE  SendingInv'
  <1> DEFINE t == tx[i]
  <1>1. /\ t.state = "flying" /\ Executable(t)
        /\ tx' = [tx EXCEPT ![i].state = "done"]
        /\ UNCHANGED <<call, sent, returned>>
        /\ sol' = [k \in Keys |-> sol[k] - Gives(t, {"SOL", "account"}, k)
                                         + Gets(t, {"SOL", "airdrop"}, k)]
        /\ tokens' = [k \in Keys |-> tokens[k] - Gives(t, {"tokens"}, k)
                                               + Gets(t, {"tokens"}, k)]
        /\ accounts' = IF t.kind = "account" THEN accounts \cup {t.to} ELSE accounts
    BY DEF Execute
  <1>2. tx' \in [Ids -> Transaction] /\ PayersAreFair' /\ ReturnedWasExecuted'
    BY <1>1 DEF SendingInv, Transaction, PayersAreFair, PaidFairly, ReturnedWasExecuted
  <1>3. t \in Transaction /\ PaidFairly(t)
    BY DEF SendingInv, PayersAreFair
  <1> HIDE DEF t
  <1>4. accounts' \subseteq Keys
    BY <1>1, <1>3 DEF SendingInv, PaidFairly
  <1>5. sol' \in [Keys -> Nat] /\ tokens' \in [Keys -> Nat]
    <2> SUFFICES ASSUME NEW k \in Keys PROVE sol'[k] \in Nat /\ tokens'[k] \in Nat
      BY <1>1
    <2>1. sol[k] \in Nat /\ tokens[k] \in Nat
      BY DEF SendingInv
    <2>2. Gives(t, {"SOL", "account"}, k) <= sol[k] /\ Gives(t, {"tokens"}, k) <= tokens[k]
      BY <1>1, <2>1 DEF Executable, Gives
    <2>3. /\ Gives(t, {"SOL", "account"}, k) \in Nat /\ Gets(t, {"SOL", "airdrop"}, k) \in Nat
          /\ Gives(t, {"tokens"}, k) \in Nat /\ Gets(t, {"tokens"}, k) \in Nat
      BY <1>3, AmountsAreNat
    <2> QED
      BY <1>1, <2>1, <2>2, <2>3
  <1> QED
    BY <1>1, <1>2, <1>4, <1>5 DEF SendingInv, CallsAreSound

\* The record of a call that goes on to the recipient's account.
LEMMA RecipientIsRecord ==
  ASSUME NEW c \in CallRecord, NEW payer \in Keys \cup {NoKey}
  PROVE  [c EXCEPT !.pc = "recipient", !.payer = payer, !.id = 0] \in CallRecord
  <1>1. 0 \in 0..MaxTx
    BY HotWalletAssumption
  <1>2. ASSUME NEW id \in 0..MaxTx,
               NEW pc \in {"idle", "source", "recipient", "balance", "sending"}
        PROVE  [c EXCEPT !.pc = pc, !.payer = payer, !.id = id] \in CallRecord
    BY <1>2 DEF CallRecord
  <1> QED
    BY <1>1, <1>2, Zenon

\* No step of any process or of the chain breaks it.
LEMMA SendingStep ==
  ASSUME SendingInv, FileTypeOK, [Next]_vars
  PROVE  SendingInv'
  <1> USE HotWalletAssumption
  <1>1. CASE UNCHANGED <<call, chain, returned>>
    BY <1>1 DEF chain, balances, SendingInv, CallsAreSound, PayersAreFair, PaidFairly,
                ReturnedWasExecuted
  <1>2. Idle \in CallRecord /\ Idle.pc = "idle"
    BY DEF Idle, CallRecord
  <1>3. ASSUME NEW w \in Wallets, Storing(w) PROVE SendingInv'
    <2>1. CASE Restart(w)
      BY <1>2, <2>1, CallStep DEF Restart
    <2> QED
      BY <1>1, <1>3, <2>1 DEF Storing, GenerateWallet, ImportFromSecretKey, ExportSecretKey,
                              SaveOpen, LoadWallet, SaveWrite
  <1>4. ASSUME NEW w \in Wallets, Sending(w) PROVE SendingInv'
    <2>1. /\ keypair[w] \in Keys \cup {NoKey} /\ call[w] \in CallRecord
          /\ call[w].from \in Keys \cup {NoKey} /\ call[w].to \in Keys \cup {NoKey}
          /\ call[w].payer \in Keys \cup {NoKey} /\ call[w].amount \in Nat
      BY DEF FileTypeOK, SendingInv, CallRecord
    <2>2. /\ call[w].pc \in {"source", "balance"} => call[w].from \in Keys
          /\ call[w].pc \in {"source", "recipient"} => call[w].to \in Keys
      BY DEF SendingInv, CallsAreSound
    <2>3. ASSUME NEW to \in Keys, NEW amount \in Amounts, SendSOL(w, to, amount)
          PROVE  SendingInv'
      BY <2>1, <2>3, SubmitStep DEF SendSOL, CanCall
    <2>4. ASSUME NEW amount \in Amounts, RequestAirdrop(w, amount) PROVE SendingInv'
      <3>1. Submit(w, "sending", "airdrop", NoKey, keypair[w], NoKey, amount)
        BY <2>4 DEF RequestAirdrop
      <3> QED
        BY <2>1, <3>1, SubmitStep
    <2>5. ASSUME NEW pc \in {"source", "balance"}, NEW to \in Keys \cup {NoKey},
                 NEW amount \in Nat, LookUp(w, pc, to, amount), pc = "source" => to \in Keys
          PROVE  SendingInv'
      <3> DEFINE c == [pc |-> pc, from |-> keypair[w], to |-> to, payer |-> keypair[w],
                       amount |-> amount, id |-> 0]
      <3>1. c \in CallRecord
        BY <2>1 DEF CallRecord
      <3>2. c.pc = pc /\ c.from \in Keys /\ c.to = to
        BY <2>1, <2>5 DEF LookUp, CanCall
      <3>3. call' = [call EXCEPT ![w] = c] /\ UNCHANGED <<chain, returned>>
        BY <2>5 DEF LookUp
      <3> HIDE DEF c
      <3> QED
        BY <2>5, <3>1, <3>2, <3>3, CallStep
    <2>6. ASSUME NEW to \in Keys, NEW amount \in Amounts, SendTokens(w, to, amount)
          PROVE  SendingInv'
      BY <2>5, <2>6 DEF SendTokens
    <2>7. CASE GetTokenBalance(w)
      BY <2>5, <2>7 DEF GetTokenBalance
    <2>8. CASE CreateAccount(w)
      <3>1. /\ Owner(w) \in Keys /\ call[w].pc \in {"source", "recipient", "balance"}
            /\ Submit(w, call[w].pc, "account", call[w].payer, Owner(w), call[w].payer, RENT)
        BY <2>2, <2>8 DEF CreateAccount, Owner
      <3> DEFINE pc == call[w].pc
                 payer == call[w].payer
                 owner == Owner(w)
      <3>2. /\ payer \in Keys \cup {NoKey} /\ owner \in Keys /\ RENT \in Nat
            /\ pc \in {"source", "recipient", "balance", "sending"}
            /\ Submit(w, pc, "account", payer, owner, payer, RENT) /\ pc = call[w].pc
        BY <2>1, <3>1
      <3> HIDE DEF pc, payer, owner
      <3> QED
        BY <3>2, SubmitStep
    <2>9. CASE SendTokensTo(w)
      <3>0. PICK old \in CallRecord : old = call[w]
        BY <2>1
      <3>00. PICK payer \in Keys \cup {NoKey} : payer = keypair[w]
        BY <2>1
      <3> DEFINE c == [old EXCEPT !.pc = "recipient", !.payer = payer, !.id = 0]
      <3>1. c \in CallRecord /\ c.pc = "recipient" /\ c.to \in Keys
        <4>1. old.to \in Keys
          BY <2>2, <2>9, <3>0 DEF SendTokensTo
        <4>2. [old EXCEPT !.pc = "recipient", !.payer = payer, !.id = 0] \in CallRecord
          BY <3>00, RecipientIsRecord
        <4>3. /\ [old EXCEPT !.pc = "recipient", !.payer = payer, !.id = 0].pc = "recipient"
              /\ [old EXCEPT !.pc = "recipient", !.payer = payer, !.id = 0].to = old.to
          BY DEF CallRecord
        <4> QED
          BY <4>1, <4>2, <4>3, Zenon
      <3>2. call' = [call EXCEPT ![w] = c] /\ UNCHANGED <<chain, returned>>
        BY <2>9, <3>0, <3>00 DEF SendTokensTo, SendingInv
      <3> HIDE DEF c
      <3> QED
        BY <3>1, <3>2, CallStep
    <2>10. CASE TransferTokens(w)
      <3>1. /\ call[w].pc = "recipient"
            /\ Submit(w, "sending", "tokens", call[w].from, call[w].to, keypair[w],
                      call[w].amount)
        BY <2>10 DEF TransferTokens, Source
      <3> QED
        BY <2>1, <3>1, SubmitStep
    <2>11. CASE Return(w)
      BY <1>2, <2>11, CallStep DEF Return
    <2>12. CASE Throw(w)
      BY <1>2, <2>12, CallStep DEF Throw
    <2> QED
      BY <1>4, <2>3, <2>4, <2>6, <2>7, <2>8, <2>9, <2>10, <2>11, <2>12 DEF Sending
  <1>5. ASSUME NEW i \in Ids, Fail(i) PROVE SendingInv'
    BY <1>5 DEF Fail, balances, SendingInv, Transaction, CallsAreSound, PayersAreFair,
                PaidFairly, ReturnedWasExecuted
  <1>6. CASE UNCHANGED vars
    BY <1>1, <1>6 DEF vars
  <1> QED
    BY <1>3, <1>4, <1>5, <1>6, ExecuteStep DEF Next

----------------------------------------------------------------------------
(* Theorems                                                                *)

\* The inductive invariant holds in every reachable state.
THEOREM Invariance == Spec => []IInv
  <1> USE HotWalletAssumption
  <1>1. Init => IInv
    <2> SUFFICES ASSUME Init PROVE IInv
      OBVIOUS
    <2>1. FileInv
      BY FileInvInit DEF Init
    <2>2. SavedAsItIsRead
      BY DEF Init, FileInit, File, SavedAsItIsRead
    <2>3. Idle \in CallRecord /\ Unsent \in Transaction
      BY DEF Idle, Unsent, CallRecord, Transaction
    <2>4. SendingInv
      BY <2>3 DEF Init, SendingInv, CallsAreSound, PayersAreFair, PaidFairly,
                  ReturnedWasExecuted, Idle, Unsent
    <2> QED
      BY <2>1, <2>2, <2>4, IInvIs
  <1>2. IInv /\ [Next]_vars => IInv'
    <2> SUFFICES ASSUME IInv, [Next]_vars PROVE IInv'
      OBVIOUS
    <2>1. FileInv /\ SavedAsItIsRead /\ SendingInv /\ FileTypeOK
      BY IInvIs DEF FileInv
    <2>2. FileInv' /\ SendingInv'
      BY <2>1, StepIsFileStep, FileInvStep, SendingStep
    <2>3. SavedAsItIsRead'
      <3>1. ASSUME NEW w \in Wallets, NEW password \in Passwords, SaveOpen(w, password)
            PROVE  SavedAsItIsRead'
        BY <3>1 DEF SaveOpen, OpenForWriting, NewContent, SavedAsItIsRead
      <3>2. CASE last' = last
        BY <2>1, <3>2 DEF SavedAsItIsRead
      <3> QED
        BY <3>1, <3>2 DEF Next, Storing, Sending, GenerateWallet, ImportFromSecretKey,
             ExportSecretKey, LoadWallet, SaveWrite, Restart, NewKeypair, TakeSecret,
             TakeKeypair, RevealSecret, ReadIn, WriteOut, EndProcess, SendSOL, RequestAirdrop,
             SendTokens, GetTokenBalance, LookUp, CreateAccount, SendTokensTo, TransferTokens,
             Submit, Return, Throw, Execute, Fail, vars, fileVars, disk
    <2> QED
      BY <2>2, <2>3 DEF IInv, TypeOK, FileInv, SendingInv
  <1> QED
    BY <1>1, <1>2, PTL DEF Spec

\* Every variable always holds values of its type: what is saved is a wallet.
THEOREM TypeCorrect == Spec => []TypeOK
  <1>1. IInv => TypeOK
    BY DEF IInv
  <1> QED
    BY <1>1, Invariance, PTL

\* What saveWallet wrote last can be loaded again, unless that save was cut off
\* by a crash or met that of another process.
THEOREM SavesAreReadBack == Spec => []LatestSaveIsReadBack
  <1>1. IInv => LatestSaveIsReadBack
    <2> SUFFICES ASSUME IInv, Undisturbed
                 PROVE  Decrypts(last.password, "sha256") /\ file.content.key = last.key
      BY DEF LatestSaveIsReadBack
    <2>1. file = File("whole", last) /\ last.kdf = "sha256"
      BY DEF IInv, FileInv, UndisturbedIsWhole, Undisturbed, SavedAsItIsRead
    <2>2. file.state = "whole" /\ file.content = last
      BY <2>1 DEF File
    <2> QED
      BY <2>1, <2>2 DEF Decrypts
  <1> QED
    BY <1>1, Invariance, PTL

\* A send returns the signature of a transaction that was executed, however
\* late and whatever was called again, and never has it undone.
THEOREM ReturnedIsExecuted == Spec => []ReturnedWasExecuted
  <1>1. IInv => ReturnedWasExecuted
    BY DEF IInv
  <1> QED
    BY <1>1, Invariance, PTL

\* Whatever becomes of the keypair between the awaits of a method, what is sent
\* comes from the wallet it was called on, and another one pays no more than the
\* rent of a token account it has signed for.
THEOREM OnlyCallersPay == Spec => OnlyTheCallerPays
  <1> USE HotWalletAssumption
  <1> DEFINE PaysSol(k, i) ==
               /\ Executed(i)
               /\ \/ tx[i].caller = k
                  \/ tx[i].kind = "account" /\ tx[i].signer = k /\ sol[k] - sol'[k] = RENT
             Honest ==
               \A k \in Keys :
                 /\ sol'[k] < sol[k] =>
                      \E i \in Ids : /\ Executed(i)
                                     /\ \/ tx[i].caller = k
                                        \/ /\ tx[i].kind = "account" /\ tx[i].signer = k
                                           /\ sol[k] - sol'[k] = RENT
                 /\ tokens'[k] < tokens[k] => \E i \in Ids : Executed(i) /\ tx[i].caller = k
  <1>1. ASSUME IInv, NEW i \in Ids, Execute(i), NEW k \in Keys
        PROVE  /\ sol'[k] < sol[k] => PaysSol(k, i)
               /\ tokens'[k] < tokens[k] => Executed(i) /\ tx[i].caller = k
    <2>1. Executed(i)
      BY <1>1 DEF Execute, Executed, IInv, TypeOK
    <2> DEFINE t == tx[i]
    <2>2. /\ sol'[k] = sol[k] - Gives(t, {"SOL", "account"}, k)
                               + Gets(t, {"SOL", "airdrop"}, k)
          /\ tokens'[k] = tokens[k] - Gives(t, {"tokens"}, k) + Gets(t, {"tokens"}, k)
          /\ sol[k] \in Nat /\ tokens[k] \in Nat
      BY <1>1 DEF Execute, IInv, TypeOK
    <2>3. t \in Transaction /\ PaidFairly(t)
      BY <1>1 DEF IInv, TypeOK, PayersAreFair
    <2> SUFFICES /\ sol'[k] < sol[k] =>
                      \/ t.caller = k
                      \/ t.kind = "account" /\ t.signer = k /\ sol[k] - sol'[k] = RENT
                 /\ tokens'[k] < tokens[k] => t.caller = k
      BY <2>1
    <2> HIDE DEF t
    <2>4. /\ Gives(t, {"SOL", "account"}, k) \in Nat /\ Gets(t, {"SOL", "airdrop"}, k) \in Nat
          /\ Gives(t, {"tokens"}, k) \in Nat /\ Gets(t, {"tokens"}, k) \in Nat
      BY <2>3, AmountsAreNat
    <2>5. ASSUME sol'[k] < sol[k]
          PROVE  \/ t.caller = k
                 \/ t.kind = "account" /\ t.signer = k /\ sol[k] - sol'[k] = RENT
      <3>1. Gives(t, {"SOL", "account"}, k) # 0
        BY <2>2, <2>4, <2>5
      <3>2. t.kind \in {"SOL", "account"} /\ t.from = k
        BY <3>1 DEF Gives
      <3>3. CASE t.kind = "SOL"
        BY <2>3, <3>2, <3>3 DEF PaidFairly
      <3>4. CASE t.kind = "account"
        <4>1. t.signer = k /\ t.amount = RENT
          BY <2>3, <3>2, <3>4 DEF PaidFairly
        <4>2. Gives(t, {"SOL", "account"}, k) = RENT /\ Gets(t, {"SOL", "airdrop"}, k) = 0
          BY <3>2, <3>4, <4>1 DEF Gives, Gets
        <4> QED
          BY <2>2, <3>4, <4>1, <4>2
      <3> QED
        BY <3>2, <3>3, <3>4
    <2>6. ASSUME tokens'[k] < tokens[k] PROVE t.caller = k
      <3>1. Gives(t, {"tokens"}, k) # 0
        BY <2>2, <2>4, <2>6
      <3> QED
        BY <2>3, <3>1 DEF Gives, PaidFairly
    <2> QED
      BY <2>5, <2>6
  <1>2. IInv /\ [Next]_vars => [Honest]_vars
    <2> SUFFICES ASSUME IInv, [Next]_vars PROVE Honest
      OBVIOUS
    <2>1. CASE UNCHANGED <<sol, tokens>>
      <3>1. \A k \in Keys : ~(sol'[k] < sol[k]) /\ ~(tokens'[k] < tokens[k])
        BY <2>1 DEF IInv, TypeOK
      <3> QED
        BY <3>1
    <2>2. ASSUME NEW i \in Ids, Execute(i) PROVE Honest
      BY <1>1, <2>2
    <2>3. (\E i \in Ids : Execute(i)) \/ UNCHANGED <<sol, tokens>>
      BY DEF Next, Storing, Sending, GenerateWallet, ImportFromSecretKey,
         ExportSecretKey, SaveOpen, LoadWallet, SaveWrite, Restart, SendSOL, RequestAirdrop,
         SendTokens, GetTokenBalance, LookUp, CreateAccount, SendTokensTo, TransferTokens,
         Submit, Return, Throw, Fail, vars, chain, balances
    <2> QED
      BY <2>1, <2>2, <2>3
  <1> QED
    BY <1>2, Invariance, PTL DEF Spec, OnlyTheCallerPays
=============================================================================
