----------------------------- MODULE HotWallet ------------------------------
(***************************************************************************)
(* The hot wallet, app/wallet/hot-wallet.js: HotWallet objects, the wallet *)
(* file they share (WalletFile), and the transactions they send.           *)
(*                                                                         *)
(* Each await of the methods that send is a step boundary at which the     *)
(* object's keypair may change.                                            *)
(*                                                                         *)
(* A token account costs whoever creates it its rent.  Transaction fees    *)
(* are not modelled, and what is sent goes to one of the wallets.          *)
(***************************************************************************)
EXTENDS Integers, WalletFile

CONSTANTS
  Network,       \* the constructor's argument
  RENT,          \* lamports that a token account costs
  InitialSol,    \* what each address holds beforehand
  InitialTokens, \* what the token accounts that exist beforehand hold
  Amounts,       \* arguments of the sends and of requestAirdrop
  MaxTx          \* bound: transactions that are sent altogether

ASSUME HotWalletAssumption ==
  /\ RENT \in Nat /\ InitialSol \in Nat /\ InitialTokens \in Nat /\ MaxTx \in Nat
  /\ Amounts \subseteq Nat \ {0}
  /\ Network \in {"devnet", "testnet", "mainnet-beta"}

VARIABLES
  call,       \* call[w]: w's call of an async method
  tx,         \* tx[i]: the i-th transaction that was sent
  sent,       \* how many were sent
  sol,        \* sol[k]: lamports at k's address
  accounts,   \* keys that have a token account
  tokens,     \* tokens[k]: what k's token account holds
  returned    \* history: transactions whose method returned their signature

balances == <<sol, accounts, tokens>>
chain == <<tx, sent, balances>>
vars == <<fileVars, call, chain, returned>>

Ids == 1..MaxTx

\* from: the wallet the method was called on; payer: the one it creates a token
\* account with; id: the transaction it waits for.
CallRecord == [pc : {"idle", "source", "recipient", "balance", "sending"},
               from : Keys \cup {NoKey}, to : Keys \cup {NoKey}, payer : Keys \cup {NoKey},
               amount : Nat, id : 0..MaxTx]

\* from: whose lamports or tokens it takes; to: who gets them, or an account.
Transaction == [state : {"unsent", "flying", "done", "failed", "lost"},
                kind : {"SOL", "tokens", "airdrop", "account"},
                from : Keys \cup {NoKey}, to : Keys \cup {NoKey}, signer : Keys \cup {NoKey},
                amount : Nat, caller : Keys \cup {NoKey}]

Idle == [pc |-> "idle", from |-> NoKey, to |-> NoKey, payer |-> NoKey, amount |-> 0, id |-> 0]
Unsent == [state |-> "unsent", kind |-> "SOL", from |-> NoKey, to |-> NoKey, signer |-> NoKey,
           amount |-> 0, caller |-> NoKey]

----------------------------------------------------------------------------
(* Keys and the wallet file                                                *)

\* The file says nothing of the way its key was derived: it is always the same.
NewContent(w, password) ==
  [key |-> keypair[w], password |-> password, kdf |-> "sha256", version |-> 0]

GenerateWallet(w, k) == NewKeypair(w, k) /\ UNCHANGED <<call, chain, returned>>
ExportSecretKey(w) == RevealSecret(w) /\ UNCHANGED <<call, chain, returned>>
ImportFromSecretKey(w, k) == TakeSecret(w, k) /\ UNCHANGED <<call, chain, returned>>

SaveOpen(w, password) ==
  OpenForWriting(w, NewContent(w, password)) /\ UNCHANGED <<call, chain, returned>>

SaveWrite(w) == WriteOut(w) /\ UNCHANGED <<call, chain, returned>>

LoadWallet(w, password) ==
  ReadIn(w, password, "sha256") /\ UNCHANGED <<call, chain, returned>>

Restart(w) ==
  /\ EndProcess(w)
  /\ call' = [call EXCEPT ![w] = Idle]
  /\ UNCHANGED <<chain, returned>>

----------------------------------------------------------------------------
(* Sending                                                                 *)

CanCall(w) == Running(w) /\ keypair[w] # NoKey /\ call[w].pc = "idle"

\* Hands a transaction to the node.  The call goes on at pc; the wallet it was
\* made on is the transaction's caller.
Submit(w, pc, kind, from, to, signer, amount) ==
  /\ sent < MaxTx
  /\ sent' = sent + 1
  /\ tx' = [tx EXCEPT ![sent + 1] =
              [state |-> "flying", kind |-> kind, from |-> from, to |-> to, signer |-> signer,
               amount |-> amount,
               caller |-> IF call[w].pc = "idle" THEN keypair[w] ELSE call[w].from]]
  /\ call' = [call EXCEPT ![w].pc = pc, ![w].id = sent + 1]
  /\ UNCHANGED <<fileVars, balances, returned>>

SendSOL(w, to, amount) ==
  CanCall(w) /\ Submit(w, "sending", "SOL", keypair[w], to, keypair[w], amount)

RequestAirdrop(w, amount) ==
  /\ Network = "devnet"
  /\ CanCall(w) /\ Submit(w, "sending", "airdrop", NoKey, keypair[w], NoKey, amount)

\* The two methods below begin by looking up the caller's token account.
LookUp(w, pc, to, amount) ==
  /\ CanCall(w)
  /\ call' = [call EXCEPT ![w] = [pc |-> pc, from |-> keypair[w], to |-> to,
                                  payer |-> keypair[w], amount |-> amount, id |-> 0]]
  /\ UNCHANGED <<fileVars, chain, returned>>

GetTokenBalance(w) == LookUp(w, "balance", NoKey, 0)

\* sendTokens: the sender's token account, then the recipient's, then the
\* transfer; each is paid for by this.keypair when that step begins.
SendTokens(w, to, amount) == LookUp(w, "source", to, amount)

\* Whose token account is being looked up.
Owner(w) == IF call[w].pc = "recipient" THEN call[w].to ELSE call[w].from

\* getOrCreateAssociatedTokenAccount creates the account when it is missing. It
\* ignores how that ended, and looks the account up again.
CreateAccount(w) ==
  /\ Running(w) /\ call[w].pc \in {"source", "recipient", "balance"}
  /\ call[w].id = 0 /\ Owner(w) \notin accounts
  /\ Submit(w, call[w].pc, "account", call[w].payer, Owner(w), call[w].payer, RENT)

SendTokensTo(w) ==
  /\ Running(w) /\ call[w].pc = "source" /\ Owner(w) \in accounts
  /\ call' = [call EXCEPT ![w].pc = "recipient", ![w].payer = keypair[w], ![w].id = 0]
  /\ UNCHANGED <<fileVars, chain, returned>>

\* Mutant: the source account is looked up again for the transfer.
SourceNow(w) == keypair[w]

\* The owner of the source account that sendTokens looked up first.
Source(w) == call[w].from

TransferTokens(w) ==
  /\ Running(w) /\ call[w].pc = "recipient" /\ Owner(w) \in accounts
  /\ Submit(w, "sending", "tokens", Source(w), call[w].to, keypair[w], call[w].amount)

\* Mutant: a send is confirmed like an airdrop, whatever became of it.
ConfirmedAnyhow(i) == tx[i].state \in {"done", "failed"}

\* requestAirdrop does not look at the confirmation's result; the sends throw
\* when the transaction failed.
Confirmed(i) ==
  tx[i].state \in {"done"} \cup IF tx[i].kind = "airdrop" THEN {"failed"} ELSE {}

Return(w) ==
  /\ Running(w) /\ call[w].pc = "sending" /\ Confirmed(call[w].id)
  /\ returned' = returned \cup {call[w].id}
  /\ call' = [call EXCEPT ![w] = Idle]
  /\ UNCHANGED <<fileVars, chain>>

\* A request fails, a token account is still missing, the confirmation takes
\* too long, or the transaction failed; a transaction that is on its way is not
\* stopped.  getTokenBalance ends no differently, whatever it returns.
Throw(w) ==
  /\ Running(w) /\ call[w].pc # "idle"
  /\ call' = [call EXCEPT ![w] = Idle]
  /\ UNCHANGED <<fileVars, chain, returned>>

----------------------------------------------------------------------------
(* The chain executes a transaction, rejects it, or never sees it.  Only   *)
(* the owner of a token account can move what it holds.                    *)

Executable(t) ==
  \/ t.kind = "airdrop"
  \/ t.kind = "SOL" /\ sol[t.from] >= t.amount
  \/ t.kind = "account" /\ sol[t.from] >= t.amount /\ t.to \notin accounts
  \/ t.kind = "tokens" /\ t.signer = t.from /\ tokens[t.from] >= t.amount

Gives(t, kinds, k) == IF t.kind \in kinds /\ t.from = k THEN t.amount ELSE 0
Gets(t, kinds, k) == IF t.kind \in kinds /\ t.to = k THEN t.amount ELSE 0

Execute(i) ==
  LET t == tx[i]
  IN  /\ t.state = "flying" /\ Executable(t)
      /\ sol' = [k \in Keys |-> sol[k] - Gives(t, {"SOL", "account"}, k)
                                       + Gets(t, {"SOL", "airdrop"}, k)]
      /\ tokens' = [k \in Keys |-> tokens[k] - Gives(t, {"tokens"}, k)
                                             + Gets(t, {"tokens"}, k)]
      /\ accounts' = IF t.kind = "account" THEN accounts \cup {t.to} ELSE accounts
      /\ tx' = [tx EXCEPT ![i].state = "done"]
      /\ UNCHANGED <<fileVars, call, sent, returned>>

Fail(i) ==
  /\ tx[i].state = "flying"
  /\ \E outcome \in {"failed", "lost"} : tx' = [tx EXCEPT ![i].state = outcome]
  /\ UNCHANGED <<fileVars, call, sent, balances, returned>>

----------------------------------------------------------------------------
Init ==
  /\ FileInit(File("missing", NoContent))
  /\ call = [w \in Wallets |-> Idle]
  /\ tx = [i \in Ids |-> Unsent]
  /\ sent = 0
  /\ sol = [k \in Keys |-> InitialSol]
  /\ accounts \in SUBSET Keys
  /\ tokens = [k \in Keys |-> IF k \in accounts THEN InitialTokens ELSE 0]
  /\ returned = {}

Storing(w) ==
  \/ \E k \in Keys : GenerateWallet(w, k) \/ ImportFromSecretKey(w, k)
  \/ ExportSecretKey(w)
  \/ \E password \in Passwords : SaveOpen(w, password) \/ LoadWallet(w, password)
  \/ SaveWrite(w)
  \/ Restart(w)

Sending(w) ==
  \/ \E amount \in Amounts :
       \/ \E to \in Keys : SendSOL(w, to, amount) \/ SendTokens(w, to, amount)
       \/ RequestAirdrop(w, amount)
  \/ GetTokenBalance(w)
  \/ CreateAccount(w) \/ SendTokensTo(w) \/ TransferTokens(w) \/ Return(w) \/ Throw(w)

Next ==
  \/ \E w \in Wallets : Storing(w) \/ Sending(w)
  \/ \E i \in Ids : Execute(i) \/ Fail(i)

Spec == Init /\ [][Next]_vars

----------------------------------------------------------------------------
(* Properties                                                              *)

\* Every variable holds values of its type: what is saved is a wallet.
TypeOK ==
  /\ FileTypeOK
  /\ call \in [Wallets -> CallRecord]
  /\ tx \in [Ids -> Transaction]
  /\ sent \in 0..MaxTx /\ returned \subseteq 1..sent
  /\ sol \in [Keys -> Nat] /\ tokens \in [Keys -> Nat] /\ accounts \subseteq Keys

Executed(i) == tx[i].state = "flying" /\ tx'[i].state = "done"

\* Whichever keypairs are generated, imported or loaded between the awaits of a
\* method, what is sent comes from the wallet the method was called on. The
\* only thing another wallet may pay is the rent of a token account, once, in a
\* transaction that it has signed itself, as the one loaded by then.
OnlyTheCallerPays ==
  [][\A k \in Keys :
       /\ sol'[k] < sol[k] =>
            \E i \in Ids : /\ Executed(i)
                           /\ \/ tx[i].caller = k
                              \/ /\ tx[i].kind = "account" /\ tx[i].signer = k
                                 /\ sol[k] - sol'[k] = RENT
       /\ tokens'[k] < tokens[k] => \E i \in Ids : Executed(i) /\ tx[i].caller = k]_vars

\* A send whose method returned a signature has been executed, whatever threw,
\* was called again, restarted or got lost around it.
ReturnedWasExecuted ==
  \A i \in returned : tx[i].kind # "airdrop" => tx[i].state = "done"

\* Unless the latest save was cut off or met another one, it can be loaded
\* again, with its password, and gives the key it saved, whatever crashes and
\* overlapping saves came before.
LatestSaveIsReadBack ==
  Undisturbed => Decrypts(last.password, "sha256") /\ file.content.key = last.key

----------------------------------------------------------------------------
(* What makes the invariants above inductive                               *)

\* The signature a method waits for is that of a transaction it has sent, and
\* the token accounts it looks up have owners.
CallsAreSound ==
  \A w \in Wallets :
    /\ call[w].pc = "sending" => call[w].id \in 1..sent
    /\ call[w].pc \in {"source", "balance"} => call[w].from \in Keys
    /\ call[w].pc \in {"source", "recipient"} => call[w].to \in Keys

\* What is sent comes from the caller; an account is paid for by its signer.
PaidFairly(t) ==
  /\ t.kind = "account" => t.from = t.signer /\ t.amount = RENT /\ t.to \in Keys
  /\ t.kind \in {"SOL", "tokens"} => t.from = t.caller

\* Whatever was sent; an unsent one takes nothing from nobody.
PayersAreFair == \A i \in Ids : PaidFairly(tx[i])

SavedAsItIsRead == last # NoContent => last.kdf = "sha256"

IInv ==
  /\ TypeOK /\ FileInv /\ CallsAreSound /\ PayersAreFair /\ SavedAsItIsRead
  /\ ReturnedWasExecuted

=============================================================================
