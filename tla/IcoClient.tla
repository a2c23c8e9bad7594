----------------------------- MODULE IcoClient ------------------------------
(***************************************************************************)
(* The client library app/frontend/ico-client.js over the program NovaIco: *)
(* one NovaIcoClient object, the calls of its methods that are under way,  *)
(* and the transactions they have sent.                                    *)
(*                                                                         *)
(* A method runs without interruption from one await to the next; between  *)
(* them other calls run and `initialize` may give the client another       *)
(* wallet.  A transaction may be executed after the call that sent it has  *)
(* thrown, or never.                                                       *)
(*                                                                         *)
(* A step of the chain is a step of NovaIco; a step of the client leaves   *)
(* the chain alone.  What a token account costs is counted beside the      *)
(* lamports of NovaIco, which leave rent out.  The client has no method    *)
(* for withdraw_funds; airdrops and fees are not modelled.                 *)
(*                                                                         *)
(* `ready` is left open: the constructor of Program is called with a       *)
(* program id, an argument that later versions of the library no longer    *)
(* take, and may throw.  The client then only creates mints.               *)
(***************************************************************************)
EXTENDS NovaIco

CONSTANTS
  Calls,        \* method calls that may be under way at a time
  Supply,       \* what createTokenMint mints, 10^18
  MAX_SAFE,     \* the least number that new BN refuses, 2^53
  SolArgs,      \* lamports buyTokens is asked to spend
  RoundedDown,  \* those whose double solAmount * LAMPORTS_PER_SOL is too small
  Phases        \* arguments of setPhase

\* At any time finitely many calls are under way.
ASSUME CallsAssumption == IsFiniteSet(Calls)

ASSUME ClientAssumption ==
  /\ Supply \in TokenAmounts /\ Supply > 0 /\ MAX_SAFE \in Nat
  /\ RoundedDown \subseteq SolArgs /\ SolArgs \subseteq Nat
  /\ \A sol \in SolArgs : (IF sol \in RoundedDown THEN sol - 1 ELSE sol) \in SolAmounts
  /\ Phases \subseteq PhaseCodes /\ 0 \in Times

VARIABLES
  wallet,    \* this.wallet
  ready,     \* is this.program set?
  call,      \* call[c]: the call in slot c, or what it has left behind
  tx,        \* tx[c]: the transaction of call[c]
  returned,  \* history: mints that createTokenMint returned
  paid,      \* history: paid[u]: what buyTokens returned for, for u
  doubtful,  \* history: owners of purchases that were sent and whose call threw
  rent       \* rent[u]: token accounts that u has paid for

client == <<wallet, ready, call, tx>>
reports == <<returned, paid, doubtful>>
clientVars == <<vars, client, reports, rent>>

Idle == [pc |-> "idle", op |-> "none", owner |-> NoKey, signer |-> NoKey,
         mint |-> NoKey, treasury |-> NoKey, amount |-> 0]

\* `owner` is the wallet the accounts of the transaction were derived from,
\* `signer` the one that signs it.
Call ==
  [pc : {"idle", "creating", "holder", "derived", "sent"},
   op : {"create", "account", "supply", "init", "buy", "phase"},
   owner : Users, signer : Users,
   mint : Mints \cup {NoKey}, treasury : Users \cup {NoKey}, amount : Nat]

\* A slot can be used again when the transaction of its last call is no longer
\* on its way.
Free(c) == call[c] = Idle

\* Mutant: it is not checked that the program is there.
UsableAlways == TRUE

\* Otherwise the methods throw "Program not initialized".
Usable == ready

----------------------------------------------------------------------------
(* initialize takes the wallet first; the program stays as it was, or      *)
(* unset, when the IDL is missing or cannot be read.                       *)

UseWallet(u) ==
  /\ wallet' = u
  /\ ready' \in {ready, TRUE}
  /\ UNCHANGED <<vars, call, tx, reports, rent>>

Begin(c, pc, op, m, treasury, amount) ==
  call' = [call EXCEPT ![c] =
             [pc |-> pc, op |-> op, owner |-> wallet, signer |-> wallet,
              mint |-> m, treasury |-> treasury, amount |-> amount]]

Send(c) == tx' = [tx EXCEPT ![c] = "flying"]

----------------------------------------------------------------------------
(* createTokenMint: three transactions, and this.wallet is read again for  *)
(* each.  The address of the mint is new and known to nobody else.         *)

CreateTokenMint(c, m) ==
  /\ Free(c) /\ wallet # NoKey
  /\ ~mint[m].exists /\ \A d \in Calls : call[d].mint # m
  /\ Begin(c, "creating", "create", m, NoKey, 0) /\ Send(c)
  /\ UNCHANGED <<vars, wallet, ready, reports, rent>>

\* Mutant: the client does not wait for the confirmation.
ConfirmedEarly(c) == TRUE

\* Mutant: that a transaction has expired counts as its confirmation.
ConfirmedOrLost(c) == tx[c] \in {"done", "lost"}

Confirmed(c) == tx[c] = "done"

\* The token account that will get the supply is the current wallet's. It is
\* missing, the mint being new, and that wallet pays for it.
FindHolder(c) ==
  /\ call[c].pc = "creating" /\ Confirmed(c)
  /\ call' = [call EXCEPT ![c].pc = "holder", ![c].op = "account", ![c].owner = wallet,
                          ![c].signer = wallet]
  /\ Send(c)
  /\ UNCHANGED <<vars, wallet, ready, reports, rent>>

\* Goes on when the token account is there, however its creation ended.
MintSupply(c) ==
  /\ call[c].pc = "holder" /\ Confirmed(c)
  /\ call' = [call EXCEPT ![c].pc = "sent", ![c].op = "supply", ![c].signer = wallet,
                          ![c].amount = Supply]
  /\ Send(c)
  /\ UNCHANGED <<vars, wallet, ready, reports, rent>>

----------------------------------------------------------------------------
(* initializeIco and buyTokens derive the addresses from the wallet, await *)
(* that of the token account, and then name and sign with the wallet there *)
(* is by then.  setPhase sends at once.                                    *)

\* new BN throws for a number that is not safe; nothing has been sent by then.
InitializeIcoCall(c, m, treasury, n) ==
  /\ Free(c) /\ Usable /\ mint[m].exists
  /\ n < MAX_SAFE
  /\ Begin(c, "derived", "init", m, treasury, n)
  /\ UNCHANGED <<vars, wallet, ready, tx, reports, rent>>

\* new BN drops the fraction of the double.
Lamports(sol) == IF sol \in RoundedDown THEN sol - 1 ELSE sol

BuyTokensCall(c, m, treasury, sol) ==
  /\ Free(c) /\ Usable /\ mint[m].exists
  /\ Begin(c, "derived", "buy", m, treasury, Lamports(sol))
  /\ UNCHANGED <<vars, wallet, ready, tx, reports, rent>>

SendDerived(c) ==
  /\ call[c].pc = "derived"
  /\ call' = [call EXCEPT ![c].pc = "sent", ![c].signer = wallet]
  /\ Send(c)
  /\ UNCHANGED <<vars, wallet, ready, reports, rent>>

SetPhaseCall(c, code) ==
  /\ Free(c) /\ Usable
  /\ Begin(c, "sent", "phase", NoKey, NoKey, code) /\ Send(c)
  /\ UNCHANGED <<vars, wallet, ready, reports, rent>>

----------------------------------------------------------------------------
(* The end of a call that sent a transaction                               *)

\* A transaction that is on its way is not stopped when its call ends.
Leave(c) ==
  /\ call' = [call EXCEPT ![c] = IF tx[c] = "flying" THEN [@ EXCEPT !.pc = "idle"] ELSE Idle]
  /\ tx' = [tx EXCEPT ![c] = IF @ = "flying" THEN @ ELSE "none"]

Return(c) ==
  LET k == call[c]
  IN  /\ k.pc = "sent" /\ Confirmed(c)
      /\ returned' = IF k.op = "supply" THEN returned \cup {k.mint} ELSE returned
      /\ paid' = IF k.op = "buy" THEN [paid EXCEPT ![k.signer] = @ + k.amount] ELSE paid
      /\ Leave(c)
      /\ UNCHANGED <<vars, wallet, ready, doubtful, rent>>

\* A request fails, the transaction is not confirmed in time or was rejected.
Throw(c) ==
  LET k == call[c]
  IN  /\ k.pc # "idle"
      /\ doubtful' = IF k.pc = "sent" /\ k.op = "buy" THEN doubtful \cup {k.signer} ELSE doubtful
      /\ Leave(c)
      /\ UNCHANGED <<vars, wallet, ready, returned, paid, rent>>

----------------------------------------------------------------------------
(* The chain executes a transaction once, or never: it is rejected,        *)
(* dropped, or its blockhash expires.                                      *)

\* Mutant: the accounts are not checked against the signer.
DerivedFromSignerNot(k) == TRUE

\* The token account and the purchase record are those of the signer.
DerivedFromSigner(k) == k.owner = k.signer

Executed(k) ==
  \/ k.op = "create" /\ CreateMint(k.signer, k.mint, TOKEN_DECIMALS)
  \/ k.op = "account" /\ mint[k.mint].exists /\ UNCHANGED vars
  \/ k.op = "supply" /\ MintTo(k.signer, k.mint, k.owner, k.amount)
  \/ k.op = "init" /\ DerivedFromSigner(k)
       /\ InitializeIco(k.signer, k.mint, k.treasury, k.amount, 0, 0)
  \/ k.op = "buy" /\ DerivedFromSigner(k)
       /\ BuyTokens(k.signer, k.mint, k.treasury, k.amount)
  \/ k.op = "phase" /\ SetPhase(k.signer, k.amount)

\* What becomes of tx[c] and of a slot whose call has ended.
Settle(c, result) ==
  /\ tx' = [tx EXCEPT ![c] = IF call[c].pc = "idle" THEN "none" ELSE result]
  /\ call' = [call EXCEPT ![c] = IF @.pc = "idle" THEN Idle ELSE @]
  /\ UNCHANGED <<wallet, ready, reports>>

Land(c) ==
  /\ tx[c] = "flying" /\ Executed(call[c]) /\ Settle(c, "done")
  /\ rent' = IF call[c].op = "account" THEN [rent EXCEPT ![call[c].signer] = @ + 1] ELSE rent

Drop(c) == tx[c] = "flying" /\ Settle(c, "lost") /\ UNCHANGED <<vars, rent>>

----------------------------------------------------------------------------
ClientInit ==
  /\ Init
  /\ wallet = NoKey /\ ready = FALSE
  /\ call = [c \in Calls |-> Idle]
  /\ tx = [c \in Calls |-> "none"]
  /\ returned = {}
  /\ paid = [u \in Users |-> 0]
  /\ doubtful = {}
  /\ rent = [u \in Users |-> 0]

Caller(c) ==
  \/ \E m \in Mints :
       \/ CreateTokenMint(c, m)
       \/ \E t \in Users :
            \/ \E n \in TokenAmounts : InitializeIcoCall(c, m, t, n)
            \/ \E sol \in SolArgs : BuyTokensCall(c, m, t, sol)
  \/ \E code \in Phases : SetPhaseCall(c, code)

Method(c) ==
  FindHolder(c) \/ MintSupply(c) \/ SendDerived(c) \/ Return(c) \/ Throw(c)

ClientNext ==
  \/ \E u \in Users : UseWallet(u)
  \/ \E c \in Calls : Caller(c) \/ Method(c) \/ Land(c) \/ Drop(c)

ClientSpec == ClientInit /\ [][ClientNext]_clientVars

----------------------------------------------------------------------------
(* Properties                                                              *)

\* Every variable of the client holds values of its type: a call under way, and
\* what it leaves behind, has the wallets it was called and signed with.
ClientTypeOK ==
  /\ wallet \in Users \cup {NoKey} /\ ready \in BOOLEAN
  /\ call \in [Calls -> Call \cup {Idle}]
  /\ tx \in [Calls -> {"none", "flying", "done", "lost"}]
  /\ returned \subseteq Mints /\ doubtful \subseteq Users
  /\ paid \in [Users -> Nat] /\ rent \in [Users -> Nat]

Landed(c) == tx[c] = "flying" /\ tx'[c] # "flying"

\* Even when `initialize` gives the client another wallet between the awaits of a
\* method, SOL for tokens, and tokens, leave only the wallet the method was
\* called on, and a token account for the supply is paid for by the wallet that
\* will hold the supply in it. (Fees, and the rent of other accounts, are
\* outside the model.)
OnlyTheCallerSpends ==
  [][\A u \in Users :
       /\ \/ lamports'[u] < lamports[u]
          \/ \E m \in Mints : balance'[m][u] < balance[m][u]
          => \E c \in Calls :
               Landed(c) /\ call[c].op \in {"buy", "init"} /\ call[c].owner = u
       /\ rent'[u] > rent[u] =>
            \E c \in Calls : Landed(c) /\ call[c].op = "account" /\ call[c].owner = u]_clientVars

\* A mint that createTokenMint returned has its whole supply, minted once; any
\* other mint has the whole supply or none, whatever failed in between.
ReturnedMintIsSupplied ==
  \A m \in Mints :
    \/ mint[m].supply = Supply
    \/ mint[m].supply = 0 /\ m \notin returned

\* A buyer is never told of a purchase that the chain has not recorded,
\* whatever threw, landed late or was sent twice meanwhile.
PaidIsRecorded == \A u \in Users : paid[u] <= record[u].total_sol_spent

\* Nobody buys without knowing: as long as no purchase of u threw after it was
\* sent, and none is under way, exactly what buyTokens returned for is recorded.
RecordedIsPaid ==
  \A u \in Users \ doubtful :
    (\A c \in Calls : call[c].op = "buy" /\ call[c].signer = u => call[c].pc # "sent")
      => record[u].total_sol_spent = paid[u]

----------------------------------------------------------------------------
(* What makes the invariants above inductive                               *)

\* A call is at an await of its method, and what it would have the chain
\* execute is an instruction of NovaIco.
WellFormed(k) ==
  /\ k.pc = "creating" => k.op = "create"
  /\ k.pc = "holder" => k.op = "account"
  /\ k.op = "account" => k.owner = k.signer
  /\ k.pc = "derived" => k.op \in {"init", "buy"}
  /\ k.op # "phase" => k.mint \in Mints
  /\ k.op = "supply" => k.amount = Supply
  /\ k.op = "init" => k.treasury \in Users /\ k.amount \in TokenAmounts
  /\ k.op = "buy" => k.treasury \in Users /\ k.amount \in SolAmounts
  /\ k.op = "phase" => k.amount \in PhaseCodes

CallsAreWellFormed ==
  /\ ready => wallet \in Users
  /\ \A c \in Calls : call[c] # Idle => wallet \in Users /\ WellFormed(call[c])
  /\ \A c \in Calls : tx[c] # "none" => call[c] # Idle

\* c's call of createTokenMint is about mint m.
Creates(c, m) == call[c].op \in {"create", "account", "supply"} /\ call[c].mint = m

\* One call at a time creates a mint, first the mint and then its supply.
MintsAreCreatedInOrder ==
  /\ \A m \in Mints : \A c, d \in Calls : Creates(c, m) /\ Creates(d, m) => c = d
  /\ \A m \in Mints : ~mint[m].exists => mint[m].supply = 0
  /\ \A c \in Calls, m \in Mints :
       Creates(c, m) =>
         IF call[c].op = "supply" /\ tx[c] = "done" THEN mint[m].supply = Supply
         ELSE mint[m].supply = 0

\* A purchase that was sent has a call that waits for it, or its buyer has seen
\* the call throw.
PurchasesAreWaitedFor ==
  \A c \in Calls :
    call[c].op = "buy" /\ tx[c] # "none" =>
      \/ call[c].pc = "sent"
      \/ call[c].pc = "idle" /\ tx[c] = "flying" /\ call[c].signer \in doubtful

\* What call k, with its transaction in state x, has bought for u and not reported.
Bought(u, k, x) ==
  IF x = "done" /\ k.op = "buy" /\ k.signer = u THEN k.amount ELSE 0

Unreported(u) == SumFunction([c \in Calls |-> Bought(u, call[c], tx[c])])

\* Every executed purchase was reported, is about to be, or threw.
RecordsAreReported ==
  \A u \in Users :
    /\ paid[u] + Unreported(u) <= record[u].total_sol_spent
    /\ u \notin doubtful => paid[u] + Unreported(u) = record[u].total_sol_spent

ReportInv == PurchasesAreWaitedFor /\ RecordsAreReported

ClientInv ==
  /\ ClientTypeOK /\ CallsAreWellFormed
  /\ MintsAreCreatedInOrder /\ ReturnedMintIsSupplied

=============================================================================
