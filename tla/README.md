# NovaCoin: a verification development

TLA+ models, model-checking runs and machine-checked proofs for the NovaCoin
repository: a Solana token-sale program (Rust, Anchor), a payment gateway, a hot and
a cold wallet and a client library (JavaScript). Paths below are relative to the
repository's root; `PROJECT.json` maps every definition of the modules to its lines.

## 1. The system

| component | state it keeps | operations | interacts with |
|---|---|---|---|
| Token sale program `programs/nova_token` | `IcoConfig` (authority, mint, treasury, phase, amount for sale, tokens sold, SOL raised, start and end), one `PurchaseRecord` per buyer, the token vault, mints and token accounts | `initialize`, `initialize_ico`, `buy_tokens`, `set_phase`, `withdraw_funds` | token program and system program (CPI), any wallet that sends transactions |
| Payment gateway `app/payment/payment-gateway.js` | `pendingPayments`, `completedPayments`, each payment's status, expiry, `forwarded` flag and secret key, all in memory | `createPayment`, `getPaymentStatus`, `cancelPayment`, `forwardFunds`, the monitor (`setInterval`) | an RPC node (every request is an await), HTTP callers, event listeners |
| Hot wallet `app/wallet/hot-wallet.js` | the keypair in memory, the encrypted wallet file | generate, import, export, save, load, `sendSOL`, `sendTokens`, `requestAirdrop`, balances | RPC node, file system, other processes of the CLI |
| Cold wallet `app/wallet/cold-wallet.js` | keypair, wallet file with version and checksum | generate, from seed phrase, save, load, sign, paper backup, restore | file system |
| ICO client `app/frontend/ico-client.js` | the wallet in use, the loaded program | create mint, initialise and run the sale, buy, read accounts | the program, RPC node |
| Web page `app/frontend/index.html` | none that matters | simulated purchases with fixed numbers | nothing |
| Tests, migrations, build files | none | one unasserted call of `initialize`, an empty deploy script | nothing |

What is hard in each, and what makes it correct:

* **Program.** A transaction is atomic, so the difficulty is in *sequences*: the
  authority may move between phases at will, withdraw, and reopen; mints and vaults
  come from the caller; tokens may be sent to the vault directly; four counters, two
  transfers and a truncating division have to agree. Correct means: never oversold,
  counters = records = money moved, the vault covers what is still for sale, tokens
  leave it only as sales or to the authority after the end, no price outside the rates of the sale.
* **Gateway.** Every await is a point where ticks, polls, cancellations, expiry and
  forwarding interleave, and balances are applied after they were read. Correct means:
  every payment in exactly one Map, completed only when paid, settled once and for
  good, eventually settled, forwarded once and only when completed.
* **Hot wallet.** The file is truncated and written in two steps that crashes and other
  processes see; `this.keypair` is read again after awaits; a send may be retried
  although the first one lands; even reading a token balance may create, and pay for, an
  account. Correct means: the right wallet pays, a send that returns was executed, what was
  saved can be read back, also over what a crash has left.
* **Cold wallet.** The same file, in a format with a version that decides how it is read;
  transactions that go from signer to signer; a second attempt in another format after any
  error of the first. Correct means: what was saved, by this version or an earlier one, can
  be read back, and a signed transaction keeps its signatures and carries no invalid one.
* **Client.** Between the awaits of a method `initialize` may give the client another
  wallet, other methods run, and a transaction may land after its call has thrown.
  Correct means: only the wallet a method was called on spends, what a buyer is told agrees
  with the purchase records, a mint that was returned has its supply.

`PROJECT.json` lists the hazards line by line with the properties aimed at each.

## 2. The modules

| module | what it is |
|---|---|
| `TokenSale` | abstract specification: what a sale promises to buyers and to the seller |
| `NovaIco` | the program, its accounts, and what the rest of the chain may do; contains the refinement mapping to `TokenSale` (`SaleSpec`) |
| `NovaIcoProofs` | proofs about `NovaIco` |
| `SumProofs` | lemmas about `SumFunction`, the sum of a function's values over its finite domain; used by the proofs about `NovaIco` and `IcoClient` |
| `MCNovaIco` | its instances for TLC |
| `PaymentGateway` | the gateway, its callers, customers, clock and chain |
| `PaymentGatewayProofs` | proofs about `PaymentGateway` |
| `MCPaymentGateway` | its instances for TLC |
| `PaymentBook` | abstract specification: what a payment gateway promises to customers and merchant; `PaymentGateway` contains the refinement mapping (`BookSpec`) |
| `WalletFile` | what both wallets have in common: processes, keypairs and the encrypted file |
| `WalletFileProofs` | proofs about `WalletFile`, which both wallets use |
| `HotWallet`, `ColdWallet` | extend `WalletFile` with each wallet's formats, guards and further state |
| `HotWalletProofs`, `ColdWalletProofs` | proofs about them |
| `MCHotWallet`, `MCColdWallet` | their instances for TLC |
| `IcoClient` | extends `NovaIco` with the client, its calls and their transactions |
| `IcoClientProofs` | proofs about it, on top of `NovaIcoProofs` |
| `MCIcoClient` | its instances for TLC |

Operators that begin with the name of a definition and follow it with a word or two,
under a comment "Mutant:", are deliberately wrong variants of that definition. Each
property of a passing run is violated when one of them replaces the definition it is
named after.

### NovaIco

One action per instruction. Its guard is the conjunction of all the checks the
instruction makes (Anchor's account constraints, `require!`, the token program's and
the checked arithmetic's), in their order and with the error in a trailing comment; its
effect is all of the handler's. A rejected transaction changes nothing and is a
stuttering step. `buy_tokens` is `BuyTokens`, put together from `BuyAccountChecks`,
`PurchaseChecks`, `RemainingChecks`, `SettlementChecks`, `PaySol`, `CountSale` and
`RecordPurchase`. `Users` are wallets: each may be authority, treasury and buyer at the
same time, and calls every instruction with every argument. `CreateMint`, `MintTo`, `Donate` and
`Tick` are the rest of the chain. `outside` and `withdrew` are history variables, read
by no action.

u64 arithmetic is kept: the multiplication and every checked addition is compared with
`U64_MAX`, and truncating division is `\div`. Rent, transaction fees, frozen accounts
and several token accounts per owner are not modelled. Tokens move as the plain token program
moves them; the instructions take a `TokenInterface`, which would also admit Token-2022 mints
that withhold a fee from transfers or name a delegate over all accounts, and of such mints
nothing is claimed. The program's five i64/u64
arguments are drawn from small sets.

### TokenSale

A sale is funded once, opened and closed at will; `Sell(u)` gives `u` any number of
unsold tokens for any number of lamports at no better than the best rate and no worse than
the worst one (but for a fraction of a token), and credits both to `u`. What is sold comes
out of a stock, which may grow by gifts (`Give`) and which the seller may withdraw while
the sale is closed. `NovaIco` implements it: `open` is "the phase is one of the three sale
phases", `unsold` is `total_tokens_for_sale - tokens_sold`, `stock` what the vault of
`token_mint` holds, the rates those of the seed round and of the public sale. So a purchase
that lands in another phase than the buyer asked in, `buy_tokens` having no argument for the
least number of tokens, still gets the public sale's rate. After a withdrawal and a
re-opening there are unsold tokens but no stock: how long this cannot happen is what
`VaultBacksUnsold` says.

### PaymentGateway

JavaScript runs from await to await, so an action is such a segment. A balance check is
"asked", "answered" (the node reads the chain at that moment, or the request fails) and
applied by `PollResume` or `TickResume`; anything may run in between, and the answer is
applied to the payment object whatever has become of it, as in the code. A tick runs
through the Map in creation order: `Passed` are the payments it expires on the way
to the next await, `Visit` the payment whose check it awaits. Several ticks overlap,
because `setInterval` does not wait for the previous one. `forwardFunds` is
`ForwardStart` (its guards), `ForwardRead`, `ForwardSend`, `ForwardConfirm`; `ForwardThrow`
ends it at any await without stopping a transaction on its way; `Land` is the
chain executing, failing or dropping it.

Amounts are in base units, any integer but 0, since `createPayment` refuses only what is
falsy. `Asked` is what the URI asks for; `Enough` is the least balance that completes the
payment. In SOL they agree but for the double product, which may be a fraction of a lamport
too large (`RoundedUp`). In NOVA `Enough` is a `UNIT`-th of `Asked`, rounded up, because a
balance in base units is compared with an amount in tokens; so `CompletedWasPaid` is about
SOL, and `NovaPaidInFull` is violated.

`config.novaMint` is taken to be set (without it, NOVA payments are never checked).
Rent is constant between two reads; the node answers from one, current state of the chain.
The webhook helpers change no state and are not modelled.

### PaymentBook

A payment is offered once and closed once: by `Cancel`, or by `Settle`, which closes payments
that are overdue or completed and calls closed payments completed for which enough was received. How much is
enough is fixed when the payment is offered; the mapping puts the gateway's `Enough` for it,
which is the price in SOL and not in NOVA. `PayOut` gives
the merchant no more than was received. A step of the monitor that expires several payments and
completes one is a single `Settle`. The book lets a closed payment be completed later: this is
what the gateway keeps of "cancelled" and "expired" when an answer arrives after them. It also
lets an overdue payment be closed that was paid in time, because a tick does not read its
balance once more.

### WalletFile

Each wallet object is in a process of its own, as the CLIs create them; `EndProcess` ends
a process at any point. `saveWallet` is `OpenForWriting` (truncate) and `WriteOut`, the two
steps of `writeFileSync`; two saves that overlap may leave the tail of the longer one
behind. A load succeeds exactly when the file is whole, the password is the one it was
saved with, and the key is derived the same way; any other load throws. `last` and
`disturbed` are history variables: a save is disturbed when it is cut off or overlaps another
one, and a later one that is not repairs the file, whatever it finds there. Only the default file name is modelled.

### HotWallet

`sendTokens` looks up the sender's token account, then the recipient's, then transfers
(`SendTokens`, `SendTokensTo`, `TransferTokens`), and reads `this.keypair` again for each; what
was bound before the first await stays in `call[w].from`. `getOrCreateAssociatedTokenAccount`
creates an account that is missing, at the expense of the wallet read when that step began
(`CreateAccount`, `payer`), ignores how the creation ended and looks again. So a wallet that
is loaded in mid-call pays the rent of the recipient's account, which is the exception that
`OnlyTheCallerPays` makes. `getTokenBalance` creates accounts in the same way
(`GetTokenBalance`). Transactions live on after the call that sent them and may be executed
late, rejected (`failed`) or never seen (`lost`). The sends throw for a transaction that failed;
`requestAirdrop` does not look at the confirmation and returns (`Confirmed`). Fees are left out.

### ColdWallet

Every method is synchronous, so only the file has a step boundary. The file may be there
already, written by an earlier version or by the hot wallet (`EarlierFiles`): no version
field, and the weaker derivation. `KdfOf` is the choice `loadWallet` makes. The checksum is
not modelled: after a successful authenticated decryption it always agrees. A
serialized transaction is its format and a slot for a signature of each required signer;
`Prepare` makes a new one, with slots in any state. `SignTransaction` is the whole method. The
legacy branch signs unless something in it throws (`SignedAsLegacy`): a versioned message, a
key that is not a signer, an invalid signature in another slot. After that the second branch
always throws, too: `bs58.encode` takes bytes, and the blockhash of a deserialized message is
a string already (`cold-wallet.js:239`). Nothing is returned then, and the transaction that is
carried around stays as it was: a stuttering step. `signedBy` is a history variable.

### IcoClient

A call is in a slot `c`: the await it is at, the wallet its addresses were derived from
(`owner`), the one that signs (`signer`), its arguments. `tx[c]` is the transaction it
waits for, which stays in the slot when the call has thrown. `Land` executes it as a step
of `NovaIco`, so client and program compose in one module and a step of the client leaves
`vars` of `NovaIco` alone; `Drop` is every reason for which it is never executed. Where the
program would reject a transaction `Land` is not enabled, and `Drop` is what happens.
`createTokenMint` is three transactions with `this.wallet` read again for each (`CreateTokenMint`,
`FindHolder`, `MintSupply`): the mint, the token account of the supply, the supply. The account
is paid for by the wallet of that moment; `rent` counts, for each wallet, the accounts it has
paid for, beside the lamports of `NovaIco`, which leaves rent out.
`initializeIco` and `buyTokens` derive the addresses before their await and read the
signer after it (`SendDerived`). `Lamports` and `MAX_SAFE` are what `new BN` does to a
double. `returned`, `paid` and `doubtful` are history variables.

`ready`, that `this.program` is set, may become true or stay as it is in `UseWallet`. The
constructor of `Program` is called with a program id as its second argument, which the Anchor
library of `package.json` no longer takes: there it probably throws, and `ready` stays false.
The model then allows more than the code does. Its safety properties hold all the same, but
those about purchases are about a client whose `Program` can be constructed.

## 3. What is checked

### Passing runs

| run | instance and why it is large enough | shows |
|---|---|---|
| `ico` | two users, so buyer, authority and treasury coincide or differ in every way; lamports and rates that truncate, products on both sides of `U64_MAX`, amounts on both sides of the two purchase limits, sales that end exactly and that would be exceeded by one | the ledgers, no overselling, conservation of tokens, tokens leave the vault to a recorded buyer or the authority, refinement of `TokenSale` |
| `ico_shipped` | the smallest purchase at the lowest rate exceeds `U64_MAX`, as in `constants.rs`; two mint addresses, one of which may get other decimals, and a clock | `OneVault`: why the mint that callers pass needs no comparison; nothing is ever sold |
| `gateway` | two payments (order in the Map matters) in either currency, a tick and a poller (two checks of one payment can be in flight), a price in SOL that takes two deposits; fairness | partition of the Maps, completed is paid in SOL, settled for good and final once quiet, every payment eventually settled |
| `gateway_forward` | one payment, two ticks that overlap and a poller (three checks of it in flight), two forwarders, deposits before, between and after, a price below zero, an amount whose double product is rounded up | only completed payments forwarded, no empty report, refinement of `PaymentBook`, final once quiet |
| `wallet` | one process, two keys, a password: saves, crashes and saves over what they have left; two transactions: a send and its retry, an account that is created and a transfer to it, with a change of wallet at any await | a save that is not itself disturbed is read back, the caller's wallet pays, but for the rent of an account, a send that returned was executed |
| `cold` | two processes, three keys of which two co-sign and one comes from a phrase, a short and a long password, files of either version, one transaction in either format with slots empty, valid or invalid | an undisturbed save of either version is read back, a transaction that was signed keeps its signatures and has no invalid one |
| `client` | two wallets, so the client's may change in mid-call, two calls under way (two purchases, a purchase and its retry, a purchase and a change of phase), one mint, an amount the double loses a lamport of, an amount `new BN` refuses; lamports for two purchases | a returned mint is supplied once, what buyers were told agrees with the records, only the caller's wallet spends |

Bounds: `MaxDeposited` (what is sent to an address altogether), `MaxTx`
(transactions a hot wallet sends), the finite sets of amounts, the number of
payments `N`, the slots `Calls` of the client. Everything else is bounded by the program itself (`U64_MAX`,
`InitialLamports`). Symmetry is used for users, wallets,
keys, passwords, ticks and forwarders, which no action tells apart, and not in `gateway`,
which checks liveness. `MaxTx = 2` lets a send be retried by whoever thinks it was lost, and a
token transfer follow the creation of one account, not of both. Two processes, whose saves
overlap and leave a mixture in the file, are in `cold`: what happens to the file is
`WalletFile`'s, and the same for both wallets.

The runs of `NovaIco` use small constants in the proportions the
properties depend on, because with the constants as shipped no purchase succeeds;
`ico_shipped` and the theorem `NothingIsEverSold` are about those.

Deadlock is checked in `ico`, `wallet`, `cold` and `client`. It is not in the
gateway's runs (with all payments settled there is nothing to do) and in `ico_shipped` (once
both addresses hold a mint that cannot be sold, nobody can do anything).

**Fairness** (`FairSpec`): time passes, `setInterval` keeps firing, a request to the node
ends with an answer or an error and its promise is then settled. Nothing is assumed
of customers, pollers, cancellations or forwarders. A payment that is never paid is
settled by expiry, which needs a tick that comes past it. Head-of-line
waiting in the loop is modelled; a request that never ends would hold up its tick, and
only later ticks would go on.

### Violations: what documents or comments say and the code does not do

| run | in short |
|---|---|
| `ico_overflow` | purchases within the documented limits are rejected for overflow |
| `ico_window` | `start_time` and `end_time` restrict nothing |
| `gateway_regress` | a late, older answer turns a completed payment into a partial one that cannot be forwarded |
| `gateway_nova` | a payment in NOVA is completed by a billionth of its price |
| `gateway_forward_twice` | one payment's funds are reported forwarded twice |

The quotations are in `PROJECT.json`, "findings". Smaller disagreements that the models
contain and no run is spent on:

* after a withdrawal and a re-opening, the check "sufficient tokens available"
  (`buy_tokens.rs:85`) passes with an empty vault, and the transfer fails instead;
* a check in flight when `cancelPayment` is called completes the cancelled payment;
* two checks in flight emit `paymentCompleted` twice for one payment;
* 1.07 SOL is compared as 1070000000.0000002 lamports, so the exact amount is not enough;
* a tick expires a payment that is due without reading its balance, also when it was paid in time;
* 'Airdrop received!' (`hot-wallet.js:273`) is printed for an airdrop that failed, too;
* `getTokenBalance`, "Get token balance for a specific mint", creates the account it is asked
  about and pays for it; it returns 0 and `getPurchaseRecord` null when the request fails;
* saving another wallet, or a crash while saving, destroys the only copy of the key that was
  saved before; `generate` without a password never saves the key at all;
* 'Try as versioned transaction' (`cold-wallet.js:233`): no versioned transaction is ever signed,
  because `bs58.encode` at line 239 throws a `TypeError` for the blockhash, already a string;
* a legacy transaction with an invalid signature of a co-signer is refused, with the error of
  the second branch instead of that of the first;
* when the client's wallet changes during `createTokenMint`, the supply may be minted into the
  new wallet's account, which that wallet pays for, or refused, with the mint left behind and its address lost;
* `new BN` refuses numbers from 2^53 on, so `initializeIco` cannot put the 400,000,000 tokens
  of `README.md`, 4*10^17 base units, up for sale;
* `getIcoConfig` indexes a list with a name and reports every phase as 'Unknown'.

## 4. What is proved

The theorems hold for every value of the constants that satisfies the named
assumptions of the modules: any number of users, mints, payments, ticks and callers, any
prices and rates.

`NovaIcoProofs`, from `KeysAssumption`, `UsersAssumption` (at any time there are finitely
many wallets), `ArithmeticAssumption`, `RatesAssumption` (the rates do not increase from
phase to phase) and `InputsAssumption`:

* `Invariance`: `IInv = TypeOK /\ Ledgers` is inductive. The safety properties are
  not inductive one by one: that the vault's content is `Unsold + outside` is preserved
  by `buy_tokens` only when the vault debited is that of the sale, which is `OneVault`; and
  `OneVault` is preserved by `initialize_ico` because before it there is no vault and all
  counters are 0 (`NoSaleYet`, `EmptyWithoutVault`). `VaultBacksUnsold` follows from
  `VaultLedger` and `OnlyAddedUntilWithdrawal`.
* `TypeCorrect`, `OnlyTheSaleHasAVault`, `NoOverselling`, `VaultBalances`,
  `VaultCoversTheSale`, `SolAddsUp`, `NoBargains` follow from it; `VaultOnlyPaysOut` is
  the action property, by cases on the instructions.
* `SumInvariance`: the ledgers that are sums over all wallets, `SumLedgers`, are inductive
  on top of `IInv`. `RecordsAddUp` needs of it that all records are empty while there is no
  sale (`NoSaleYet`). `NoTokenIsLost` needs `EmptyWithoutVault` and `NoSupplyWithoutMint`:
  `initialize` and `initialize_ico` create accounts, and do so where the sum counts none.
  Each instruction changes one wallet's term, and the sum by as much (`SumChanges`).
* `ImplementsTokenSale`: every step of the program is a step of `TokenSale` or stutters. The
  lower bound of the price is `LowestRate`: truncation costs less than a token. That
  `stock` is what the instruction's vault holds is `OneVault`.
* `NothingIsEverSold`: if the smallest purchase at the lowest rate overflows, nothing is
  sold. `ShippedConstantsOverflow` evaluates that condition for the numbers of `constants.rs`.

`SumProofs`, from no assumption, is about the community modules' `SumFunction`, which folds
`+` over the domain in whichever order `CHOOSE` picks. The library's induction theorems
take an operator as a parameter, which no installed prover can instantiate; `NumberInduction`
and `SubsetInduction` therefore speak of a *set* of numbers, or of subsets, for which the
statement holds, and are proved from a smallest counterexample (`WFMin`). With them:
whatever the order, the result is the same (`SumsUpUnique`), one term can be taken out of
the sum (`SumTakesOut`), and a sum changes by what one term changes by (`SumChanges`).

`PaymentGatewayProofs`, from `CallersAssumption` and `AmountsAssumption`:

* `Invariance`: `IInv` adds to the properties that calls in flight are about payments
  that exist, that answers never exceed what was deposited (`OnlyDepositsSeen`: this is why
  an old answer can complete a payment without harm to `CompletedHadEnough`), that a
  transaction on its way transfers something, and that nothing happens to a payment
  before it is created. The step is proved part by part; the heart is `ApplyKeepsMaps`.
* `OnlyCompletedGetForwarded` needs `ForwardsAreCompleted`: the guard of `forwardFunds` was
  passed once, and although a late answer may change the status since, a completion is never
  undone and the payment never leaves `completedPayments`.
* `NothingReportedInVain` needs `NothingTakenYet`: as long as the merchant got nothing, the
  address still holds what each forwarder has read, so the first transaction to reach the
  chain does not fail. The amounts of concurrent transactions need not be compared.
* `ImplementsPaymentBook`: every action is a step of `PaymentBook` or stutters. What a tick
  closes on its way is overdue, what an answer closes is completed and paid
  (`OnlyDepositsSeen`); `PayOut` uses that what was moved and what is left never exceed what was
  deposited.
* `NothingCompletedUnpaid` follows from `CompletedHadEnough`, the part of `IInv` that holds in
  either currency, because in SOL what is enough is at least what is asked (`EnoughForSol`).
* `QuietIsFinal`: a settled payment's status is not "pending" and it is not in
  `pendingPayments` (`MapsPartitionPayments`), so neither a caller nor a tick starts a check of
  it; and without a check in flight nothing else changes its status.
* `TypeCorrect`, `EachPaymentInOneMap`, `NeverReopened`.

`WalletFileProofs`, from `WalletFileAssumption`: `FileInvariance`. That an undisturbed file is
whole is inductive only together with `OneWriter`: a save under way is then the only one, and
writes `last` into an empty file. `HotWalletProofs` and `ColdWalletProofs`, from that
assumption and the constants' own, prove that each wallet's steps are steps of `WalletFile`
(`ImplementsFile`) and so inherit the invariant:

* `SavesAreReadBack` (both) adds that what was saved says how it is to be read
  (`SavedAsItIsRead`);
* `ReturnedIsExecuted` and `OnlyCallersPay` of the hot wallet need that a call waits for a
  transaction that was sent (`CallsAreSound`) and that what is sent comes from the caller, an
  account's rent from its signer (`PayersAreFair`);
* `SignaturesStay` of the cold wallet is inductive as it stands.

`IcoClientProofs`, from `ClientAssumption`, `CallsAssumption` (finitely many calls are under
way) and those of `NovaIco`:

* `ImplementsProgram`: the client's specification implements that of the program, so all
  theorems of `NovaIcoProofs` hold with the client on top. It needs that what a call sends is
  an instruction with legal arguments (`CallsAreWellFormed`).
* `MintsAreSupplied` needs `MintsAreCreatedInOrder`: no two calls create the same mint, and
  until the third transaction has been executed the supply is 0.
* `OnlyCallersSpend`, by cases on the instruction that is executed: the program derives the
  accounts from the signer, so a transaction whose addresses belong to another wallet is
  refused. The account for the supply belongs to the wallet that pays for it. `ClientTypeCorrect`.
* `ReportInvariance`: neither property about reports is inductive, because between the
  execution of a purchase and the return of its call the record is ahead of what the buyer
  was told. `ReportInv` counts what is in between: for each buyer, what was paid plus what
  the calls under way have bought and not reported (`Unreported`, a sum over the calls) is
  at most what is recorded, and exactly that as long as none of the buyer's calls threw.
  `PurchasesAreWaitedFor` is why a purchase that lands after its call has thrown only ever
  concerns a buyer in `doubtful`. `ReportsAreTrue` and `ReportsAreComplete` follow.

All safety properties of the passing runs, both refinements included, are proved. Left to
TLC is `EventuallySettled`: liveness under fairness, and `ENABLED`, are beyond this prover.
The violations are TLC's counterexamples and need no proof.

## 5. Not modelled

* The client's `requestAirdrop`: `NovaIco` accounts for every lamport by the sale
  (`SolLedger`), and money from elsewhere would only blur that; its reads, which change no state.
* `signData`, `getPublicKey` and `getBalance` of the wallets change no state.
* The web page: it calls neither the program nor the client. Migrations, test, build files.
* Fees, rent but for that of the token accounts that wallet and client create, Token-2022
  extensions, payments in a currency other than SOL and NOVA (accepted, never checked), several RPC nodes that lag behind each
  other, forks below the commitment level, and everything cryptographic (a decryption
  succeeds exactly with the right password and an intact file).
* A restart of the gateway: nothing is persisted, so there is no recovery to check.

## 6. Plan

Done: every component that keeps state is modelled, checked and proved about.

Next:

1. `PaymentBook` with liveness: every offered payment is eventually closed, as a temporal
   property of the mapping, checked by TLC.
2. An abstract specification of the wallet file, a register of one key that a save replaces
   and a crash may destroy, shown to be implemented by `WalletFile`.
