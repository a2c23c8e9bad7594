------------------------------ MODULE NovaIco ------------------------------
(***************************************************************************)
(* The on-chain program programs/nova_token: the token mint, the sale      *)
(* configuration (IcoConfig), the PDA token vault, the buyers' purchase    *)
(* records, and the five instructions that change them.                    *)
(*                                                                         *)
(* An instruction is one atomic step: the chain executes a transaction     *)
(* completely or not at all.                                               *)
(*                                                                         *)
(* One token account per owner and mint is modelled; account rent,         *)
(* transaction fees and frozen accounts are not.  Tokens move as the plain *)
(* token program moves them: TokenInterface would also admit mints with    *)
(* extensions that withhold a fee or name a delegate, and none is here.    *)
(***************************************************************************)
EXTENDS Integers, FiniteSets, Functions

CONSTANTS
  Users,            \* wallets that can sign; any of them may be the treasury
  Mints,            \* addresses at which a token mint may be created
  NoKey,            \* Pubkey::default()
  U64_MAX,          \* largest u64
  LAMPORTS_PER_SOL,
  TOKEN_DECIMALS,
  MIN_PURCHASE,
  MAX_PURCHASE,
  SEED_ROUND_RATE,
  PRIVATE_SALE_RATE,
  PUBLIC_SALE_RATE,
  InitialLamports,  \* what every wallet holds before the sale
  SolAmounts,       \* arguments of buy_tokens
  TokenAmounts,     \* token amounts given to initialize_ico, minted, donated
  OtherDecimals,    \* decimals of mints that were not created for the sale
  Times             \* unix timestamps, 0..max

ASSUME KeysAssumption == NoKey \notin Users /\ NoKey \notin Mints

\* At any time there are finitely many wallets: sums over all of them make sense.
ASSUME UsersAssumption == IsFiniteSet(Users)

ASSUME ArithmeticAssumption ==
  /\ U64_MAX \in Nat /\ InitialLamports \in Nat /\ TOKEN_DECIMALS \in Nat
  /\ LAMPORTS_PER_SOL \in Nat \ {0}
  /\ MIN_PURCHASE \in Nat /\ MAX_PURCHASE \in Nat
  /\ SEED_ROUND_RATE \in Nat /\ PRIVATE_SALE_RATE \in Nat
  /\ PUBLIC_SALE_RATE \in Nat \ {0}

ASSUME RatesAssumption ==
  /\ PUBLIC_SALE_RATE <= PRIVATE_SALE_RATE
  /\ PRIVATE_SALE_RATE <= SEED_ROUND_RATE

ASSUME InputsAssumption ==
  /\ SolAmounts \subseteq 0..U64_MAX
  /\ TokenAmounts \subseteq 0..U64_MAX
  /\ OtherDecimals \subseteq Nat
  /\ Times \subseteq Nat

VARIABLES
  mint,        \* mint[m]: the Mint account at address m
  vault,       \* vault[m]: the token account at PDA [ico_vault, m]
  balance,     \* balance[m][u]: u's token account for mint m
  lamports,    \* lamports[u]: u's SOL
  ico_config,  \* the account at PDA [ico_config]
  record,      \* record[u]: the account at PDA [purchase, u]
  now,         \* the cluster's clock
  outside,     \* history: tokens sent straight to the vault, less those withdrawn
  withdrew     \* history: has withdraw_funds ever emptied the vault?

accounts == <<mint, vault, balance, lamports, ico_config, record>>
history == <<outside, withdrew>>
vars == <<accounts, now, history>>

----------------------------------------------------------------------------
(* Accounts                                                                *)

IcoPhase == {"NotStarted", "SeedRound", "PrivateSale", "PublicSale", "Ended"}

IcoConfig ==
  [exists: BOOLEAN, authority: Users \cup {NoKey}, token_mint: Mints \cup {NoKey},
   treasury: Users \cup {NoKey}, phase: IcoPhase, total_tokens_for_sale: Nat,
   tokens_sold: Nat, sol_raised: Nat, start_time: Nat, end_time: Nat]

PurchaseRecord ==
  [exists: BOOLEAN, total_sol_spent: Nat, total_tokens_purchased: Nat]

Mint == [exists: BOOLEAN, decimals: Nat, authority: Users \cup {NoKey}, supply: Nat]

TokenVault == [exists: BOOLEAN, amount: Nat]

TokenRate(phase) ==
  CASE phase = "SeedRound"   -> SEED_ROUND_RATE
    [] phase = "PrivateSale" -> PRIVATE_SALE_RATE
    [] phase = "PublicSale"  -> PUBLIC_SALE_RATE
    [] OTHER                 -> 0

\* Mutant: the division rounds up.
TokensForRoundedUp(phase, sol) ==
  (sol * TokenRate(phase) + LAMPORTS_PER_SOL - 1) \div LAMPORTS_PER_SOL

TokensFor(phase, sol) == (sol * TokenRate(phase)) \div LAMPORTS_PER_SOL

Active == ico_config.phase \notin {"NotStarted", "Ended"}

Unsold == ico_config.total_tokens_for_sale - ico_config.tokens_sold

----------------------------------------------------------------------------
(* Instructions.  Each begins with the checks of its accounts and of its   *)
(* handler, in the order the program makes them, with the error it returns *)
(* when one fails; InsufficientFunds, InsufficientLamports,                *)
(* MintDecimalsMismatch, AccountAlreadyInUse and AccountNotInitialized are *)
(* errors of the token program, the system program and Anchor.  A rejected *)
(* transaction is a stuttering step.                                       *)

(* initialize: creates the mint with 9 decimals                            *)

InitializeChecks(m) == ~mint[m].exists  \* AccountAlreadyInUse

NewMint(a, d) == [exists |-> TRUE, decimals |-> d, authority |-> a, supply |-> 0]

Initialize(a, m) ==
  /\ InitializeChecks(m)
  /\ mint' = [mint EXCEPT ![m] = NewMint(a, TOKEN_DECIMALS)]
  /\ UNCHANGED <<vault, balance, lamports, ico_config, record, now, history>>

----------------------------------------------------------------------------
(* initialize_ico: whoever calls it first becomes the authority; moves the *)
(* tokens for sale from the authority's account into the new vault.        *)

\* Mutant: a second sale may replace the configuration of the first.
InitializeIcoChecksTwice(a, m, n) ==
  /\ mint[m].exists /\ ~vault[m].exists  \* AccountNotInitialized
  /\ n <= balance[m][a]                  \* InsufficientFunds

InitializeIcoChecks(a, m, n) ==
  /\ ~ico_config.exists                 \* AccountAlreadyInUse
  /\ mint[m].exists                     \* AccountNotInitialized
  /\ ~vault[m].exists                   \* AccountAlreadyInUse
  /\ n <= balance[m][a]                 \* InsufficientFunds
  /\ mint[m].decimals = TOKEN_DECIMALS  \* MintDecimalsMismatch

\* Mutant: the sale opens as soon as it is configured.
NewIcoConfigOpen(a, m, treasury, n, start, end) ==
  [exists |-> TRUE, authority |-> a, token_mint |-> m, treasury |-> treasury,
   phase |-> "SeedRound", total_tokens_for_sale |-> n, tokens_sold |-> 0,
   sol_raised |-> 0, start_time |-> start, end_time |-> end]

NewIcoConfig(a, m, treasury, n, start, end) ==
  [exists |-> TRUE, authority |-> a, token_mint |-> m, treasury |-> treasury,
   phase |-> "NotStarted", total_tokens_for_sale |-> n, tokens_sold |-> 0,
   sol_raised |-> 0, start_time |-> start, end_time |-> end]

\* Mutant: the vault is created but the transfer into it is forgotten.
FundVaultNothing(a, m, n) ==
  vault' = [vault EXCEPT ![m] = [exists |-> TRUE, amount |-> 0]] /\ UNCHANGED balance

\* Mutant: the authority's account is not debited.
FundVaultNoDebit(a, m, n) ==
  vault' = [vault EXCEPT ![m] = [exists |-> TRUE, amount |-> n]] /\ UNCHANGED balance

FundVault(a, m, n) ==
  /\ vault' = [vault EXCEPT ![m] = [exists |-> TRUE, amount |-> n]]
  /\ balance' = [balance EXCEPT ![m][a] = @ - n]

InitializeIco(a, m, treasury, n, start, end) ==
  /\ InitializeIcoChecks(a, m, n)
  /\ ico_config' = NewIcoConfig(a, m, treasury, n, start, end)
  /\ FundVault(a, m, n)
  /\ UNCHANGED <<mint, lamports, record, now, history>>

----------------------------------------------------------------------------
(* buy_tokens                                                              *)

\* Mutant: the treasury account is not compared with the configured one.
BuyAccountChecksAnyTreasury(m, treasury) ==
  /\ ico_config.exists                  \* AccountNotInitialized
  /\ mint[m].exists /\ vault[m].exists  \* AccountNotInitialized

\* The accounts the caller passes: the vault PDA of the mint it names, and
\* the treasury.  The mint itself is not compared with ico_config.token_mint.
BuyAccountChecks(m, treasury) ==
  /\ ico_config.exists                  \* AccountNotInitialized
  /\ mint[m].exists /\ vault[m].exists  \* AccountNotInitialized
  /\ treasury = ico_config.treasury     \* Unauthorized

\* Mutant: the product wraps around instead of being checked.
PurchaseChecksUnchecked(sol) ==
  /\ Active                           \* IcoNotActive
  /\ sol >= MIN_PURCHASE              \* BelowMinPurchase
  /\ sol <= MAX_PURCHASE              \* ExceedsMaxPurchase
  /\ TokenRate(ico_config.phase) > 0  \* InvalidPhase

PurchaseChecks(sol) ==
  /\ Active                                         \* IcoNotActive
  /\ sol >= MIN_PURCHASE                            \* BelowMinPurchase
  /\ sol <= MAX_PURCHASE                            \* ExceedsMaxPurchase
  /\ TokenRate(ico_config.phase) > 0                \* InvalidPhase
  /\ sol * TokenRate(ico_config.phase) <= U64_MAX   \* Overflow

\* Mutant: the sale is not limited to total_tokens_for_sale.
RemainingChecksNone(tokens) == TRUE

RemainingChecks(tokens) ==
  /\ Unsold >= 0       \* Overflow
  /\ tokens <= Unsold  \* InsufficientTokens

\* Mutant: the transfers and additions are taken to succeed.
SettlementChecksNone(b, m, sol, tokens) == TRUE

\* The two transfers, then the four checked additions.
SettlementChecks(b, m, sol, tokens) ==
  /\ sol <= lamports[b]                                    \* InsufficientLamports
  /\ tokens <= vault[m].amount                             \* InsufficientFunds
  /\ mint[m].decimals = TOKEN_DECIMALS                     \* MintDecimalsMismatch
  /\ ico_config.tokens_sold + tokens <= U64_MAX            \* Overflow
  /\ ico_config.sol_raised + sol <= U64_MAX                \* Overflow
  /\ record[b].total_sol_spent + sol <= U64_MAX            \* Overflow
  /\ record[b].total_tokens_purchased + tokens <= U64_MAX  \* Overflow

\* The treasury may itself buy.
PaySol(b, treasury, sol) ==
  lamports' = [u \in Users |-> lamports[u] - (IF u = b THEN sol ELSE 0)
                                          + (IF u = treasury THEN sol ELSE 0)]

CountSale(sol, tokens) ==
  ico_config' = [ico_config EXCEPT !.tokens_sold = @ + tokens,
                                   !.sol_raised = @ + sol]

\* Mutant: a later purchase overwrites the buyer's totals.
RecordPurchaseOverwrites(b, sol, tokens) ==
  record' = [record EXCEPT ![b] = [exists |-> TRUE, total_sol_spent |-> sol,
                                   total_tokens_purchased |-> tokens]]

RecordPurchase(b, sol, tokens) ==
  record' = [record EXCEPT ![b] =
               [exists |-> TRUE,
                total_sol_spent |-> @.total_sol_spent + sol,
                total_tokens_purchased |-> @.total_tokens_purchased + tokens]]

\* The handler's own checks, up to the transfers.
Offered(m, treasury, sol) ==
  /\ BuyAccountChecks(m, treasury)
  /\ PurchaseChecks(sol)
  /\ RemainingChecks(TokensFor(ico_config.phase, sol))

BuyAccepted(b, m, treasury, sol) ==
  /\ Offered(m, treasury, sol)
  /\ SettlementChecks(b, m, sol, TokensFor(ico_config.phase, sol))

BuyTokens(b, m, treasury, sol) ==
  LET tokens == TokensFor(ico_config.phase, sol)
  IN  /\ BuyAccepted(b, m, treasury, sol)
      /\ PaySol(b, treasury, sol)
      /\ vault' = [vault EXCEPT ![m].amount = @ - tokens]
      /\ balance' = [balance EXCEPT ![m][b] = @ + tokens]
      /\ CountSale(sol, tokens)
      /\ RecordPurchase(b, sol, tokens)
      /\ UNCHANGED <<mint, now, history>>

----------------------------------------------------------------------------
(* set_phase: the authority may go from any phase to any other             *)

PhaseOf == <<"NotStarted", "SeedRound", "PrivateSale", "PublicSale", "Ended">>

PhaseCodes == 0..5   \* 5 stands for every u8 that is not a phase

SetPhaseChecks(a, code) ==
  /\ ico_config.exists            \* AccountNotInitialized
  /\ ico_config.authority = a     \* Unauthorized
  /\ code + 1 \in DOMAIN PhaseOf  \* InvalidPhase

SetPhase(a, code) ==
  /\ SetPhaseChecks(a, code)
  /\ ico_config' = [ico_config EXCEPT !.phase = PhaseOf[code + 1]]
  /\ UNCHANGED <<mint, vault, balance, lamports, record, now, history>>

----------------------------------------------------------------------------
(* withdraw_funds: after the sale, everything the vault holds goes back.   *)
(* The counters of ico_config stay as they are.                            *)

\* Mutant: withdrawing is allowed in every phase.
WithdrawChecksAnyPhase(a, m) ==
  /\ ico_config.exists                  \* AccountNotInitialized
  /\ ico_config.authority = a           \* Unauthorized
  /\ mint[m].exists /\ vault[m].exists  \* AccountNotInitialized

WithdrawChecks(a, m) ==
  /\ ico_config.exists                                         \* AccountNotInitialized
  /\ ico_config.authority = a                                  \* Unauthorized
  /\ mint[m].exists /\ vault[m].exists                         \* AccountNotInitialized
  /\ ico_config.phase = "Ended"                                \* IcoNotEnded
  /\ vault[m].amount > 0 => mint[m].decimals = TOKEN_DECIMALS  \* MintDecimalsMismatch

WithdrawFunds(a, m) ==
  /\ WithdrawChecks(a, m)
  /\ vault' = [vault EXCEPT ![m].amount = 0]
  /\ balance' = [balance EXCEPT ![m][a] = @ + vault[m].amount]
  /\ outside' = outside - vault[m].amount
  /\ withdrew' = (withdrew \/ vault[m].amount > 0)
  /\ UNCHANGED <<mint, lamports, ico_config, record, now>>

----------------------------------------------------------------------------
(* What the rest of the chain does: other mints, minting by the mint       *)
(* authority, token transfers into the vault, the clock.                   *)

CreateMint(a, m, d) ==
  /\ ~mint[m].exists
  /\ mint' = [mint EXCEPT ![m] = NewMint(a, d)]
  /\ UNCHANGED <<vault, balance, lamports, ico_config, record, now, history>>

MintTo(a, m, u, n) ==
  /\ mint[m].exists /\ mint[m].authority = a
  /\ mint[m].supply + n <= U64_MAX
  /\ mint' = [mint EXCEPT ![m].supply = @ + n]
  /\ balance' = [balance EXCEPT ![m][u] = @ + n]
  /\ UNCHANGED <<vault, lamports, ico_config, record, now, history>>

Donate(u, m, n) ==
  /\ vault[m].exists /\ n <= balance[m][u]
  /\ balance' = [balance EXCEPT ![m][u] = @ - n]
  /\ vault' = [vault EXCEPT ![m].amount = @ + n]
  /\ outside' = outside + n
  /\ UNCHANGED <<mint, lamports, ico_config, record, now, withdrew>>

Tick ==
  /\ now + 1 \in Times
  /\ now' = now + 1
  /\ UNCHANGED <<accounts, history>>

----------------------------------------------------------------------------
Init ==
  /\ mint = [m \in Mints |-> [exists |-> FALSE, decimals |-> 0,
                              authority |-> NoKey, supply |-> 0]]
  /\ vault = [m \in Mints |-> [exists |-> FALSE, amount |-> 0]]
  /\ balance = [m \in Mints |-> [u \in Users |-> 0]]
  /\ lamports = [u \in Users |-> InitialLamports]
  /\ ico_config = [exists |-> FALSE, authority |-> NoKey, token_mint |-> NoKey,
                   treasury |-> NoKey, phase |-> "NotStarted",
                   total_tokens_for_sale |-> 0, tokens_sold |-> 0,
                   sol_raised |-> 0, start_time |-> 0, end_time |-> 0]
  /\ record = [u \in Users |-> [exists |-> FALSE, total_sol_spent |-> 0,
                                total_tokens_purchased |-> 0]]
  /\ now = 0
  /\ outside = 0
  /\ withdrew = FALSE

Instruction ==
  \E u \in Users :
    \/ \E m \in Mints :
         \/ Initialize(u, m)
         \/ \E t \in Users, n \in TokenAmounts, start, end \in Times :
              InitializeIco(u, m, t, n, start, end)
         \/ \E t \in Users, sol \in SolAmounts : BuyTokens(u, m, t, sol)
         \/ WithdrawFunds(u, m)
    \/ \E code \in PhaseCodes : SetPhase(u, code)

Environment ==
  \/ \E u \in Users, m \in Mints :
       \/ \E d \in OtherDecimals : CreateMint(u, m, d)
       \/ \E n \in TokenAmounts : Donate(u, m, n) \/ \E a \in Users : MintTo(a, m, u, n)
  \/ Tick

Next == Instruction \/ Environment

Spec == Init /\ [][Next]_vars

----------------------------------------------------------------------------
(* Properties                                                              *)

\* Every account holds values of its type (state.rs); tokens and lamports are
\* never negative, so no transfer takes more than its source holds.
TypeOK ==
  /\ mint \in [Mints -> Mint]
  /\ vault \in [Mints -> TokenVault]
  /\ balance \in [Mints -> [Users -> Nat]]
  /\ lamports \in [Users -> Nat]
  /\ ico_config \in IcoConfig
  /\ record \in [Users -> PurchaseRecord]
  /\ now \in Nat /\ outside \in Int /\ withdrew \in BOOLEAN

\* buy_tokens and withdraw_funds take any mint from the caller and check only
\* that its vault exists.  That is enough: the single vault that ever exists
\* is the one of ico_config.token_mint.
OneVault ==
  \A m \in Mints :
    vault[m].exists <=> ico_config.exists /\ ico_config.token_mint = m

\* However purchases, phase changes, withdrawals and re-openings interleave,
\* the program never sells more than initialize_ico put up for sale.
NeverOversold == ico_config.tokens_sold <= ico_config.total_tokens_for_sale

\* The vault's exact contents: what is unsold, plus what was sent to it
\* directly, less what withdraw_funds took out.
VaultLedger ==
  \A m \in Mints :
    vault[m].exists => vault[m].amount = Unsold + outside

\* Until the first withdrawal the vault can pay out every token that
\* buy_tokens still counts as remaining.
VaultBacksUnsold ==
  \A m \in Mints :
    vault[m].exists /\ ~withdrew => vault[m].amount >= Unsold

\* The buyers' purchase records add up to the counters of the sale.
SoldMatchesRecords ==
  /\ ico_config.tokens_sold =
       SumFunction([u \in Users |-> record[u].total_tokens_purchased])
  /\ ico_config.sol_raised =
       SumFunction([u \in Users |-> record[u].total_sol_spent])

\* Every token of a mint is in a wallet or in the vault: no instruction
\* creates or destroys any.
TokensConserved ==
  \A m \in Mints :
    mint[m].supply = SumFunction(balance[m]) + vault[m].amount

\* The SOL of each wallet is explained by its purchase record, and the
\* treasury received exactly sol_raised, also when it buys from itself.
SolLedger ==
  \A u \in Users :
    lamports[u] = InitialLamports - record[u].total_sol_spent
                  + (IF u = ico_config.treasury THEN ico_config.sol_raised ELSE 0)

\* Over a whole sale, with changing phases and truncating divisions, nobody
\* gets more for their SOL than the best rate, the seed round's.
SeedRateIsTheBest ==
  \A u \in Users :
    record[u].total_tokens_purchased * LAMPORTS_PER_SOL
      <= record[u].total_sol_spent * SEED_ROUND_RATE

\* Tokens leave the vault in two ways only: in an active phase to a buyer, who
\* gets in his account what the sale counts and his record says; or all at once
\* to the authority, after the end.
VaultOutflow ==
  [][\A m \in Mints : vault'[m].amount < vault[m].amount =>
       \/ LET sold == vault[m].amount - vault'[m].amount
          IN  /\ Active
              /\ ico_config'.tokens_sold = ico_config.tokens_sold + sold
              /\ \E b \in Users :
                   /\ balance'[m][b] = balance[m][b] + sold
                   /\ record'[b].total_tokens_purchased
                        = record[b].total_tokens_purchased + sold
       \/ /\ ico_config.phase = "Ended"
          /\ vault'[m].amount = 0
          /\ balance'[m][ico_config.authority]
               = balance[m][ico_config.authority] + vault[m].amount]_vars

----------------------------------------------------------------------------
(* What makes the invariants above inductive                               *)

NoSaleYet ==
  ~ico_config.exists =>
    /\ outside = 0
    /\ ico_config.phase = "NotStarted" /\ ico_config.treasury = NoKey
    /\ ico_config.total_tokens_for_sale = 0
    /\ ico_config.tokens_sold = 0 /\ ico_config.sol_raised = 0
    /\ \A u \in Users :
         record[u].total_sol_spent = 0 /\ record[u].total_tokens_purchased = 0

EmptyWithoutVault == \A m \in Mints : ~vault[m].exists => vault[m].amount = 0

OnlyAddedUntilWithdrawal == ~withdrew => outside >= 0

Ledgers ==
  /\ OneVault /\ NoSaleYet /\ EmptyWithoutVault
  /\ OnlyAddedUntilWithdrawal /\ NeverOversold /\ VaultLedger
  /\ SolLedger /\ SeedRateIsTheBest

IInv == TypeOK /\ Ledgers

NoSupplyWithoutMint == \A m \in Mints : ~mint[m].exists => mint[m].supply = 0

\* The ledgers that are sums over all wallets.
SumLedgers == SoldMatchesRecords /\ NoSupplyWithoutMint /\ TokensConserved

----------------------------------------------------------------------------
\* When the smallest purchase at the lowest rate overflows u64, as it does
\* with the values of constants.rs, buy_tokens never sells anything.
NothingSoldIfOverflow ==
  MIN_PURCHASE * PUBLIC_SALE_RATE > U64_MAX =>
    ico_config.tokens_sold = 0 /\ ico_config.sol_raised = 0

\* What the vault of the sale holds.
Stock == IF ico_config.exists THEN vault[ico_config.token_mint].amount ELSE 0

\* The program does what TokenSale promises to buyers and to the seller.
Sale == INSTANCE TokenSale WITH
          funded <- ico_config.exists,
          open   <- Active,
          unsold <- Unsold,
          stock  <- Stock,
          bought <- [u \in Users |-> record[u].total_tokens_purchased],
          paid   <- [u \in Users |-> record[u].total_sol_spent],
          raised <- ico_config.sol_raised,
          PerSol <- LAMPORTS_PER_SOL,
          BestRate <- SEED_ROUND_RATE, WorstRate <- PUBLIC_SALE_RATE

SaleSpec == Sale!Spec

----------------------------------------------------------------------------
(* What documents and comments of the program say and the code does not do *)

\* README.md:58-61: "Purchase Limits", a minimum and a maximum.  A purchase
\* within them, while the sale is active, is not rejected for overflow.
WithinLimitsNeverOverflows ==
  \A sol \in SolAmounts :
    Active /\ sol \in MIN_PURCHASE..MAX_PURCHASE =>
      sol * TokenRate(ico_config.phase) <= U64_MAX

\* lib.rs:24 "Initialize the ICO with token allocation and timing", state.rs:36
\* "End timestamp": purchases are accepted between the two timestamps only.
SoldOnlyInTheWindow ==
  \A b \in Users, m \in Mints, t \in Users, sol \in SolAmounts :
    BuyAccepted(b, m, t, sol) =>
      now \in ico_config.start_time..ico_config.end_time

============================================================================
