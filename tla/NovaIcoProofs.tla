---------------------------- MODULE NovaIcoProofs ---------------------------
(***************************************************************************)
(* Theorems about NovaIco, for all values of its constants.                *)
(***************************************************************************)
EXTENDS NovaIco, SumProofs, TLAPS

USE DEF accounts, history

----------------------------------------------------------------------------
(* Arithmetic                                                              *)

\* checked_div truncates: what is bought is never worth more than was paid, and
\* one more token would be.
LEMMA FloorDivision ==
  ASSUME NEW a \in Nat, NEW b \in Nat \ {0}
  PROVE  /\ a \div b \in Nat
         /\ (a \div b) * b <= a
         /\ (a \div b + 1) * b > a
  OBVIOUS

\* Products of natural numbers grow with their factors.
LEMMA ProductGrows ==
  ASSUME NEW a \in Nat, NEW b \in Nat, NEW c \in Nat, NEW d \in Nat,
         a <= b, c <= d
  PROVE  /\ a * c \in Nat /\ b * d \in Nat
         /\ a * c <= b * d
  OBVIOUS

\* get_token_rate returns 0 or one of the three rates, of which the seed
\* round's is the highest and the public sale's the lowest.
LEMMA Rates ==
  ASSUME NEW phase \in IcoPhase
  PROVE  /\ TokenRate(phase) \in Nat
         /\ TokenRate(phase) <= SEED_ROUND_RATE
         /\ phase \notin {"NotStarted", "Ended"} =>
              TokenRate(phase) >= PUBLIC_SALE_RATE
  BY ArithmeticAssumption, RatesAssumption DEF TokenRate, IcoPhase

\* The number of tokens is a natural number, within the best rate.
LEMMA Tokens ==
  ASSUME NEW phase \in IcoPhase, NEW sol \in Nat
  PROVE  /\ TokensFor(phase, sol) \in Nat
         /\ TokensFor(phase, sol) * LAMPORTS_PER_SOL <= sol * SEED_ROUND_RATE
  <1>1. /\ TokenRate(phase) \in Nat /\ SEED_ROUND_RATE \in Nat
        /\ TokenRate(phase) <= SEED_ROUND_RATE
        /\ LAMPORTS_PER_SOL \in Nat \ {0}
    BY Rates, ArithmeticAssumption
  <1>2. /\ sol * TokenRate(phase) \in Nat
        /\ sol * TokenRate(phase) <= sol * SEED_ROUND_RATE
    BY <1>1, ProductGrows
  <1>3. /\ TokensFor(phase, sol) \in Nat
        /\ TokensFor(phase, sol) * LAMPORTS_PER_SOL <= sol * TokenRate(phase)
    BY <1>1, <1>2, FloorDivision DEF TokensFor
  <1>. QED
    BY <1>1, <1>2, <1>3, ProductGrows

\* In an active phase nobody gets less than the public sale's rate, but for a
\* fraction of a token: also who is served in another phase than the one asked in.
LEMMA LowestRate ==
  ASSUME NEW phase \in IcoPhase \ {"NotStarted", "Ended"}, NEW sol \in Nat
  PROVE  (TokensFor(phase, sol) + 1) * LAMPORTS_PER_SOL > sol * PUBLIC_SALE_RATE
  <1>1. /\ TokenRate(phase) \in Nat /\ PUBLIC_SALE_RATE \in Nat
        /\ PUBLIC_SALE_RATE <= TokenRate(phase)
        /\ LAMPORTS_PER_SOL \in Nat \ {0}
    BY Rates, ArithmeticAssumption
  <1>2. /\ sol * TokenRate(phase) \in Nat /\ sol * PUBLIC_SALE_RATE \in Nat
        /\ sol * PUBLIC_SALE_RATE <= sol * TokenRate(phase)
    BY <1>1, ProductGrows
  <1>3. TokensFor(phase, sol) \in Nat
    BY <1>1, <1>2, FloorDivision DEF TokensFor
  <1>4. (TokensFor(phase, sol) + 1) * LAMPORTS_PER_SOL > sol * TokenRate(phase)
    BY <1>1, <1>2, FloorDivision DEF TokensFor
  <1>5. (TokensFor(phase, sol) + 1) * LAMPORTS_PER_SOL \in Nat
    BY <1>1, <1>3, ProductGrows
  <1>. QED
    BY <1>2, <1>4, <1>5

----------------------------------------------------------------------------
(* Types                                                                   *)

\* Before any transaction, every account has its type.
LEMMA TypeOKInit == Init => TypeOK
  <1>. SUFFICES ASSUME Init PROVE TypeOK
    OBVIOUS
  <1>1. mint \in [Mints -> Mint]
    BY DEF Init, Mint
  <1>2. vault \in [Mints -> TokenVault] /\ record \in [Users -> PurchaseRecord]
    BY DEF Init, TokenVault, PurchaseRecord
  <1>3. ico_config \in IcoConfig
    BY DEF Init, IcoConfig, IcoPhase
  <1>4. balance \in [Mints -> [Users -> Nat]] /\ lamports \in [Users -> Nat]
    <2>1. balance = [m \in Mints |-> [u \in Users |-> 0]]
      BY DEF Init
    <2>2. lamports = [u \in Users |-> InitialLamports] /\ InitialLamports \in Nat
      BY ArithmeticAssumption DEF Init
    <2>. QED
      BY <2>1, <2>2
  <1>5. now = 0 /\ outside = 0 /\ withdrew = FALSE
    BY Zenon DEF Init
  <1>6. now \in Nat /\ outside \in Int
    BY <1>5
  <1>7. withdrew \in BOOLEAN
    BY <1>5
  <1>. QED
    BY <1>1, <1>2, <1>3, <1>4, <1>6, <1>7 DEF TypeOK

\* A purchase that passes its checks leaves no account overdrawn.
LEMMA BuyTokensTypeOK ==
  ASSUME TypeOK,
         NEW b \in Users, NEW m \in Mints, NEW t \in Users, NEW sol \in SolAmounts,
         BuyTokens(b, m, t, sol)
  PROVE  TypeOK'
  <1>. DEFINE tokens == TokensFor(ico_config.phase, sol)
  <1>1. sol \in Nat /\ ico_config \in IcoConfig /\ ico_config.phase \in IcoPhase
    BY InputsAssumption, ArithmeticAssumption DEF TypeOK, IcoConfig
  <1>2. tokens \in Nat
    BY <1>1, Tokens
  <1>. HIDE DEF tokens
  <1>3. sol <= lamports[b] /\ tokens <= vault[m].amount
    BY DEF BuyTokens, BuyAccepted, SettlementChecks, tokens
  <1>4. lamports' \in [Users -> Nat]
    BY <1>1, <1>3 DEF BuyTokens, PaySol, TypeOK
  <1>5. vault' \in [Mints -> TokenVault]
    <2>1. vault' = [vault EXCEPT ![m].amount = @ - tokens]
      BY DEF BuyTokens, tokens
    <2>2. vault[m].amount - tokens \in Nat
      BY <1>2, <1>3 DEF TypeOK, TokenVault
    <2>. QED
      BY <2>1, <2>2 DEF TypeOK, TokenVault
  <1>6. balance' \in [Mints -> [Users -> Nat]]
    BY <1>2 DEF BuyTokens, TypeOK, tokens
  <1>7. ico_config' \in IcoConfig
    <2>1. CountSale(sol, tokens)
      BY DEF BuyTokens, tokens
    <2>2. /\ ico_config.tokens_sold + tokens \in Nat
          /\ ico_config.sol_raised + sol \in Nat
      BY <1>1, <1>2 DEF IcoConfig
    <2>. QED
      BY <1>1, <2>1, <2>2 DEF CountSale, IcoConfig
  <1>8. record' \in [Users -> PurchaseRecord]
    BY <1>1, <1>2 DEF BuyTokens, RecordPurchase, TypeOK, PurchaseRecord, tokens
  <1>. QED
    BY <1>4, <1>5, <1>6, <1>7, <1>8 DEF BuyTokens, TypeOK

\* No step of the program or of the chain leaves the types.
LEMMA TypeOKStep == TypeOK /\ [Next]_vars => TypeOK'
  <1>. SUFFICES ASSUME TypeOK, [Next]_vars PROVE TypeOK'
    OBVIOUS
  <1>. USE ArithmeticAssumption, InputsAssumption
  <1>1. ASSUME NEW u \in Users, NEW m \in Mints, Initialize(u, m) PROVE TypeOK'
    <2>1. NewMint(u, TOKEN_DECIMALS) \in Mint
      BY DEF NewMint, Mint
    <2>. QED
      BY <1>1, <2>1 DEF Initialize, TypeOK
  <1>2. ASSUME NEW u \in Users, NEW m \in Mints, NEW t \in Users,
               NEW n \in TokenAmounts, NEW start \in Times, NEW end \in Times,
               InitializeIco(u, m, t, n, start, end)
        PROVE  TypeOK'
    <2>1. n \in Nat /\ start \in Nat /\ end \in Nat /\ n <= balance[m][u]
      <3>1. n <= balance[m][u]
        BY <1>2 DEF InitializeIco, InitializeIcoChecks
      <3>. QED
        BY <3>1
    <2>2. ico_config' \in IcoConfig
      <3>1. ico_config' = NewIcoConfig(u, m, t, n, start, end)
        BY <1>2 DEF InitializeIco
      <3>. QED
        BY <2>1, <3>1 DEF NewIcoConfig, IcoConfig, IcoPhase
    <2>3. vault' \in [Mints -> TokenVault]
      BY <1>2, <2>1 DEF InitializeIco, FundVault, TypeOK, TokenVault
    <2>4. balance' \in [Mints -> [Users -> Nat]]
      BY <1>2, <2>1 DEF InitializeIco, FundVault, TypeOK
    <2>. QED
      BY <1>2, <2>2, <2>3, <2>4 DEF InitializeIco, TypeOK
  <1>3. ASSUME NEW b \in Users, NEW m \in Mints, NEW t \in Users,
               NEW sol \in SolAmounts, BuyTokens(b, m, t, sol)
        PROVE  TypeOK'
    BY <1>3, BuyTokensTypeOK
  <1>4. ASSUME NEW u \in Users, NEW code \in PhaseCodes, SetPhase(u, code)
        PROVE  TypeOK'
    <2>1. PhaseOf[code + 1] \in IcoPhase
      BY <1>4 DEF SetPhase, SetPhaseChecks, PhaseOf, PhaseCodes, IcoPhase
    <2>2. ico_config' \in IcoConfig
      BY <1>4, <2>1 DEF SetPhase, TypeOK, IcoConfig
    <2>. QED
      BY <1>4, <2>2 DEF SetPhase, TypeOK
  <1>5. ASSUME NEW u \in Users, NEW m \in Mints, WithdrawFunds(u, m) PROVE TypeOK'
    <2>1. vault[m].amount \in Nat
      BY DEF TypeOK, TokenVault
    <2>2. vault' \in [Mints -> TokenVault]
      BY <1>5 DEF WithdrawFunds, TypeOK, TokenVault
    <2>3. balance' \in [Mints -> [Users -> Nat]]
      BY <1>5, <2>1 DEF WithdrawFunds, TypeOK
    <2>. QED
      BY <1>5, <2>1, <2>2, <2>3 DEF WithdrawFunds, TypeOK
  <1>6. ASSUME NEW u \in Users, NEW m \in Mints, NEW d \in OtherDecimals,
               CreateMint(u, m, d)
        PROVE  TypeOK'
    <2>1. NewMint(u, d) \in Mint
      BY DEF NewMint, Mint
    <2>. QED
      BY <1>6, <2>1 DEF CreateMint, TypeOK
  <1>7. ASSUME NEW a \in Users, NEW u \in Users, NEW m \in Mints,
               NEW n \in TokenAmounts, MintTo(a, m, u, n)
        PROVE  TypeOK'
    <2>1. mint' = [mint EXCEPT ![m].supply = @ + n] /\ n \in Nat
      BY <1>7 DEF MintTo
    <2>2. mint' \in [Mints -> Mint]
      <3>1. mint[m].supply + n \in Nat
        BY <2>1 DEF TypeOK, Mint
      <3>. QED
        BY <2>1, <3>1 DEF TypeOK, Mint
    <2>3. balance' \in [Mints -> [Users -> Nat]]
      BY <1>7, <2>1 DEF MintTo, TypeOK
    <2>. QED
      BY <1>7, <2>2, <2>3 DEF MintTo, TypeOK
  <1>8. ASSUME NEW u \in Users, NEW m \in Mints, NEW n \in TokenAmounts,
               Donate(u, m, n)
        PROVE  TypeOK'
    BY <1>8 DEF Donate, TypeOK, TokenVault
  <1>9. CASE Tick
    BY <1>9 DEF Tick, TypeOK
  <1>10. CASE UNCHANGED vars
    BY <1>10 DEF vars, TypeOK
  <1>. QED
    BY <1>1, <1>2, <1>3, <1>4, <1>5, <1>6, <1>7, <1>8, <1>9, <1>10
    DEF Next, Instruction, Environment

\* Every account always holds values of its type; in particular no transfer
\* ever takes more than its source holds.
THEOREM TypeCorrect == Spec => []TypeOK
  BY TypeOKInit, TypeOKStep, PTL DEF Spec

----------------------------------------------------------------------------
(* The inductive invariant.  The environment's steps and set_phase leave   *)
(* most of it alone, initialize_ico establishes it, and buy_tokens and     *)
(* withdraw_funds are the two that have to keep the ledgers in balance.    *)

\* The ledgers balance before there is a sale.
LEMMA LedgersInit == Init => Ledgers
  <1>. SUFFICES ASSUME Init PROVE Ledgers
    OBVIOUS
  <1>. USE ArithmeticAssumption, KeysAssumption
  <1>1. OneVault /\ EmptyWithoutVault
    BY DEF Init, OneVault, EmptyWithoutVault
  <1>2. NoSaleYet /\ NeverOversold
    BY DEF Init, NoSaleYet, NeverOversold
  <1>3. VaultLedger
    BY DEF Init, VaultLedger
  <1>4. OnlyAddedUntilWithdrawal
    BY DEF Init, OnlyAddedUntilWithdrawal
  <1>5. SolLedger /\ SeedRateIsTheBest
    BY DEF Init, SolLedger, SeedRateIsTheBest
  <1>. QED
    BY <1>1, <1>2, <1>3, <1>4, <1>5 DEF Ledgers

\* initialize_ico funds the vault with exactly what it puts up for sale.
LEMMA InitializeIcoLedgers ==
  ASSUME TypeOK, TypeOK', Ledgers,
         NEW a \in Users, NEW m \in Mints, NEW t \in Users,
         NEW n \in TokenAmounts, NEW start \in Times, NEW end \in Times,
         InitializeIco(a, m, t, n, start, end)
  PROVE  Ledgers'
  <1>1. /\ ~ico_config.exists /\ n \in Nat
        /\ vault' = [vault EXCEPT ![m] = [exists |-> TRUE, amount |-> n]]
        /\ UNCHANGED <<lamports, record, outside, withdrew>>
    BY InputsAssumption DEF InitializeIco, InitializeIcoChecks, FundVault
  <1>2. /\ ico_config'.exists /\ ico_config'.token_mint = m
        /\ ico_config'.treasury = t /\ ico_config'.total_tokens_for_sale = n
        /\ ico_config'.tokens_sold = 0 /\ ico_config'.sol_raised = 0
    BY DEF InitializeIco, NewIcoConfig
  <1>3. NoSaleYet /\ outside = 0 /\ \A k \in Mints : ~vault[k].exists
    BY <1>1 DEF Ledgers, NoSaleYet, OneVault
  <1>4. /\ vault'[m].exists /\ vault'[m].amount = n
        /\ \A k \in Mints : k # m => vault'[k] = vault[k]
    BY <1>1 DEF TypeOK
  <1>5. OneVault'
    BY <1>2, <1>3, <1>4 DEF OneVault
  <1>6. NoSaleYet' /\ NeverOversold'
    BY <1>1, <1>2 DEF NoSaleYet, NeverOversold
  <1>7. EmptyWithoutVault'
    BY <1>4 DEF Ledgers, EmptyWithoutVault
  <1>8. OnlyAddedUntilWithdrawal'
    BY <1>1 DEF Ledgers, OnlyAddedUntilWithdrawal
  <1>9. VaultLedger'
    BY <1>1, <1>2, <1>3, <1>4 DEF VaultLedger, Unsold
  <1>10. SolLedger'
    BY <1>1, <1>2, <1>3, KeysAssumption, ArithmeticAssumption
    DEF Ledgers, SolLedger, NoSaleYet, TypeOK, PurchaseRecord
  <1>11. SeedRateIsTheBest'
    BY <1>1 DEF Ledgers, SeedRateIsTheBest
  <1>. QED
    BY <1>5, <1>6, <1>7, <1>8, <1>9, <1>10, <1>11 DEF Ledgers

\* set_phase, to whatever phase, does not touch the ledgers.
LEMMA SetPhaseLedgers ==
  ASSUME TypeOK, TypeOK', Ledgers,
         NEW a \in Users, NEW code \in PhaseCodes, SetPhase(a, code)
  PROVE  Ledgers'
  <1>1. /\ ico_config.exists
        /\ ico_config' = [ico_config EXCEPT !.phase = PhaseOf[code + 1]]
        /\ UNCHANGED <<vault, lamports, record, outside, withdrew>>
    BY DEF SetPhase, SetPhaseChecks
  <1>2. /\ ico_config'.exists = ico_config.exists
        /\ ico_config'.token_mint = ico_config.token_mint
        /\ ico_config'.treasury = ico_config.treasury
        /\ ico_config'.total_tokens_for_sale = ico_config.total_tokens_for_sale
        /\ ico_config'.tokens_sold = ico_config.tokens_sold
        /\ ico_config'.sol_raised = ico_config.sol_raised
    BY <1>1 DEF TypeOK, IcoConfig
  <1>. QED
    BY <1>1, <1>2 DEF Ledgers, OneVault, NoSaleYet, EmptyWithoutVault,
       OnlyAddedUntilWithdrawal, NeverOversold, VaultLedger, Unsold, SolLedger,
       SeedRateIsTheBest

\* What withdraw_funds takes out is accounted for in `outside`.
LEMMA WithdrawFundsLedgers ==
  ASSUME TypeOK, TypeOK', Ledgers,
         NEW a \in Users, NEW m \in Mints, WithdrawFunds(a, m)
  PROVE  Ledgers'
  <1>1. /\ ico_config.exists /\ vault[m].exists
        /\ vault' = [vault EXCEPT ![m].amount = 0]
        /\ outside' = outside - vault[m].amount
        /\ withdrew' = (withdrew \/ vault[m].amount > 0)
        /\ UNCHANGED <<lamports, ico_config, record>>
    BY DEF WithdrawFunds, WithdrawChecks
  <1>2. /\ vault[m].amount \in Nat
        /\ vault'[m].exists = vault[m].exists /\ vault'[m].amount = 0
        /\ \A k \in Mints : k # m => vault'[k] = vault[k]
    BY <1>1 DEF TypeOK, TokenVault
  <1>3. \A k \in Mints : vault[k].exists => k = m
    BY <1>1 DEF Ledgers, OneVault
  <1>4. OneVault'
    BY <1>1, <1>2 DEF Ledgers, OneVault
  <1>5. NoSaleYet' /\ NeverOversold' /\ SolLedger' /\ SeedRateIsTheBest'
    BY <1>1 DEF Ledgers, NoSaleYet, NeverOversold, SolLedger, SeedRateIsTheBest
  <1>6. EmptyWithoutVault'
    BY <1>2 DEF Ledgers, EmptyWithoutVault
  <1>7. OnlyAddedUntilWithdrawal'
    <2>1. CASE vault[m].amount = 0
      <3>1. outside' = outside
        BY <1>1, <2>1 DEF TypeOK
      <3>2. withdrew' <=> withdrew
        BY <1>1, <2>1 DEF TypeOK
      <3>. QED
        BY <3>1, <3>2 DEF Ledgers, OnlyAddedUntilWithdrawal
    <2>2. CASE vault[m].amount > 0
      BY <1>1, <2>2 DEF OnlyAddedUntilWithdrawal
    <2>. QED
      BY <1>2, <2>1, <2>2
  <1>8. VaultLedger'
    <2>1. vault[m].amount = Unsold + outside
      BY <1>1 DEF Ledgers, VaultLedger
    <2>2. Unsold \in Int /\ Unsold' = Unsold
      BY <1>1 DEF Unsold, TypeOK, IcoConfig
    <2>3. Unsold' + outside' = 0
      BY <1>1, <1>2, <2>1, <2>2 DEF TypeOK
    <2>4. \A k \in Mints : vault'[k].exists => k = m
      BY <1>2, <1>3
    <2>. QED
      BY <1>2, <2>3, <2>4 DEF VaultLedger
  <1>. QED
    BY <1>4, <1>5, <1>6, <1>7, <1>8 DEF Ledgers

\* Steps of the environment change mints, wallets' tokens and the clock only.
LEMMA OtherStepsLedgers ==
  ASSUME Ledgers, UNCHANGED <<vault, lamports, ico_config, record, outside, withdrew>>
  PROVE  Ledgers'
  BY DEF Ledgers, OneVault, NoSaleYet, EmptyWithoutVault, OnlyAddedUntilWithdrawal,
     NeverOversold, VaultLedger, Unsold, SolLedger, SeedRateIsTheBest

\* So is what is sent to the vault directly.
LEMMA DonateLedgers ==
  ASSUME TypeOK, TypeOK', Ledgers,
         NEW u \in Users, NEW m \in Mints, NEW n \in TokenAmounts, Donate(u, m, n)
  PROVE  Ledgers'
  <1>1. /\ vault[m].exists /\ n \in Nat
        /\ vault' = [vault EXCEPT ![m].amount = @ + n]
        /\ outside' = outside + n
        /\ UNCHANGED <<lamports, ico_config, record, withdrew>>
    BY InputsAssumption DEF Donate
  <1>2. /\ vault[m].amount \in Nat
        /\ vault'[m].exists = vault[m].exists
        /\ vault'[m].amount = vault[m].amount + n
        /\ \A k \in Mints : k # m => vault'[k] = vault[k]
    BY <1>1 DEF TypeOK, TokenVault
  <1>3. ico_config.exists /\ \A k \in Mints : vault[k].exists => k = m
    BY <1>1 DEF Ledgers, OneVault
  <1>4. OneVault' /\ EmptyWithoutVault'
    BY <1>1, <1>2 DEF Ledgers, OneVault, EmptyWithoutVault
  <1>5. NoSaleYet' /\ NeverOversold' /\ SolLedger' /\ SeedRateIsTheBest'
    BY <1>1, <1>3 DEF Ledgers, NoSaleYet, NeverOversold, SolLedger, SeedRateIsTheBest
  <1>6. OnlyAddedUntilWithdrawal'
    BY <1>1 DEF Ledgers, OnlyAddedUntilWithdrawal, TypeOK
  <1>7. VaultLedger'
    <2>1. vault[m].amount = Unsold + outside
      BY <1>1 DEF Ledgers, VaultLedger
    <2>2. Unsold \in Int /\ Unsold' = Unsold
      BY <1>1 DEF Unsold, TypeOK, IcoConfig
    <2>3. vault'[m].amount = Unsold' + outside'
      BY <1>1, <1>2, <2>1, <2>2 DEF TypeOK
    <2>. QED
      BY <1>2, <1>3, <2>3 DEF VaultLedger
  <1>. QED
    BY <1>4, <1>5, <1>6, <1>7 DEF Ledgers

\* A purchase changes the vault, the counters, the record and the wallets by
\* the same two amounts.
LEMMA BuyTokensLedgers ==
  ASSUME TypeOK, TypeOK', Ledgers,
         NEW b \in Users, NEW m \in Mints, NEW t \in Users, NEW sol \in SolAmounts,
         BuyTokens(b, m, t, sol)
  PROVE  Ledgers'
  <1>. DEFINE tokens == TokensFor(ico_config.phase, sol)
  <1>1. /\ sol \in Nat /\ ico_config.phase \in IcoPhase
        /\ tokens \in Nat /\ tokens * LAMPORTS_PER_SOL <= sol * SEED_ROUND_RATE
    BY InputsAssumption, ArithmeticAssumption, Tokens DEF TypeOK, IcoConfig
  <1>. HIDE DEF tokens
  <1>2. /\ ico_config.exists /\ vault[m].exists /\ t = ico_config.treasury
        /\ tokens <= Unsold /\ sol <= lamports[b] /\ tokens <= vault[m].amount
    BY DEF BuyTokens, BuyAccepted, Offered, BuyAccountChecks, RemainingChecks,
       SettlementChecks, tokens
  <1>3. /\ PaySol(b, t, sol)
        /\ vault' = [vault EXCEPT ![m].amount = @ - tokens]
        /\ CountSale(sol, tokens) /\ RecordPurchase(b, sol, tokens)
        /\ UNCHANGED <<outside, withdrew>>
    BY DEF BuyTokens, tokens
  <1>4. /\ ico_config'.exists = ico_config.exists
        /\ ico_config'.token_mint = ico_config.token_mint
        /\ ico_config'.treasury = ico_config.treasury
        /\ ico_config'.total_tokens_for_sale = ico_config.total_tokens_for_sale
        /\ ico_config'.tokens_sold = ico_config.tokens_sold + tokens
        /\ ico_config'.sol_raised = ico_config.sol_raised + sol
    BY <1>3 DEF CountSale, TypeOK, IcoConfig
  <1>5. /\ vault[m].amount \in Nat
        /\ vault'[m].exists = vault[m].exists
        /\ vault'[m].amount = vault[m].amount - tokens
        /\ \A k \in Mints : k # m => vault'[k] = vault[k]
    BY <1>3 DEF TypeOK, TokenVault
  <1>6. /\ record[b].total_sol_spent \in Nat
        /\ record[b].total_tokens_purchased \in Nat
        /\ record'[b].total_sol_spent = record[b].total_sol_spent + sol
        /\ record'[b].total_tokens_purchased = record[b].total_tokens_purchased + tokens
        /\ \A u \in Users : u # b => record'[u] = record[u]
    BY <1>3 DEF RecordPurchase, TypeOK, PurchaseRecord
  <1>7. OneVault' /\ EmptyWithoutVault'
    BY <1>2, <1>4, <1>5 DEF Ledgers, OneVault, EmptyWithoutVault
  <1>8. NoSaleYet'
    BY <1>2, <1>4 DEF NoSaleYet
  <1>9. OnlyAddedUntilWithdrawal'
    BY <1>3 DEF Ledgers, OnlyAddedUntilWithdrawal
  <1>10. NeverOversold'
    BY <1>1, <1>2, <1>4 DEF Ledgers, NeverOversold, Unsold, TypeOK, IcoConfig
  <1>11. VaultLedger'
    <2>1. vault[m].amount = Unsold + outside
      BY <1>2 DEF Ledgers, VaultLedger
    <2>2. Unsold \in Int /\ Unsold' = Unsold - tokens
      BY <1>1, <1>4 DEF Unsold, TypeOK, IcoConfig
    <2>3. vault'[m].amount = Unsold' + outside'
      BY <1>1, <1>3, <1>5, <2>1, <2>2 DEF TypeOK
    <2>4. \A k \in Mints : vault'[k].exists => k = m
      BY <1>2, <1>5 DEF Ledgers, OneVault
    <2>. QED
      BY <2>3, <2>4 DEF VaultLedger
  <1>12. SolLedger'
    <2>. DEFINE received(c, u) == IF u = c.treasury THEN c.sol_raised ELSE 0
    <2>1. ASSUME NEW u \in Users
          PROVE  /\ lamports[u] \in Nat /\ received(ico_config, u) \in Nat
                 /\ record[u].total_sol_spent \in Nat
                 /\ lamports[u] = InitialLamports - record[u].total_sol_spent
                                  + received(ico_config, u)
      BY DEF Ledgers, SolLedger, TypeOK, PurchaseRecord, IcoConfig
    <2>2. ASSUME NEW u \in Users
          PROVE  received(ico_config', u)
                   = received(ico_config, u) + (IF u = t THEN sol ELSE 0)
      BY <1>1, <1>2, <1>4 DEF TypeOK, IcoConfig
    <2>3. ASSUME NEW u \in Users
          PROVE  record'[u].total_sol_spent
                   = record[u].total_sol_spent + (IF u = b THEN sol ELSE 0)
      BY <1>1, <1>6, <2>1
    <2>4. ASSUME NEW u \in Users
          PROVE  lamports'[u] = lamports[u] - (IF u = b THEN sol ELSE 0)
                                            + (IF u = t THEN sol ELSE 0)
      BY <1>3 DEF PaySol
    <2>5. ASSUME NEW u \in Users
          PROVE  lamports'[u] = InitialLamports - record'[u].total_sol_spent
                                + received(ico_config', u)
      <3>. HIDE DEF received
      <3>. QED
        BY <1>1, <2>1, <2>2, <2>3, <2>4, ArithmeticAssumption
    <2>. QED
      BY <2>5 DEF SolLedger
  <1>13. SeedRateIsTheBest'
    <2>1. record[b].total_tokens_purchased * LAMPORTS_PER_SOL
            <= record[b].total_sol_spent * SEED_ROUND_RATE
      BY DEF Ledgers, SeedRateIsTheBest
    <2>2. record'[b].total_tokens_purchased * LAMPORTS_PER_SOL
            <= record'[b].total_sol_spent * SEED_ROUND_RATE
      BY <1>1, <1>6, <2>1, ArithmeticAssumption
    <2>. QED
      BY <1>6, <2>2 DEF Ledgers, SeedRateIsTheBest
  <1>. QED
    BY <1>7, <1>8, <1>9, <1>10, <1>11, <1>12, <1>13 DEF Ledgers

\* Every step keeps the ledgers balanced.
LEMMA LedgersStep == TypeOK /\ TypeOK' /\ Ledgers /\ [Next]_vars => Ledgers'
  <1>. SUFFICES ASSUME TypeOK, TypeOK', Ledgers, [Next]_vars PROVE Ledgers'
    OBVIOUS
  <1>1. ASSUME NEW u \in Users, NEW m \in Mints, Initialize(u, m) PROVE Ledgers'
    BY <1>1, OtherStepsLedgers DEF Initialize
  <1>2. ASSUME NEW u \in Users, NEW m \in Mints, NEW t \in Users,
               NEW n \in TokenAmounts, NEW start \in Times, NEW end \in Times,
               InitializeIco(u, m, t, n, start, end)
        PROVE  Ledgers'
    BY <1>2, InitializeIcoLedgers
  <1>3. ASSUME NEW b \in Users, NEW m \in Mints, NEW t \in Users,
               NEW sol \in SolAmounts, BuyTokens(b, m, t, sol)
        PROVE  Ledgers'
    BY <1>3, BuyTokensLedgers
  <1>4. ASSUME NEW u \in Users, NEW code \in PhaseCodes, SetPhase(u, code)
        PROVE  Ledgers'
    BY <1>4, SetPhaseLedgers
  <1>5. ASSUME NEW u \in Users, NEW m \in Mints, WithdrawFunds(u, m) PROVE Ledgers'
    BY <1>5, WithdrawFundsLedgers
  <1>6. ASSUME NEW u \in Users, NEW m \in Mints, NEW d \in OtherDecimals,
               CreateMint(u, m, d)
        PROVE  Ledgers'
    BY <1>6, OtherStepsLedgers DEF CreateMint
  <1>7. ASSUME NEW a \in Users, NEW u \in Users, NEW m \in Mints,
               NEW n \in TokenAmounts, MintTo(a, m, u, n)
        PROVE  Ledgers'
    BY <1>7, OtherStepsLedgers DEF MintTo
  <1>8. ASSUME NEW u \in Users, NEW m \in Mints, NEW n \in TokenAmounts,
               Donate(u, m, n)
        PROVE  Ledgers'
    BY <1>8, DonateLedgers
  <1>9. CASE Tick
    BY <1>9, OtherStepsLedgers DEF Tick
  <1>10. CASE UNCHANGED vars
    BY <1>10, OtherStepsLedgers DEF vars
  <1>. QED
    BY <1>1, <1>2, <1>3, <1>4, <1>5, <1>6, <1>7, <1>8, <1>9, <1>10
    DEF Next, Instruction, Environment

\* The inductive invariant holds in every reachable state.
THEOREM Invariance == Spec => []IInv
  <1>1. Init => IInv
    BY TypeOKInit, LedgersInit DEF IInv
  <1>2. IInv /\ [Next]_vars => IInv'
    BY TypeOKStep, LedgersStep DEF IInv
  <1>. QED
    BY <1>1, <1>2, PTL DEF Spec

----------------------------------------------------------------------------
(* Sums over all wallets                                                   *)

\* What is added to one wallet's account for one mint is added to the sum of
\* that mint's accounts, and to no other sum.
LEMMA BalanceSum ==
  ASSUME TypeOK, TypeOK', NEW m \in Mints, NEW u \in Users, NEW d \in Int,
         \A k \in Mints, v \in Users :
           balance'[k][v] = balance[k][v] + (IF k = m /\ v = u THEN d ELSE 0)
  PROVE  \A k \in Mints :
           SumFunction(balance'[k]) = SumFunction(balance[k]) + (IF k = m THEN d ELSE 0)
  <1> SUFFICES ASSUME NEW k \in Mints
               PROVE  SumFunction(balance'[k])
                        = SumFunction(balance[k]) + (IF k = m THEN d ELSE 0)
    OBVIOUS
  <1> DEFINE before == balance[k]
             after == balance'[k]
  <1>1. before \in [Users -> Int] /\ after \in [Users -> Int]
    BY DEF TypeOK
  <1>2. /\ \A v \in Users : v # u => after[v] = before[v]
        /\ after[u] - before[u] = IF k = m THEN d ELSE 0
    <2>1. \A v \in Users : after[v] = before[v] + (IF k = m /\ v = u THEN d ELSE 0)
      OBVIOUS
    <2> HIDE DEF before, after
    <2> QED
      BY <1>1, <2>1
  <1> HIDE DEF before, after
  <1>3. SumFunction(after) = SumFunction(before) + (after[u] - before[u])
    BY <1>1, <1>2, UsersAssumption, SumChanges
  <1> QED
    BY <1>2, <1>3 DEF before, after

\* The sums balance before there is anything to sum.
LEMMA SumLedgersInit == Init => SumLedgers
  <1> SUFFICES ASSUME Init PROVE SumLedgers
    OBVIOUS
  <1> DEFINE none == [u \in Users |-> 0]
  <1>1. SumFunction(none) = 0
    <2>1. none \in [Users -> Int] /\ \A u \in Users : none[u] = 0
      OBVIOUS
    <2> HIDE DEF none
    <2> QED
      BY <2>1, UsersAssumption, SumOfZeros
  <1>2. SoldMatchesRecords
    <2>1. /\ [u \in Users |-> record[u].total_tokens_purchased] = none
          /\ [u \in Users |-> record[u].total_sol_spent] = none
          /\ ico_config.tokens_sold = 0 /\ ico_config.sol_raised = 0
      BY DEF Init
    <2> HIDE DEF none
    <2> QED
      BY <1>1, <2>1 DEF SoldMatchesRecords
  <1>3. NoSupplyWithoutMint
    BY DEF Init, NoSupplyWithoutMint
  <1>4. TokensConserved
    <2>1. \A m \in Mints : balance[m] = none /\ mint[m].supply = 0 /\ vault[m].amount = 0
      BY DEF Init
    <2> HIDE DEF none
    <2> QED
      BY <1>1, <2>1 DEF TokensConserved
  <1> QED
    BY <1>2, <1>3, <1>4 DEF SumLedgers

\* buy_tokens adds to the counters of the sale what it adds to the record of
\* one buyer; nothing else changes a record, and initialize_ico starts the
\* counters at 0 only while all records are.
LEMMA SoldStep ==
  ASSUME IInv, IInv', SoldMatchesRecords, [Next]_vars
  PROVE  SoldMatchesRecords'
  <1> DEFINE bought == [u \in Users |-> record[u].total_tokens_purchased]
             spent == [u \in Users |-> record[u].total_sol_spent]
  <1>1. ASSUME NEW b \in Users, NEW m \in Mints, NEW t \in Users,
               NEW sol \in SolAmounts, BuyTokens(b, m, t, sol)
        PROVE  SoldMatchesRecords'
    <2> DEFINE tokens == TokensFor(ico_config.phase, sol)
    <2>1. sol \in Int /\ tokens \in Int
      BY InputsAssumption, ArithmeticAssumption, Tokens DEF IInv, TypeOK, IcoConfig
    <2>2. CountSale(sol, tokens) /\ RecordPurchase(b, sol, tokens)
      BY <1>1 DEF BuyTokens
    <2> HIDE DEF tokens
    <2>3. /\ ico_config'.tokens_sold = ico_config.tokens_sold + tokens
          /\ ico_config'.sol_raised = ico_config.sol_raised + sol
      BY <2>2 DEF CountSale, IInv, TypeOK, IcoConfig
    <2>4. /\ record'[b].total_sol_spent = record[b].total_sol_spent + sol
          /\ record'[b].total_tokens_purchased = record[b].total_tokens_purchased + tokens
          /\ \A u \in Users : u # b => record'[u] = record[u]
      BY <2>2 DEF RecordPurchase, IInv, TypeOK, PurchaseRecord
    <2>5. /\ bought \in [Users -> Int] /\ bought' \in [Users -> Int]
          /\ spent \in [Users -> Int] /\ spent' \in [Users -> Int]
      BY DEF IInv, TypeOK, PurchaseRecord
    <2>6. /\ \A u \in Users : u # b => bought'[u] = bought[u] /\ spent'[u] = spent[u]
          /\ bought'[b] - bought[b] = tokens /\ spent'[b] - spent[b] = sol
      <3>1. record[b].total_sol_spent \in Int /\ record[b].total_tokens_purchased \in Int
        BY DEF IInv, TypeOK, PurchaseRecord
      <3> QED
        BY <2>1, <2>4, <3>1
    <2>7. /\ ico_config.tokens_sold = SumFunction(bought)
          /\ ico_config.sol_raised = SumFunction(spent)
      BY DEF SoldMatchesRecords
    <2>8. SoldMatchesRecords' <=> /\ ico_config'.tokens_sold = SumFunction(bought')
                                  /\ ico_config'.sol_raised = SumFunction(spent')
      BY DEF SoldMatchesRecords
    <2> HIDE DEF bought, spent
    <2>9. /\ SumFunction(bought') = SumFunction(bought) + (bought'[b] - bought[b])
          /\ SumFunction(spent') = SumFunction(spent) + (spent'[b] - spent[b])
      BY <2>5, <2>6, UsersAssumption, SumChanges
    <2> QED
      BY <2>3, <2>6, <2>7, <2>8, <2>9
  <1>2. ASSUME NEW a \in Users, NEW m \in Mints, NEW t \in Users,
               NEW n \in TokenAmounts, NEW start \in Times, NEW end \in Times,
               InitializeIco(a, m, t, n, start, end)
        PROVE  SoldMatchesRecords'
    <2>1. record' = record /\ ico_config'.tokens_sold = 0 /\ ico_config'.sol_raised = 0
      BY <1>2 DEF InitializeIco, NewIcoConfig
    <2>2. ico_config.tokens_sold = 0 /\ ico_config.sol_raised = 0
      BY <1>2 DEF InitializeIco, InitializeIcoChecks, IInv, Ledgers, NoSaleYet
    <2> QED
      BY <2>1, <2>2 DEF SoldMatchesRecords
  <1>3. ASSUME NEW a \in Users, NEW code \in PhaseCodes, SetPhase(a, code)
        PROVE  SoldMatchesRecords'
    <2>1. /\ record' = record /\ ico_config'.tokens_sold = ico_config.tokens_sold
          /\ ico_config'.sol_raised = ico_config.sol_raised
      BY <1>3 DEF SetPhase, IInv, TypeOK, IcoConfig
    <2> QED
      BY <2>1 DEF SoldMatchesRecords
  <1>4. CASE UNCHANGED <<record, ico_config>>
    BY <1>4 DEF SoldMatchesRecords
  <1> QED
    BY <1>1, <1>2, <1>3, <1>4 DEF Next, Instruction, Environment, Initialize, WithdrawFunds,
       CreateMint, MintTo, Donate, Tick, vars

\* A mint that has not been created has no supply.
LEMMA NoSupplyStep ==
  ASSUME TypeOK, NoSupplyWithoutMint, [Next]_vars
  PROVE  NoSupplyWithoutMint'
  <1>1. ASSUME NEW a \in Users, NEW m \in Mints, NEW d,
               mint' = [mint EXCEPT ![m] = NewMint(a, d)]
        PROVE  NoSupplyWithoutMint'
    BY <1>1 DEF NoSupplyWithoutMint, NewMint, TypeOK
  <1>2. ASSUME NEW a \in Users, NEW u \in Users, NEW m \in Mints, NEW n \in TokenAmounts,
               MintTo(a, m, u, n)
        PROVE  NoSupplyWithoutMint'
    BY <1>2 DEF NoSupplyWithoutMint, MintTo, TypeOK, Mint
  <1>3. CASE UNCHANGED mint
    BY <1>3 DEF NoSupplyWithoutMint
  <1> QED
    BY <1>1, <1>2, <1>3 DEF Next, Instruction, Environment, Initialize, CreateMint,
       InitializeIco, BuyTokens, SetPhase, WithdrawFunds, Donate, Tick, vars

\* What a step adds to the supply of mint m it adds to its vault or to one
\* wallet: then the tokens of all mints are conserved.
LEMMA TransferConserves ==
  ASSUME TypeOK, TypeOK', TokensConserved, NEW m \in Mints, NEW u \in Users,
         NEW d \in Int, NEW e \in Int,
         \A k \in Mints, v \in Users :
           balance'[k][v] = balance[k][v] + (IF k = m /\ v = u THEN d ELSE 0),
         \A k \in Mints : /\ vault'[k].amount = vault[k].amount + (IF k = m THEN e ELSE 0)
                          /\ mint'[k].supply
                               = mint[k].supply + (IF k = m THEN d + e ELSE 0)
  PROVE  TokensConserved'
  <1>1. \A k \in Mints :
          SumFunction(balance'[k]) = SumFunction(balance[k]) + (IF k = m THEN d ELSE 0)
    BY BalanceSum
  <1>2. ASSUME NEW k \in Mints
        PROVE  /\ SumFunction(balance[k]) \in Int /\ vault[k].amount \in Int
               /\ mint[k].supply = SumFunction(balance[k]) + vault[k].amount
    <2>1. balance[k] \in [Users -> Int] /\ vault[k].amount \in Int
      BY DEF TypeOK, TokenVault
    <2> QED
      BY <2>1, UsersAssumption, SumIsInt DEF TokensConserved
  <1>3. ASSUME NEW k \in Mints
        PROVE  mint'[k].supply = SumFunction(balance'[k]) + vault'[k].amount
    <2> DEFINE sum == SumFunction(balance[k])
               sumAfter == SumFunction(balance'[k])
    <2>1. /\ sum \in Int /\ vault[k].amount \in Int
          /\ mint[k].supply = sum + vault[k].amount
          /\ sumAfter = sum + (IF k = m THEN d ELSE 0)
      BY <1>1, <1>2
    <2> HIDE DEF sum, sumAfter
    <2>2. mint'[k].supply = sumAfter + vault'[k].amount
      BY <2>1
    <2> QED
      BY <2>2 DEF sumAfter
  <1> QED
    BY <1>3 DEF TokensConserved

\* No instruction, and no step of the token program but MintTo, creates or
\* destroys tokens; MintTo counts those it creates.
LEMMA ConservedStep ==
  ASSUME IInv, IInv', NoSupplyWithoutMint, TokensConserved, [Next]_vars
  PROVE  TokensConserved'
  <1> USE DEF IInv
  <1>1. ASSUME NEW a \in Users, NEW m \in Mints, NEW t \in Users,
               NEW n \in TokenAmounts, NEW start \in Times, NEW end \in Times,
               InitializeIco(a, m, t, n, start, end)
        PROVE  TokensConserved'
    <2>1. /\ n \in Nat /\ ~vault[m].exists /\ mint' = mint
          /\ vault' = [vault EXCEPT ![m] = [exists |-> TRUE, amount |-> n]]
          /\ balance' = [balance EXCEPT ![m][a] = @ - n]
      BY <1>1, InputsAssumption DEF InitializeIco, InitializeIcoChecks, FundVault
    <2>2. vault[m].amount = 0
      BY <2>1 DEF Ledgers, EmptyWithoutVault
    <2>3. \A k \in Mints, v \in Users :
            balance'[k][v] = balance[k][v] + (IF k = m /\ v = a THEN -n ELSE 0)
      BY <2>1 DEF TypeOK
    <2>4. \A k \in Mints : /\ vault'[k].amount = vault[k].amount + (IF k = m THEN n ELSE 0)
                           /\ mint'[k].supply = mint[k].supply + (IF k = m THEN -n + n ELSE 0)
      BY <2>1, <2>2 DEF TypeOK, TokenVault, Mint
    <2>5. n \in Int /\ -n \in Int
      BY <2>1
    <2> QED
      BY <2>3, <2>4, <2>5, TransferConserves
  <1>2. ASSUME NEW b \in Users, NEW m \in Mints, NEW t \in Users,
               NEW sol \in SolAmounts, BuyTokens(b, m, t, sol)
        PROVE  TokensConserved'
    <2> DEFINE tokens == TokensFor(ico_config.phase, sol)
    <2>1. tokens \in Nat
      BY InputsAssumption, ArithmeticAssumption, Tokens DEF TypeOK, IcoConfig
    <2>2. /\ mint' = mint /\ vault' = [vault EXCEPT ![m].amount = @ - tokens]
          /\ balance' = [balance EXCEPT ![m][b] = @ + tokens]
      BY <1>2 DEF BuyTokens
    <2> HIDE DEF tokens
    <2>3. \A k \in Mints, v \in Users :
            balance'[k][v] = balance[k][v] + (IF k = m /\ v = b THEN tokens ELSE 0)
      BY <2>1, <2>2 DEF TypeOK
    <2>4. \A k \in Mints :
            /\ vault'[k].amount = vault[k].amount + (IF k = m THEN -tokens ELSE 0)
            /\ mint'[k].supply = mint[k].supply + (IF k = m THEN tokens + -tokens ELSE 0)
      BY <2>1, <2>2 DEF TypeOK, TokenVault, Mint
    <2> QED
      BY <2>1, <2>3, <2>4, TransferConserves
  <1>3. ASSUME NEW a \in Users, NEW m \in Mints, WithdrawFunds(a, m) PROVE TokensConserved'
    <2> DEFINE n == vault[m].amount
    <2>1. /\ mint' = mint /\ vault' = [vault EXCEPT ![m].amount = 0]
          /\ balance' = [balance EXCEPT ![m][a] = @ + n]
      BY <1>3 DEF WithdrawFunds
    <2>2. n \in Nat
      BY DEF TypeOK, TokenVault
    <2>3. \A k \in Mints :
            /\ vault'[k].amount = vault[k].amount + (IF k = m THEN -n ELSE 0)
            /\ mint'[k].supply = mint[k].supply + (IF k = m THEN n + -n ELSE 0)
      BY <2>1, <2>2 DEF TypeOK, TokenVault, Mint
    <2> HIDE DEF n
    <2>4. \A k \in Mints, v \in Users :
            balance'[k][v] = balance[k][v] + (IF k = m /\ v = a THEN n ELSE 0)
      BY <2>1, <2>2 DEF TypeOK
    <2>5. n \in Int /\ -n \in Int
      BY <2>2
    <2> QED
      BY <2>3, <2>4, <2>5, TransferConserves
  <1>4. ASSUME NEW a \in Users, NEW u \in Users, NEW m \in Mints, NEW n \in TokenAmounts,
               MintTo(a, m, u, n)
        PROVE  TokensConserved'
    <2>1. /\ n \in Nat /\ vault' = vault
          /\ mint' = [mint EXCEPT ![m].supply = @ + n]
          /\ balance' = [balance EXCEPT ![m][u] = @ + n]
      BY <1>4, InputsAssumption DEF MintTo
    <2>2. \A k \in Mints, v \in Users :
            balance'[k][v] = balance[k][v] + (IF k = m /\ v = u THEN n ELSE 0)
      BY <2>1 DEF TypeOK
    <2>3. \A k \in Mints :
            /\ vault'[k].amount = vault[k].amount + (IF k = m THEN 0 ELSE 0)
            /\ mint'[k].supply = mint[k].supply + (IF k = m THEN n + 0 ELSE 0)
      BY <2>1 DEF TypeOK, TokenVault, Mint
    <2> QED
      BY <2>1, <2>2, <2>3, TransferConserves
  <1>5. ASSUME NEW u \in Users, NEW m \in Mints, NEW n \in TokenAmounts, Donate(u, m, n)
        PROVE  TokensConserved'
    <2>1. /\ n \in Nat /\ mint' = mint
          /\ vault' = [vault EXCEPT ![m].amount = @ + n]
          /\ balance' = [balance EXCEPT ![m][u] = @ - n]
      BY <1>5, InputsAssumption DEF Donate
    <2>2. \A k \in Mints, v \in Users :
            balance'[k][v] = balance[k][v] + (IF k = m /\ v = u THEN -n ELSE 0)
      BY <2>1 DEF TypeOK
    <2>3. \A k \in Mints :
            /\ vault'[k].amount = vault[k].amount + (IF k = m THEN n ELSE 0)
            /\ mint'[k].supply = mint[k].supply + (IF k = m THEN -n + n ELSE 0)
      BY <2>1 DEF TypeOK, TokenVault, Mint
    <2> QED
      BY <2>1, <2>2, <2>3, TransferConserves
  <1>6. ASSUME NEW a \in Users, NEW m \in Mints, NEW d, ~mint[m].exists,
               mint' = [mint EXCEPT ![m] = NewMint(a, d)], UNCHANGED <<vault, balance>>
        PROVE  TokensConserved'
    <2>1. \A k \in Mints : mint'[k].supply = mint[k].supply
      BY <1>6 DEF NewMint, NoSupplyWithoutMint, TypeOK
    <2> QED
      BY <1>6, <2>1 DEF TokensConserved
  <1>7. CASE UNCHANGED <<mint, vault, balance>>
    BY <1>7 DEF TokensConserved
  <1> QED
    BY <1>1, <1>2, <1>3, <1>4, <1>5, <1>6, <1>7 DEF Next, Instruction, Environment,
       Initialize, InitializeChecks, CreateMint, SetPhase, Tick, vars

\* The sums of the ledgers balance in every reachable state.
THEOREM SumInvariance == Spec => []SumLedgers
  <1>1. IInv /\ IInv' /\ SumLedgers /\ [Next]_vars => SumLedgers'
    <2> SUFFICES ASSUME IInv, IInv', SumLedgers, [Next]_vars PROVE SumLedgers'
      OBVIOUS
    <2>1. SoldMatchesRecords' /\ TokensConserved'
      BY SoldStep, ConservedStep DEF SumLedgers
    <2>2. NoSupplyWithoutMint'
      BY NoSupplyStep DEF SumLedgers, IInv
    <2> QED
      BY <2>1, <2>2 DEF SumLedgers
  <1> QED
    BY <1>1, SumLedgersInit, Invariance, PTL DEF Spec

----------------------------------------------------------------------------
(* What follows from it                                                    *)

\* The only vault that ever exists is that of ico_config.token_mint: this is
\* why buy_tokens and withdraw_funds need not check the mint they are given.
THEOREM OnlyTheSaleHasAVault == Spec => []OneVault
  <1>1. IInv => OneVault
    BY DEF IInv, Ledgers
  <1>. QED
    BY <1>1, Invariance, PTL

\* No sequence of purchases, phase changes, withdrawals and re-openings sells
\* more tokens than initialize_ico put up for sale.
THEOREM NoOverselling == Spec => []NeverOversold
  <1>1. IInv => NeverOversold
    BY DEF IInv, Ledgers
  <1>. QED
    BY <1>1, Invariance, PTL

\* The vault holds what is unsold, plus direct transfers, less withdrawals.
THEOREM VaultBalances == Spec => []VaultLedger
  <1>1. IInv => VaultLedger
    BY DEF IInv, Ledgers
  <1>. QED
    BY <1>1, Invariance, PTL

\* Until the first withdrawal, all that is counted as unsold can be paid out.
THEOREM VaultCoversTheSale == Spec => []VaultBacksUnsold
  <1>1. IInv => VaultBacksUnsold
    <2>. SUFFICES ASSUME IInv, NEW m \in Mints, vault[m].exists, ~withdrew
                  PROVE  vault[m].amount >= Unsold
      BY DEF VaultBacksUnsold
    <2>1. vault[m].amount = Unsold + outside /\ outside >= 0
      BY DEF IInv, Ledgers, VaultLedger, OnlyAddedUntilWithdrawal
    <2>2. Unsold \in Int /\ outside \in Int
      BY DEF IInv, TypeOK, IcoConfig, Unsold
    <2>. QED
      BY <2>1, <2>2
  <1>. QED
    BY <1>1, Invariance, PTL

\* Wallets, purchase records and sol_raised agree: the treasury got exactly
\* what the buyers spent.
THEOREM SolAddsUp == Spec => []SolLedger
  <1>1. IInv => SolLedger
    BY DEF IInv, Ledgers
  <1>. QED
    BY <1>1, Invariance, PTL

\* No buyer ever got tokens below the seed round's price.
THEOREM NoBargains == Spec => []SeedRateIsTheBest
  <1>1. IInv => SeedRateIsTheBest
    BY DEF IInv, Ledgers
  <1>. QED
    BY <1>1, Invariance, PTL

\* The counters of the sale are the sums of the buyers' records: no purchase is
\* counted twice, lost, or credited to somebody it was not sold to.
THEOREM RecordsAddUp == Spec => []SoldMatchesRecords
  <1>1. SumLedgers => SoldMatchesRecords
    BY DEF SumLedgers
  <1>. QED
    BY <1>1, SumInvariance, PTL

\* The supply of every mint is what the wallets and its vault hold, however
\* many wallets there are.
THEOREM NoTokenIsLost == Spec => []TokensConserved
  <1>1. SumLedgers => TokensConserved
    BY DEF SumLedgers
  <1>. QED
    BY <1>1, SumInvariance, PTL

\* Tokens leave the vault only to a buyer who gets them, counted and recorded,
\* in an active phase, or all at once to the authority, after the end.
THEOREM VaultOnlyPaysOut == Spec => VaultOutflow
  <1>. DEFINE Outflow(m) ==
         vault'[m].amount < vault[m].amount =>
           \/ LET sold == vault[m].amount - vault'[m].amount
              IN  /\ Active
                  /\ ico_config'.tokens_sold = ico_config.tokens_sold + sold
                  /\ \E b \in Users :
                       /\ balance'[m][b] = balance[m][b] + sold
                       /\ record'[b].total_tokens_purchased
                            = record[b].total_tokens_purchased + sold
           \/ /\ ico_config.phase = "Ended"
              /\ vault'[m].amount = 0
              /\ balance'[m][ico_config.authority]
                   = balance[m][ico_config.authority] + vault[m].amount
  <1>1. ASSUME IInv, [Next]_vars, NEW m \in Mints PROVE Outflow(m)
    <2>. USE DEF IInv
    <2>1. ASSUME NEW u \in Users, NEW k \in Mints, NEW t \in Users,
                 NEW n \in TokenAmounts, NEW start \in Times, NEW end \in Times,
                 InitializeIco(u, k, t, n, start, end)
          PROVE  ~(vault'[m].amount < vault[m].amount)
      <3>1. /\ n \in Nat /\ ~vault[k].exists
            /\ vault' = [vault EXCEPT ![k] = [exists |-> TRUE, amount |-> n]]
        BY <2>1, InputsAssumption
        DEF InitializeIco, InitializeIcoChecks, FundVault
      <3>2. vault[k].amount = 0
        BY <3>1, <1>1 DEF Ledgers, EmptyWithoutVault
      <3>3. vault[m].amount \in Nat
        BY <1>1 DEF TypeOK, TokenVault
      <3>. QED
        BY <1>1, <3>1, <3>2, <3>3 DEF TypeOK
    <2>2. ASSUME NEW b \in Users, NEW k \in Mints, NEW t \in Users,
                 NEW sol \in SolAmounts, BuyTokens(b, k, t, sol)
          PROVE  Outflow(m)
      <3>. DEFINE tokens == TokensFor(ico_config.phase, sol)
      <3>1. tokens \in Nat
        BY <1>1, InputsAssumption, ArithmeticAssumption, Tokens DEF TypeOK, IcoConfig
      <3>. HIDE DEF tokens
      <3>2. /\ Active /\ CountSale(sol, tokens) /\ RecordPurchase(b, sol, tokens)
            /\ vault' = [vault EXCEPT ![k].amount = @ - tokens]
            /\ balance' = [balance EXCEPT ![k][b] = @ + tokens]
        BY <2>2 DEF BuyTokens, BuyAccepted, Offered, PurchaseChecks, tokens
      <3>3. ico_config'.tokens_sold = ico_config.tokens_sold + tokens
        BY <1>1, <3>2 DEF CountSale, TypeOK, IcoConfig
      <3>4. vault[m].amount \in Nat /\ ico_config.tokens_sold \in Nat
        BY <1>1 DEF TypeOK, TokenVault, IcoConfig
      <3>5. CASE k = m
        <4>1. vault'[m].amount = vault[m].amount - tokens
          BY <1>1, <3>2, <3>5 DEF TypeOK, TokenVault
        <4>2. vault[m].amount - vault'[m].amount = tokens
          BY <3>1, <3>4, <4>1
        <4>3. balance'[m][b] = balance[m][b] + tokens
          BY <1>1, <3>2, <3>5 DEF TypeOK
        <4>4. record'[b].total_tokens_purchased = record[b].total_tokens_purchased + tokens
          BY <1>1, <3>2 DEF RecordPurchase, TypeOK, PurchaseRecord
        <4>. QED
          BY <3>2, <3>3, <4>2, <4>3, <4>4
      <3>6. CASE k # m
        <4>1. vault'[m] = vault[m]
          BY <1>1, <3>2, <3>6 DEF TypeOK
        <4>. QED
          BY <3>4, <4>1
      <3>. QED
        BY <3>5, <3>6
    <2>3. ASSUME NEW u \in Users, NEW k \in Mints, WithdrawFunds(u, k)
          PROVE  Outflow(m)
      <3>1. /\ ico_config.authority = u /\ ico_config.phase = "Ended"
            /\ vault' = [vault EXCEPT ![k].amount = 0]
            /\ balance' = [balance EXCEPT ![k][u] = @ + vault[k].amount]
        BY <2>3 DEF WithdrawFunds, WithdrawChecks
      <3>2. vault[m].amount \in Nat
        BY <1>1 DEF TypeOK, TokenVault
      <3>3. CASE k = m
        <4>1. vault'[m].amount = 0
          BY <1>1, <3>1, <3>3 DEF TypeOK, TokenVault
        <4>2. balance'[m][u] = balance[m][u] + vault[m].amount
          BY <1>1, <3>1, <3>3 DEF TypeOK
        <4>. QED
          BY <3>1, <4>1, <4>2
      <3>4. CASE k # m
        <4>1. vault'[m] = vault[m]
          BY <1>1, <3>1, <3>4 DEF TypeOK
        <4>. QED
          BY <3>2, <4>1
      <3>. QED
        BY <3>3, <3>4
    <2>4. ASSUME NEW u \in Users, NEW k \in Mints, NEW n \in TokenAmounts,
                 Donate(u, k, n)
          PROVE  ~(vault'[m].amount < vault[m].amount)
      <3>1. n \in Nat /\ vault' = [vault EXCEPT ![k].amount = @ + n]
        BY <2>4, InputsAssumption DEF Donate
      <3>2. vault[m].amount \in Nat
        BY <1>1 DEF TypeOK, TokenVault
      <3>3. vault'[m].amount = vault[m].amount \/ vault'[m].amount = vault[m].amount + n
        BY <1>1, <3>1 DEF TypeOK, TokenVault
      <3>. QED
        BY <3>1, <3>2, <3>3
    <2>5. ASSUME UNCHANGED vault PROVE ~(vault'[m].amount < vault[m].amount)
      BY <1>1, <2>5 DEF TypeOK, TokenVault
    <2>6. \/ UNCHANGED vault
          \/ \E u \in Users, k \in Mints :
               \/ \E t \in Users, n \in TokenAmounts, start, end \in Times :
                    InitializeIco(u, k, t, n, start, end)
               \/ \E t \in Users, sol \in SolAmounts : BuyTokens(u, k, t, sol)
               \/ WithdrawFunds(u, k)
               \/ \E n \in TokenAmounts : Donate(u, k, n)
      BY <1>1 DEF Next, Instruction, Environment, Initialize, SetPhase, CreateMint,
         MintTo, Tick, vars
    <2>. HIDE DEF Outflow
    <2>7. ASSUME ~(vault'[m].amount < vault[m].amount) PROVE Outflow(m)
      BY <2>7 DEF Outflow
    <2>. QED
      BY <2>1, <2>2, <2>3, <2>4, <2>5, <2>6, <2>7
  <1>2. IInv /\ [Next]_vars => [\A m \in Mints : Outflow(m)]_vars
    BY <1>1
  <1>. QED
    BY <1>2, Invariance, PTL DEF Spec, VaultOutflow

----------------------------------------------------------------------------
(* The magnitude of the rates                                              *)

\* constants.rs: MIN_PURCHASE is 100_000_000 lamports, PUBLIC_SALE_RATE is
\* 30_000_000_000_000, and their product is more than u64::MAX = 2^32 * 2^32 - 1.
LEMMA ShippedConstantsOverflow ==
  100000000 * 30000000000000 > 4294967296 * 4294967296 - 1
  BY SMT

\* With such constants no purchase passes the checked multiplication of
\* buy_tokens, in whatever phase, so nothing is ever sold.
THEOREM NothingIsEverSold == Spec => []NothingSoldIfOverflow
  <1>. USE DEF IInv
  <1>. DEFINE TooLarge == MIN_PURCHASE * PUBLIC_SALE_RATE > U64_MAX
              Unused   == ico_config.tokens_sold = 0 /\ ico_config.sol_raised = 0
  <1>1. Init => (TooLarge => Unused)
    BY DEF Init
  <1>2. IInv /\ (TooLarge => Unused) /\ [Next]_vars => (TooLarge => Unused)'
    <2>. SUFFICES ASSUME IInv, TooLarge, Unused, [Next]_vars PROVE Unused'
      OBVIOUS
    <2>1. ASSUME NEW b \in Users, NEW m \in Mints, NEW t \in Users,
                 NEW sol \in SolAmounts, BuyTokens(b, m, t, sol)
          PROVE  FALSE
      <3>1. /\ Active /\ sol >= MIN_PURCHASE
            /\ sol * TokenRate(ico_config.phase) <= U64_MAX
        BY <2>1 DEF BuyTokens, BuyAccepted, Offered, PurchaseChecks
      <3>2. /\ sol \in Nat /\ MIN_PURCHASE \in Nat /\ PUBLIC_SALE_RATE \in Nat
            /\ U64_MAX \in Nat
        BY InputsAssumption, ArithmeticAssumption
      <3>3. /\ TokenRate(ico_config.phase) \in Nat
            /\ TokenRate(ico_config.phase) >= PUBLIC_SALE_RATE
        BY <3>1, Rates DEF Active, TypeOK, IcoConfig
      <3>4. /\ MIN_PURCHASE * PUBLIC_SALE_RATE \in Nat
            /\ sol * TokenRate(ico_config.phase) \in Nat
            /\ MIN_PURCHASE * PUBLIC_SALE_RATE <= sol * TokenRate(ico_config.phase)
        BY <3>1, <3>2, <3>3, ProductGrows
      <3>. QED
        BY <3>1, <3>2, <3>4
    <2>2. ASSUME NEW u \in Users, NEW m \in Mints, NEW t \in Users,
                 NEW n \in TokenAmounts, NEW start \in Times, NEW end \in Times,
                 InitializeIco(u, m, t, n, start, end)
          PROVE  Unused'
      BY <2>2 DEF InitializeIco, NewIcoConfig
    <2>3. ASSUME NEW u \in Users, NEW code \in PhaseCodes, SetPhase(u, code)
          PROVE  Unused'
      BY <2>3 DEF SetPhase, TypeOK, IcoConfig
    <2>4. ASSUME UNCHANGED ico_config PROVE Unused'
      BY <2>4
    <2>. HIDE DEF Unused
    <2>. QED
      BY <2>1, <2>2, <2>3, <2>4
      DEF Next, Instruction, Environment, Initialize, WithdrawFunds, CreateMint,
          MintTo, Donate, Tick, vars
  <1>. QED
    BY <1>1, <1>2, Invariance, PTL DEF Spec, NothingSoldIfOverflow

----------------------------------------------------------------------------
(* The program implements TokenSale                                        *)

\* No sale is configured: nothing is funded.
LEMMA ImplementsInit == Init => Sale!Init
  BY DEF Init, Sale!Init, Active, Unsold, Stock

\* The vault that exists is the stock of the sale.
LEMMA StockIsTheVault ==
  ASSUME OneVault, NEW m \in Mints, vault[m].exists
  PROVE  Stock = vault[m].amount /\ ico_config.exists /\ ico_config.token_mint = m
  BY DEF OneVault, Stock

\* initialize_ico funds the sale and leaves it closed.
LEMMA ImplementsFund ==
  ASSUME IInv, IInv',
         NEW a \in Users, NEW m \in Mints, NEW t \in Users,
         NEW n \in TokenAmounts, NEW start \in Times, NEW end \in Times,
         InitializeIco(a, m, t, n, start, end)
  PROVE  Sale!Fund
  <1>1. /\ ~ico_config.exists /\ n \in Nat /\ UNCHANGED record
        /\ ico_config' = NewIcoConfig(a, m, t, n, start, end)
    BY InputsAssumption DEF InitializeIco, InitializeIcoChecks
  <1>2. /\ ico_config'.exists /\ ico_config'.phase = "NotStarted"
        /\ ico_config'.total_tokens_for_sale = n
        /\ ico_config'.tokens_sold = 0 /\ ico_config'.sol_raised = 0
    BY <1>1 DEF NewIcoConfig
  <1>3. ico_config.phase = "NotStarted" /\ ico_config.sol_raised = 0
    BY <1>1 DEF IInv, Ledgers, NoSaleYet
  <1>4. Active = FALSE /\ Active' = FALSE
    BY <1>2, <1>3 DEF Active
  <1>5. Unsold' = n
    BY <1>1, <1>2 DEF Unsold
  <1>6. ico_config'.token_mint = m /\ vault'[m].amount = n
    BY <1>1 DEF NewIcoConfig, InitializeIco, FundVault, IInv, TypeOK
  <1>7. Stock' = n
    BY <1>2, <1>6 DEF Stock
  <1>. QED
    BY <1>1, <1>2, <1>3, <1>4, <1>5, <1>7 DEF Sale!Fund

\* set_phase opens the sale, closes it, or changes nothing TokenSale sees.
LEMMA ImplementsOpenOrClose ==
  ASSUME IInv, IInv',
         NEW a \in Users, NEW code \in PhaseCodes, SetPhase(a, code)
  PROVE  Sale!OpenOrClose \/ UNCHANGED Sale!vars
  <1>1. /\ ico_config.exists /\ UNCHANGED <<record, vault>>
        /\ ico_config' = [ico_config EXCEPT !.phase = PhaseOf[code + 1]]
    BY DEF SetPhase, SetPhaseChecks
  <1>2. /\ ico_config'.exists = ico_config.exists
        /\ ico_config'.total_tokens_for_sale = ico_config.total_tokens_for_sale
        /\ ico_config'.tokens_sold = ico_config.tokens_sold
        /\ ico_config'.sol_raised = ico_config.sol_raised
        /\ ico_config'.token_mint = ico_config.token_mint
    BY <1>1 DEF IInv, TypeOK, IcoConfig
  <1>3. Active' = ~Active \/ Active' = Active
    BY DEF Active
  <1>4. Unsold' = Unsold /\ Stock' = Stock
    BY <1>1, <1>2 DEF Unsold, Stock
  <1>. QED
    BY <1>1, <1>2, <1>3, <1>4 DEF Sale!OpenOrClose, Sale!vars

\* buy_tokens sells unsold tokens to the buyer it records, at a rate of the sale.
LEMMA ImplementsSell ==
  ASSUME IInv, IInv',
         NEW b \in Users, NEW m \in Mints, NEW t \in Users, NEW sol \in SolAmounts,
         BuyTokens(b, m, t, sol)
  PROVE  Sale!Sell(b)
  <1>. DEFINE tokens == TokensFor(ico_config.phase, sol)
  <1>1. /\ sol \in Nat /\ tokens \in Nat
        /\ tokens * LAMPORTS_PER_SOL <= sol * SEED_ROUND_RATE
    BY InputsAssumption, ArithmeticAssumption, Tokens DEF IInv, TypeOK, IcoConfig
  <1>2. (tokens + 1) * LAMPORTS_PER_SOL > sol * PUBLIC_SALE_RATE
    <2>1. ico_config.phase \in IcoPhase \ {"NotStarted", "Ended"}
      BY DEF BuyTokens, BuyAccepted, Offered, PurchaseChecks, Active,
             IInv, TypeOK, IcoConfig
    <2>. QED
      BY <1>1, <2>1, LowestRate
  <1>. HIDE DEF tokens
  <1>3. /\ Active /\ tokens <= Unsold
        /\ CountSale(sol, tokens) /\ RecordPurchase(b, sol, tokens)
        /\ vault[m].exists /\ tokens <= vault[m].amount
        /\ vault' = [vault EXCEPT ![m].amount = @ - tokens]
    BY DEF BuyTokens, BuyAccepted, Offered, BuyAccountChecks, PurchaseChecks,
           RemainingChecks, SettlementChecks, tokens
  <1>4. /\ ico_config'.exists = ico_config.exists
        /\ ico_config'.phase = ico_config.phase
        /\ ico_config'.total_tokens_for_sale = ico_config.total_tokens_for_sale
        /\ ico_config'.tokens_sold = ico_config.tokens_sold + tokens
        /\ ico_config'.sol_raised = ico_config.sol_raised + sol
        /\ ico_config'.token_mint = ico_config.token_mint
    BY <1>3 DEF CountSale, IInv, TypeOK, IcoConfig
  <1>5. tokens <= Stock /\ Stock' = Stock - tokens
    <2>1. Stock = vault[m].amount /\ ico_config.exists /\ ico_config.token_mint = m
      BY <1>3, StockIsTheVault DEF IInv, Ledgers
    <2>2. vault'[m].amount = vault[m].amount - tokens
      BY <1>3 DEF IInv, TypeOK, TokenVault
    <2>. QED
      BY <1>3, <1>4, <2>1, <2>2 DEF Stock
  <1>6. Unsold \in Int /\ Unsold' = Unsold - tokens /\ Active' = Active
    BY <1>1, <1>4 DEF Unsold, Active, IInv, TypeOK, IcoConfig
  <1>7. /\ Unsold' \in 0..Unsold /\ Unsold - Unsold' = tokens
        /\ ico_config'.sol_raised \in Nat
        /\ ico_config'.sol_raised - ico_config.sol_raised = sol
    BY <1>1, <1>3, <1>4, <1>6 DEF IInv, TypeOK, IcoConfig
  <1>8. /\ \A u \in Users : /\ record[u].total_sol_spent \in Nat
                             /\ record[u].total_tokens_purchased \in Nat
        /\ record'[b].total_sol_spent = record[b].total_sol_spent + sol
        /\ record'[b].total_tokens_purchased = record[b].total_tokens_purchased + tokens
        /\ \A u \in Users : u # b => record'[u] = record[u]
    BY <1>3 DEF RecordPurchase, IInv, TypeOK, PurchaseRecord
  <1>. DEFINE bought == [u \in Users |-> record[u].total_tokens_purchased]
              paid   == [u \in Users |-> record[u].total_sol_spent]
  <1>9. /\ bought' = [bought EXCEPT ![b] = @ + tokens]
        /\ paid' = [paid EXCEPT ![b] = @ + sol]
    BY <1>8
  <1>10. /\ (Unsold - Unsold') * LAMPORTS_PER_SOL
               <= (ico_config'.sol_raised - ico_config.sol_raised) * SEED_ROUND_RATE
         /\ ((Unsold - Unsold') + 1) * LAMPORTS_PER_SOL
               > (ico_config'.sol_raised - ico_config.sol_raised) * PUBLIC_SALE_RATE
         /\ ico_config'.sol_raised - ico_config.sol_raised >= 0
         /\ Unsold - Unsold' <= Stock /\ Stock' = Stock - (Unsold - Unsold')
    BY <1>1, <1>2, <1>5, <1>7
  <1>11. /\ bought' = [bought EXCEPT ![b] = @ + (Unsold - Unsold')]
        /\ paid' = [paid EXCEPT ![b] = @ + (ico_config'.sol_raised - ico_config.sol_raised)]
    BY <1>7, <1>9
  <1>. QED
    BY <1>3, <1>4, <1>6, <1>7, <1>10, <1>11, Zenon DEF Sale!Sell

\* withdraw_funds and direct transfers into the vault change the stock only.
LEMMA ImplementsStock ==
  ASSUME IInv, NEW u \in Users, NEW m \in Mints,
         WithdrawFunds(u, m) \/ \E n \in TokenAmounts : Donate(u, m, n)
  PROVE  Sale!Withdraw \/ Sale!Give
  <1>1. /\ vault[m].exists /\ UNCHANGED <<ico_config, record>>
        /\ Active' = Active /\ Unsold' = Unsold
    BY DEF WithdrawFunds, WithdrawChecks, Donate, Active, Unsold
  <1>2. Stock = vault[m].amount /\ ico_config.exists /\ ico_config.token_mint = m
    BY <1>1, StockIsTheVault DEF IInv, Ledgers
  <1>3. Stock' = vault'[m].amount
    BY <1>1, <1>2 DEF Stock
  <1>4. CASE WithdrawFunds(u, m)
    <2>1. ~Active /\ vault'[m].amount = 0
      BY <1>4 DEF WithdrawFunds, WithdrawChecks, Active, IInv, TypeOK, TokenVault
    <2>. QED
      BY <1>1, <1>2, <1>3, <2>1 DEF Sale!Withdraw
  <1>5. ASSUME NEW n \in TokenAmounts, Donate(u, m, n) PROVE Sale!Give
    <2>1. n \in Nat /\ vault' = [vault EXCEPT ![m].amount = @ + n]
      BY <1>5, InputsAssumption DEF Donate
    <2>2. vault[m].amount \in Nat /\ vault'[m].amount = vault[m].amount + n
      BY <2>1 DEF IInv, TypeOK, TokenVault
    <2>3. Stock' \in Nat /\ Stock' >= Stock
      BY <1>2, <1>3, <2>1, <2>2
    <2>. QED
      BY <1>1, <1>2, <2>3 DEF Sale!Give
  <1>. QED
    BY <1>4, <1>5

\* Every behaviour of the program is one of TokenSale: it is funded once, it
\* sells unsold tokens to whoever pays, while it is open, at no better than the
\* seed round's and no worse than the public sale's rate, whatever the phase was
\* when the buyer asked, and credits the buyer who paid; what it sells comes out
\* of the vault, which is emptied only while the sale is closed.
THEOREM ImplementsTokenSale == Spec => SaleSpec
  <1>1. IInv /\ IInv' /\ [Next]_vars => [Sale!Next]_Sale!vars
    <2>. SUFFICES ASSUME IInv, IInv', [Next]_vars
                  PROVE  Sale!Next \/ UNCHANGED Sale!vars
      OBVIOUS
    <2>1. ASSUME UNCHANGED <<ico_config, record, vault>> PROVE UNCHANGED Sale!vars
      BY <2>1 DEF Sale!vars, Active, Unsold, Stock
    <2>. QED
      BY <2>1, ImplementsFund, ImplementsOpenOrClose, ImplementsSell, ImplementsStock
      DEF Sale!Next, Next, Instruction, Environment, Initialize,
          CreateMint, MintTo, Tick, vars
  <1>. QED
    BY <1>1, ImplementsInit, Invariance, PTL DEF Spec, SaleSpec, Sale!Spec
=============================================================================
