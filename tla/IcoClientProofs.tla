--------------------------- MODULE IcoClientProofs ---------------------------
(***************************************************************************)
(* Proofs about IcoClient, for any number of wallets, mints and calls.     *)
(***************************************************************************)
EXTENDS IcoClient, NovaIcoProofs

USE DEF Free, Usable, Confirmed

----------------------------------------------------------------------------
(* The slots of the calls                                                  *)

\* An empty slot can be told from one that is in use.
LEMMA IdleIsNoCall == Idle \notin Call /\ Idle.op = "none" /\ Idle.pc = "idle"
  BY DEF Idle, Call

\* A slot gets new contents, which the chain can execute.
LEMMA SlotStep ==
  ASSUME ClientTypeOK, CallsAreWellFormed, NEW c \in Calls, NEW k \in Call \cup {Idle},
         NEW x \in {"none", "flying", "done", "lost"},
         call' = [call EXCEPT ![c] = k], tx' = [tx EXCEPT ![c] = x],
         UNCHANGED <<wallet, ready>>,
         k # Idle => wallet \in Users /\ WellFormed(k),
         x # "none" => k # Idle
  PROVE  /\ call' \in [Calls -> Call \cup {Idle}]
         /\ tx' \in [Calls -> {"none", "flying", "done", "lost"}]
         /\ CallsAreWellFormed'
  <1>1. /\ call' \in [Calls -> Call \cup {Idle}]
        /\ tx' \in [Calls -> {"none", "flying", "done", "lost"}]
    BY DEF ClientTypeOK
  <1>2. \A d \in Calls : call'[d] = (IF d = c THEN k ELSE call[d])
                         /\ tx'[d] = (IF d = c THEN x ELSE tx[d])
    BY DEF ClientTypeOK
  <1>3. CallsAreWellFormed'
    BY <1>2 DEF CallsAreWellFormed, WellFormed
  <1> QED
    BY <1>1, <1>3

\* No slot gets a mint to create that it did not have; where there was no
\* supply, none has arrived.
LEMMA SlotMints ==
  ASSUME ClientTypeOK, MintsAreCreatedInOrder, NEW c \in Calls, NEW k, NEW x,
         call' = [call EXCEPT ![c] = k], tx' = [tx EXCEPT ![c] = x], mint' = mint,
         k.op \in {"create", "account", "supply"} =>
           /\ call[c].op \in {"create", "account", "supply"} /\ call[c].mint = k.mint
           /\ (k.op = "supply" /\ x = "done") <=> (call[c].op = "supply" /\ tx[c] = "done")
  PROVE  MintsAreCreatedInOrder'
  <1>1. \A d \in Calls : call'[d] = (IF d = c THEN k ELSE call[d])
                         /\ tx'[d] = (IF d = c THEN x ELSE tx[d])
    BY DEF ClientTypeOK
  <1>2. \A d \in Calls, m \in Mints : Creates(d, m)' => Creates(d, m)
    BY <1>1 DEF Creates
  <1>3. ASSUME NEW d \in Calls, NEW m \in Mints, Creates(d, m)'
        PROVE  IF call'[d].op = "supply" /\ tx'[d] = "done" THEN mint'[m].supply = Supply
               ELSE mint'[m].supply = 0
    BY <1>1, <1>2, <1>3 DEF MintsAreCreatedInOrder, Creates
  <1> QED
    BY <1>2, <1>3 DEF MintsAreCreatedInOrder

\* What a call leaves behind.
LEMMA LeaveIs ==
  ASSUME ClientTypeOK, CallsAreWellFormed, NEW c \in Calls, Leave(c)
  PROVE  \E k \in Call \cup {Idle}, x \in {"none", "flying"} :
           /\ call' = [call EXCEPT ![c] = k] /\ tx' = [tx EXCEPT ![c] = x]
           /\ \/ k = Idle /\ x = "none"
              \/ tx[c] = "flying" /\ x = "flying" /\ call[c] \in Call
                 /\ k \in Call /\ k = [call[c] EXCEPT !.pc = "idle"]
  <1>1. CASE tx[c] = "flying"
    <2> DEFINE k == [call[c] EXCEPT !.pc = "idle"]
    <2>1. call[c] \in Call
      BY <1>1 DEF CallsAreWellFormed, ClientTypeOK
    <2>2. k \in Call
      BY <2>1 DEF Call
    <2>3. call' = [call EXCEPT ![c] = k] /\ tx' = [tx EXCEPT ![c] = "flying"]
      BY <1>1 DEF Leave
    <2> HIDE DEF k
    <2>4. k = [call[c] EXCEPT !.pc = "idle"]
      BY DEF k
    <2> QED
      BY <1>1, <2>1, <2>2, <2>3, <2>4
  <1>2. CASE tx[c] # "flying"
    BY <1>2 DEF Leave
  <1> QED
    BY <1>1, <1>2

----------------------------------------------------------------------------
(* What the chain does for a call is an instruction of the program, or of  *)
(* the token program.                                                      *)

LEMMA ExecutedIsNext ==
  ASSUME ClientTypeOK, CallsAreWellFormed, NEW c \in Calls, tx[c] = "flying", Executed(call[c])
  PROVE  [Next]_vars
  <1> DEFINE k == call[c]
  <1>1. k \in Call /\ WellFormed(k)
    BY DEF CallsAreWellFormed, ClientTypeOK
  <1>2. k.signer \in Users /\ k.owner \in Users
    BY <1>1 DEF Call
  <1> HIDE DEF k
  <1>3. CASE k.op = "create" /\ CreateMint(k.signer, k.mint, TOKEN_DECIMALS)
    <2>1. Initialize(k.signer, k.mint) /\ k.mint \in Mints
      BY <1>1, <1>3 DEF CreateMint, Initialize, InitializeChecks, WellFormed
    <2> QED
      BY <1>2, <2>1 DEF Next, Instruction
  <1>4. CASE k.op = "supply" /\ MintTo(k.signer, k.mint, k.owner, k.amount)
    <2>1. k.mint \in Mints /\ k.amount \in TokenAmounts
      BY <1>1, <1>4, ClientAssumption DEF WellFormed
    <2> QED
      BY <1>2, <1>4, <2>1 DEF Next, Environment
  <1>5. CASE k.op = "init" /\ InitializeIco(k.signer, k.mint, k.treasury, k.amount, 0, 0)
    <2>1. /\ k.mint \in Mints /\ k.treasury \in Users /\ k.amount \in TokenAmounts
          /\ 0 \in Times
      BY <1>1, <1>5, ClientAssumption DEF WellFormed
    <2> QED
      BY <1>2, <1>5, <2>1 DEF Next, Instruction
  <1>6. CASE k.op = "buy" /\ BuyTokens(k.signer, k.mint, k.treasury, k.amount)
    <2>1. k.mint \in Mints /\ k.treasury \in Users /\ k.amount \in SolAmounts
      BY <1>1, <1>6 DEF WellFormed
    <2> QED
      BY <1>2, <1>6, <2>1 DEF Next, Instruction
  <1>7. CASE k.op = "phase" /\ SetPhase(k.signer, k.amount)
    <2>1. k.amount \in PhaseCodes
      BY <1>1, <1>7 DEF WellFormed
    <2> QED
      BY <1>2, <1>7, <2>1 DEF Next, Instruction
  <1> QED
    BY <1>3, <1>4, <1>5, <1>6, <1>7 DEF Executed, k

\* A step of the client leaves the chain alone, one of the chain is its own.
LEMMA StepIsProgramStep ==
  ASSUME ClientTypeOK, CallsAreWellFormed, [ClientNext]_clientVars
  PROVE  [Next]_vars
  <1>1. ASSUME NEW c \in Calls, Land(c) PROVE [Next]_vars
    BY <1>1, ExecutedIsNext DEF Land
  <1> QED
    BY <1>1 DEF ClientNext, clientVars, UseWallet, Caller, Method, CreateTokenMint, FindHolder,
       MintSupply, InitializeIcoCall, BuyTokensCall, SendDerived, SetPhaseCall, Return, Throw,
       Drop

----------------------------------------------------------------------------
(* Types and arguments                                                     *)

\* A call begins with the client's wallet, for everything it needs it for.
LEMMA BeginIs ==
  ASSUME wallet \in Users, NEW c \in Calls,
         NEW pc \in {"creating", "derived", "sent"}, NEW op \in {"create", "init", "buy", "phase"},
         NEW m \in Mints \cup {NoKey}, NEW t \in Users \cup {NoKey}, NEW n \in Nat,
         Begin(c, pc, op, m, t, n)
  PROVE  \E k \in Call : /\ call' = [call EXCEPT ![c] = k] /\ k.pc = pc
                         /\ k.op = op /\ k.mint = m /\ k.treasury = t /\ k.amount = n
  <1> DEFINE k == [pc |-> pc, op |-> op, owner |-> wallet, signer |-> wallet,
                   mint |-> m, treasury |-> t, amount |-> n]
  <1>1. k \in Call /\ k.pc = pc /\ k.op = op /\ k.mint = m /\ k.treasury = t /\ k.amount = n
    BY DEF Call
  <1>2. call' = [call EXCEPT ![c] = k]
    BY DEF Begin
  <1> HIDE DEF k
  <1> QED
    BY <1>1, <1>2

\* What each step of a method puts into its slot.
LEMMA MethodIs ==
  ASSUME ClientTypeOK, CallsAreWellFormed, NEW c \in Calls,
         FindHolder(c) \/ MintSupply(c) \/ SendDerived(c)
  PROVE  \E k \in Call :
           /\ call' = [call EXCEPT ![c] = k] /\ tx' = [tx EXCEPT ![c] = "flying"]
           /\ wallet \in Users /\ WellFormed(k) /\ k.mint = call[c].mint
           /\ call[c].op = "buy" => call[c].pc = "derived" /\ k.pc = "sent"
           /\ k.op = "buy" => call[c].op = "buy"
           /\ \/ k.op = "account" /\ call[c].op = "create"
              \/ k.op = "supply" /\ call[c].op = "account"
              \/ k.op = call[c].op /\ call[c].op \in {"init", "buy"}
  <1>1. /\ call[c] \in Call /\ wallet \in Users /\ WellFormed(call[c])
    BY IdleIsNoCall DEF FindHolder, MintSupply, SendDerived, CallsAreWellFormed, ClientTypeOK
  <1>2. CASE FindHolder(c)
    <2> DEFINE k == [call[c] EXCEPT !.pc = "holder", !.op = "account", !.owner = wallet,
                                    !.signer = wallet]
    <2>1. call[c].op = "create" /\ call[c].mint \in Mints
      BY <1>1, <1>2 DEF FindHolder, WellFormed
    <2>2. k \in Call /\ k.op = "account" /\ k.mint = call[c].mint /\ WellFormed(k)
      BY <1>1, <2>1 DEF Call, WellFormed
    <2>3. call' = [call EXCEPT ![c] = k] /\ tx' = [tx EXCEPT ![c] = "flying"]
      BY <1>1, <1>2 DEF FindHolder, Send, Call, ClientTypeOK
    <2> HIDE DEF k
    <2> QED
      BY <1>1, <2>1, <2>2, <2>3
  <1>3. CASE MintSupply(c)
    <2> DEFINE k == [call[c] EXCEPT !.pc = "sent", !.op = "supply", !.signer = wallet,
                                    !.amount = Supply]
    <2>1. call[c].op = "account" /\ call[c].mint \in Mints
      BY <1>1, <1>3 DEF MintSupply, WellFormed
    <2>2. Supply \in Nat
      BY ClientAssumption, InputsAssumption, ArithmeticAssumption
    <2>3. k \in Call /\ k.op = "supply" /\ k.mint = call[c].mint /\ WellFormed(k)
      BY <1>1, <2>1, <2>2 DEF Call, WellFormed
    <2>4. call' = [call EXCEPT ![c] = k] /\ tx' = [tx EXCEPT ![c] = "flying"]
      BY <1>1, <1>3 DEF MintSupply, Send, Call, ClientTypeOK
    <2> HIDE DEF k
    <2> QED
      BY <1>1, <2>1, <2>3, <2>4
  <1>4. CASE SendDerived(c)
    <2> DEFINE k == [call[c] EXCEPT !.pc = "sent", !.signer = wallet]
    <2>1. call[c].op \in {"init", "buy"}
      BY <1>1, <1>4 DEF SendDerived, WellFormed
    <2>2. /\ k \in Call /\ k.op = call[c].op /\ k.mint = call[c].mint /\ WellFormed(k)
          /\ k.pc = "sent" /\ call[c].pc = "derived"
      BY <1>1, <1>4, <2>1 DEF SendDerived, Call, WellFormed
    <2>3. call' = [call EXCEPT ![c] = k] /\ tx' = [tx EXCEPT ![c] = "flying"]
      BY <1>1, <1>4 DEF SendDerived, Send, Call, ClientTypeOK
    <2> HIDE DEF k
    <2> QED
      BY <1>1, <2>1, <2>2, <2>3
  <1> QED
    BY <1>2, <1>3, <1>4

\* What each method puts into its slot when it is called.
LEMMA CallerIs ==
  ASSUME ClientTypeOK, CallsAreWellFormed, NEW c \in Calls, Caller(c)
  PROVE  \E k \in Call, x \in {"none", "flying"} :
           /\ call' = [call EXCEPT ![c] = k] /\ tx' = [tx EXCEPT ![c] = x]
           /\ wallet \in Users /\ WellFormed(k) /\ tx[c] = "none"
           /\ \/ /\ k.op = "create" /\ x = "flying"
                 /\ ~mint[k.mint].exists /\ \A d \in Calls : call[d].mint # k.mint
              \/ k.op \in {"init", "buy"} /\ x = "none"
              \/ k.op = "phase" /\ x = "flying"
  <1> USE ClientAssumption, InputsAssumption, ArithmeticAssumption
  <1>1. tx[c] = "none"
    BY DEF Caller, CreateTokenMint, InitializeIcoCall, BuyTokensCall, SetPhaseCall,
           CallsAreWellFormed
  <1>2. wallet \in Users
    BY DEF Caller, CreateTokenMint, InitializeIcoCall, BuyTokensCall, SetPhaseCall,
           CallsAreWellFormed, ClientTypeOK
  <1>3. UNCHANGED tx => tx' = [tx EXCEPT ![c] = "none"]
    BY <1>1 DEF ClientTypeOK
  <1>4. ASSUME NEW m \in Mints, CreateTokenMint(c, m)
        PROVE  \E k \in Call : /\ call' = [call EXCEPT ![c] = k] /\ k.op = "create"
                               /\ k.mint = m /\ WellFormed(k)
    <2>1. Begin(c, "creating", "create", m, NoKey, 0)
      BY <1>4 DEF CreateTokenMint
    <2>2. PICK k \in Call : /\ call' = [call EXCEPT ![c] = k] /\ k.pc = "creating"
                           /\ k.op = "create" /\ k.mint = m
      BY <1>2, <2>1, BeginIs
    <2> QED
      BY <2>2 DEF WellFormed
  <1>5. ASSUME NEW m \in Mints, NEW t \in Users, NEW n \in TokenAmounts,
               InitializeIcoCall(c, m, t, n)
        PROVE  \E k \in Call : /\ call' = [call EXCEPT ![c] = k] /\ k.op = "init"
                               /\ WellFormed(k)
    <2>1. Begin(c, "derived", "init", m, t, n) /\ n \in Nat
      BY <1>5 DEF InitializeIcoCall
    <2>2. PICK k \in Call : /\ call' = [call EXCEPT ![c] = k] /\ k.pc = "derived"
                           /\ k.op = "init" /\ k.mint = m /\ k.treasury = t /\ k.amount = n
      BY <1>2, <2>1, BeginIs
    <2> QED
      BY <2>2 DEF WellFormed
  <1>6. ASSUME NEW m \in Mints, NEW t \in Users, NEW sol \in SolArgs,
               BuyTokensCall(c, m, t, sol)
        PROVE  \E k \in Call : /\ call' = [call EXCEPT ![c] = k] /\ k.op = "buy"
                               /\ WellFormed(k)
    <2>1. Lamports(sol) \in SolAmounts
      BY DEF Lamports
    <2>2. Begin(c, "derived", "buy", m, t, Lamports(sol)) /\ Lamports(sol) \in Nat
      <3>1. Begin(c, "derived", "buy", m, t, Lamports(sol))
        BY <1>6 DEF BuyTokensCall
      <3>2. \A x \in SolAmounts : x \in Nat
        BY InputsAssumption, ArithmeticAssumption
      <3> HIDE DEF Lamports
      <3> QED
        BY <2>1, <3>1, <3>2
    <2>3. PICK k \in Call : /\ call' = [call EXCEPT ![c] = k] /\ k.pc = "derived"
                           /\ k.op = "buy" /\ k.mint = m /\ k.treasury = t
                           /\ k.amount = Lamports(sol)
      BY <1>2, <2>2, BeginIs
    <2> QED
      BY <2>1, <2>3 DEF WellFormed
  <1>7. ASSUME NEW code \in Phases, SetPhaseCall(c, code)
        PROVE  \E k \in Call : /\ call' = [call EXCEPT ![c] = k] /\ k.op = "phase"
                               /\ WellFormed(k)
    <2>1. Begin(c, "sent", "phase", NoKey, NoKey, code) /\ code \in PhaseCodes /\ code \in Nat
      BY <1>7 DEF SetPhaseCall, PhaseCodes
    <2>2. PICK k \in Call : /\ call' = [call EXCEPT ![c] = k] /\ k.pc = "sent"
                           /\ k.op = "phase" /\ k.amount = code
      BY <1>2, <2>1, BeginIs
    <2> QED
      BY <2>1, <2>2 DEF WellFormed
  <1>8. ASSUME NEW m \in Mints, CreateTokenMint(c, m)
        PROVE  /\ ~mint[m].exists /\ \A d \in Calls : call[d].mint # m
               /\ tx' = [tx EXCEPT ![c] = "flying"]
    BY <1>8 DEF CreateTokenMint, Send
  <1>9. ASSUME NEW m \in Mints, NEW t \in Users, NEW n,
               InitializeIcoCall(c, m, t, n) \/ BuyTokensCall(c, m, t, n)
        PROVE  tx' = [tx EXCEPT ![c] = "none"]
    BY <1>3, <1>9 DEF InitializeIcoCall, BuyTokensCall
  <1>10. ASSUME NEW code, SetPhaseCall(c, code) PROVE tx' = [tx EXCEPT ![c] = "flying"]
    BY <1>10 DEF SetPhaseCall, Send
  <1>11. CASE \E m \in Mints : CreateTokenMint(c, m)
    BY <1>1, <1>2, <1>4, <1>8, <1>11
  <1>12. CASE \E m \in Mints, t \in Users, n \in TokenAmounts : InitializeIcoCall(c, m, t, n)
    BY <1>1, <1>2, <1>5, <1>9, <1>12
  <1>13. CASE \E m \in Mints, t \in Users, sol \in SolArgs : BuyTokensCall(c, m, t, sol)
    BY <1>1, <1>2, <1>6, <1>9, <1>13
  <1>14. CASE \E code \in Phases : SetPhaseCall(c, code)
    BY <1>1, <1>2, <1>7, <1>10, <1>14
  <1> QED
    BY <1>11, <1>12, <1>13, <1>14 DEF Caller

\* What becomes of the slot of a transaction that has reached its end.
LEMMA SettleIs ==
  ASSUME ClientTypeOK, CallsAreWellFormed, NEW c \in Calls, NEW result \in {"done", "lost"},
         tx[c] = "flying", Settle(c, result)
  PROVE  /\ call[c] \in Call /\ wallet \in Users /\ WellFormed(call[c])
         /\ \E k \in Call \cup {Idle}, x \in {"none", result} :
              /\ call' = [call EXCEPT ![c] = k] /\ tx' = [tx EXCEPT ![c] = x]
              /\ \/ call[c].pc = "idle" /\ k = Idle /\ x = "none"
                 \/ call[c].pc # "idle" /\ k = call[c] /\ x = result
  <1>1. call[c] \in Call /\ wallet \in Users /\ WellFormed(call[c])
    BY DEF CallsAreWellFormed, ClientTypeOK
  <1>2. CASE call[c].pc = "idle"
    BY <1>1, <1>2 DEF Settle
  <1>3. CASE call[c].pc # "idle"
    BY <1>1, <1>3 DEF Settle
  <1> QED
    BY <1>1, <1>2, <1>3

\* No step of a call or of the chain breaks the types or the calls' arguments.
LEMMA ClientTypeStep ==
  ASSUME ClientTypeOK, CallsAreWellFormed, [ClientNext]_clientVars
  PROVE  ClientTypeOK' /\ CallsAreWellFormed'
  <1>1. ASSUME NEW u \in Users, UseWallet(u) PROVE ClientTypeOK' /\ CallsAreWellFormed'
    BY <1>1 DEF UseWallet, ClientTypeOK, CallsAreWellFormed, WellFormed, reports
  <1>2. ASSUME NEW c \in Calls, Caller(c) PROVE ClientTypeOK' /\ CallsAreWellFormed'
    <2>1. UNCHANGED <<wallet, ready, reports, rent>>
      BY <1>2 DEF Caller, CreateTokenMint, InitializeIcoCall, BuyTokensCall, SetPhaseCall
    <2>2. PICK k \in Call, x \in {"none", "flying"} :
            /\ call' = [call EXCEPT ![c] = k] /\ tx' = [tx EXCEPT ![c] = x]
            /\ wallet \in Users /\ WellFormed(k)
      BY <1>2, CallerIs
    <2>3. k # Idle
      BY IdleIsNoCall
    <2> QED
      BY <2>1, <2>2, <2>3, SlotStep DEF ClientTypeOK, reports
  <1>3. ASSUME NEW c \in Calls, FindHolder(c) \/ MintSupply(c) \/ SendDerived(c)
        PROVE  ClientTypeOK' /\ CallsAreWellFormed'
    <2>1. UNCHANGED <<wallet, ready, reports, rent>>
      BY <1>3 DEF FindHolder, MintSupply, SendDerived
    <2>2. PICK k \in Call :
            /\ call' = [call EXCEPT ![c] = k] /\ tx' = [tx EXCEPT ![c] = "flying"]
            /\ wallet \in Users /\ WellFormed(k)
      BY <1>3, MethodIs
    <2>3. k # Idle
      BY IdleIsNoCall
    <2> QED
      BY <2>1, <2>2, <2>3, SlotStep DEF ClientTypeOK, reports
  <1>4. ASSUME NEW c \in Calls, Leave(c), UNCHANGED <<wallet, ready>>
        PROVE  /\ call' \in [Calls -> Call \cup {Idle}]
               /\ tx' \in [Calls -> {"none", "flying", "done", "lost"}]
               /\ CallsAreWellFormed'
    <2>1. PICK k \in Call \cup {Idle}, x \in {"none", "flying"} :
            /\ call' = [call EXCEPT ![c] = k] /\ tx' = [tx EXCEPT ![c] = x]
            /\ \/ k = Idle /\ x = "none"
               \/ x = "flying" /\ call[c] \in Call
                  /\ k \in Call /\ k = [call[c] EXCEPT !.pc = "idle"]
      BY <1>4, LeaveIs
    <2>2. k # Idle => wallet \in Users /\ WellFormed(k)
      BY <2>1, IdleIsNoCall DEF CallsAreWellFormed, WellFormed, Call
    <2>3. x # "none" => k # Idle
      BY <2>1, IdleIsNoCall
    <2> QED
      BY <1>4, <2>1, <2>2, <2>3, SlotStep
  <1>5. ASSUME NEW c \in Calls, Return(c) PROVE ClientTypeOK' /\ CallsAreWellFormed'
    <2>1. /\ call[c] \in Call /\ WellFormed(call[c])
      BY <1>5, IdleIsNoCall DEF Return, CallsAreWellFormed, ClientTypeOK
    <2>2. /\ call[c].op = "supply" => call[c].mint \in Mints
          /\ call[c].signer \in Users /\ call[c].amount \in Nat
      BY <2>1 DEF WellFormed, Call
    <2>3. returned' \subseteq Mints /\ paid' \in [Users -> Nat]
      BY <1>5, <2>2 DEF Return, ClientTypeOK
    <2> QED
      BY <1>4, <1>5, <2>3 DEF Return, ClientTypeOK
  <1>6. ASSUME NEW c \in Calls, Throw(c) PROVE ClientTypeOK' /\ CallsAreWellFormed'
    <2>1. call[c] \in Call
      BY <1>6, IdleIsNoCall DEF Throw, ClientTypeOK
    <2>2. doubtful' \subseteq Users
      BY <1>6, <2>1 DEF Throw, ClientTypeOK, Call
    <2> QED
      BY <1>4, <1>6, <2>2 DEF Throw, ClientTypeOK
  <1>7. ASSUME NEW c \in Calls, Land(c) \/ Drop(c)
        PROVE  ClientTypeOK' /\ CallsAreWellFormed'
    <2>1. PICK result \in {"done", "lost"} : tx[c] = "flying" /\ Settle(c, result)
      BY <1>7 DEF Land, Drop
    <2>2. UNCHANGED <<wallet, ready, reports>>
      BY <2>1 DEF Settle
    <2>6. rent' \in [Users -> Nat]
      <3>1. call[c].signer \in Users
        BY <2>1, SettleIs DEF Call
      <3> QED
        BY <1>7, <3>1 DEF Land, Drop, ClientTypeOK
    <2>3. PICK k \in Call \cup {Idle}, x \in {"none", result} :
            /\ call' = [call EXCEPT ![c] = k] /\ tx' = [tx EXCEPT ![c] = x]
            /\ (k = Idle /\ x = "none") \/ (k = call[c] /\ x = result)
      BY <2>1, SettleIs
    <2>4. call[c] \in Call /\ wallet \in Users /\ WellFormed(call[c])
      BY <2>1, SettleIs
    <2>5. (k # Idle => wallet \in Users /\ WellFormed(k)) /\ (x # "none" => k # Idle)
      BY <2>3, <2>4, IdleIsNoCall
    <2> QED
      BY <2>2, <2>3, <2>5, <2>6, SlotStep DEF ClientTypeOK, reports
  <1>8. CASE UNCHANGED clientVars
    BY <1>8 DEF clientVars, client, reports, ClientTypeOK, CallsAreWellFormed, WellFormed
  <1> QED
    BY <1>1, <1>2, <1>3, <1>5, <1>6, <1>7, <1>8 DEF ClientNext, Method

----------------------------------------------------------------------------
(* Supplies                                                                *)

\* A mint that is created, or is getting its supply, has none, and no other
\* call creates it; so a supply is minted once, in whatever order the steps of
\* different calls come.
LEMMA MintsStep ==
  ASSUME ClientTypeOK, CallsAreWellFormed, MintsAreCreatedInOrder, IInv,
         [ClientNext]_clientVars
  PROVE  MintsAreCreatedInOrder'
  <1> USE ClientAssumption
  <1>1. ASSUME NEW c \in Calls, Caller(c) PROVE MintsAreCreatedInOrder'
    <2>1. mint' = mint
      BY <1>1 DEF Caller, CreateTokenMint, InitializeIcoCall, BuyTokensCall, SetPhaseCall,
                  vars, accounts
    <2>2. PICK k \in Call, x \in {"none", "flying"} :
            /\ call' = [call EXCEPT ![c] = k] /\ tx' = [tx EXCEPT ![c] = x]
            /\ \/ /\ k.op = "create" /\ x = "flying"
                  /\ ~mint[k.mint].exists /\ \A d \in Calls : call[d].mint # k.mint
               \/ k.op \in {"init", "buy", "phase"}
      BY <1>1, CallerIs
    <2>3. CASE k.op \in {"init", "buy", "phase"}
      BY <2>1, <2>2, <2>3, SlotMints
    <2>4. CASE /\ k.op = "create" /\ x = "flying"
               /\ ~mint[k.mint].exists /\ \A d \in Calls : call[d].mint # k.mint
      <3>1. \A d \in Calls : call'[d] = (IF d = c THEN k ELSE call[d])
                             /\ tx'[d] = (IF d = c THEN x ELSE tx[d])
        BY <2>2 DEF ClientTypeOK
      <3>2. \A d \in Calls, m \in Mints :
              Creates(d, m)' => (d = c /\ m = k.mint) \/ (d # c /\ Creates(d, m) /\ m # k.mint)
        BY <2>4, <3>1 DEF Creates
      <3>3. ASSUME NEW d \in Calls, NEW m \in Mints, Creates(d, m)'
            PROVE  IF call'[d].op = "supply" /\ tx'[d] = "done" THEN mint'[m].supply = Supply
                   ELSE mint'[m].supply = 0
        BY <2>1, <2>4, <3>1, <3>2, <3>3 DEF MintsAreCreatedInOrder
      <3> QED
        BY <2>1, <3>2, <3>3 DEF MintsAreCreatedInOrder
    <2> QED
      BY <2>2, <2>3, <2>4
  <1>2. ASSUME NEW c \in Calls, FindHolder(c) \/ MintSupply(c) \/ SendDerived(c)
        PROVE  MintsAreCreatedInOrder'
    <2>1. mint' = mint
      BY <1>2 DEF FindHolder, MintSupply, SendDerived, vars, accounts
    <2>2. PICK k \in Call :
            /\ call' = [call EXCEPT ![c] = k] /\ tx' = [tx EXCEPT ![c] = "flying"]
            /\ k.mint = call[c].mint
            /\ \/ k.op = "account" /\ call[c].op = "create"
               \/ k.op = "supply" /\ call[c].op = "account"
               \/ k.op = call[c].op /\ call[c].op \in {"init", "buy"}
      BY <1>2, MethodIs
    <2> QED
      BY <2>1, <2>2, SlotMints
  <1>3. ASSUME NEW c \in Calls, Return(c) \/ Throw(c) PROVE MintsAreCreatedInOrder'
    <2>1. mint' = mint /\ Leave(c)
      BY <1>3 DEF Return, Throw, vars, accounts
    <2>2. PICK k \in Call \cup {Idle}, x \in {"none", "flying"} :
            /\ call' = [call EXCEPT ![c] = k] /\ tx' = [tx EXCEPT ![c] = x]
            /\ \/ k = Idle /\ x = "none"
               \/ tx[c] = "flying" /\ x = "flying" /\ call[c] \in Call
                  /\ k \in Call /\ k = [call[c] EXCEPT !.pc = "idle"]
      BY <2>1, LeaveIs
    <2>3. k.op \in {"create", "account", "supply"} =>
            call[c].op = k.op /\ call[c].mint = k.mint /\ tx[c] = "flying" /\ x = "flying"
      BY <2>2, IdleIsNoCall DEF Call
    <2> QED
      BY <2>1, <2>2, <2>3, SlotMints
  <1>4. ASSUME NEW c \in Calls, NEW result \in {"done", "lost"}, tx[c] = "flying",
               Settle(c, result), mint' = mint, call[c].op = "supply" => result = "lost"
        PROVE  MintsAreCreatedInOrder'
    <2>1. PICK k \in Call \cup {Idle}, x \in {"none", result} :
            /\ call' = [call EXCEPT ![c] = k] /\ tx' = [tx EXCEPT ![c] = x]
            /\ (k = Idle /\ x = "none") \/ (k = call[c] /\ x = result)
      BY <1>4, SettleIs
    <2>2. k.op \in {"create", "account", "supply"} => k = call[c] /\ x = result
      BY <2>1, IdleIsNoCall
    <2> QED
      BY <1>4, <2>1, <2>2, SlotMints
  <1>5. ASSUME NEW c \in Calls, Drop(c) PROVE MintsAreCreatedInOrder'
    BY <1>4, <1>5 DEF Drop, vars, accounts
  <1>6. ASSUME NEW c \in Calls, Land(c) PROVE MintsAreCreatedInOrder'
    <2>1. tx[c] = "flying" /\ Executed(call[c]) /\ Settle(c, "done")
      BY <1>6 DEF Land
    <2>2. call[c] \in Call /\ WellFormed(call[c])
      BY <2>1, SettleIs
    <2>3. PICK k \in Call \cup {Idle}, x \in {"none", "done"} :
            /\ call' = [call EXCEPT ![c] = k] /\ tx' = [tx EXCEPT ![c] = x]
            /\ (k = Idle /\ x = "none") \/ (k = call[c] /\ x = "done")
      BY <2>1, SettleIs
    <2>4. \A d \in Calls : call'[d] = (IF d = c THEN k ELSE call[d])
                           /\ tx'[d] = (IF d = c THEN x ELSE tx[d])
      BY <2>3 DEF ClientTypeOK
    <2>5. \A d \in Calls, m \in Mints :
            Creates(d, m)' => Creates(d, m) /\ (d = c => k = call[c] /\ x = "done")
      BY <2>3, <2>4, IdleIsNoCall DEF Creates
    <2>6. CASE call[c].op = "create" /\ CreateMint(call[c].signer, call[c].mint, TOKEN_DECIMALS)
      <3>1. /\ ~mint[call[c].mint].exists /\ call[c].mint \in Mints
            /\ mint' = [mint EXCEPT ![call[c].mint] =
                           NewMint(call[c].signer, TOKEN_DECIMALS)]
        BY <2>2, <2>6 DEF CreateMint, WellFormed
      <3>2. \A m \in Mints : /\ mint'[m].supply = mint[m].supply
                             /\ ~mint'[m].exists => ~mint[m].exists
        BY <3>1 DEF NewMint, MintsAreCreatedInOrder, IInv, TypeOK
      <3>3. ASSUME NEW d \in Calls, NEW m \in Mints, Creates(d, m)'
            PROVE  IF call'[d].op = "supply" /\ tx'[d] = "done" THEN mint'[m].supply = Supply
                   ELSE mint'[m].supply = 0
        BY <2>4, <2>5, <2>6, <3>2, <3>3 DEF MintsAreCreatedInOrder
      <3> QED
        BY <2>5, <3>2, <3>3 DEF MintsAreCreatedInOrder
    <2>7. CASE call[c].op = "supply"
               /\ MintTo(call[c].signer, call[c].mint, call[c].owner, call[c].amount)
      <3> DEFINE n == call[c].mint
      <3>1. /\ mint[n].exists /\ n \in Mints /\ call[c].amount = Supply
            /\ mint' = [mint EXCEPT ![n].supply = @ + Supply]
        BY <2>2, <2>7 DEF MintTo, WellFormed
      <3>2. Creates(c, n) /\ mint[n].supply = 0
        BY <2>1, <2>7, <3>1 DEF Creates, MintsAreCreatedInOrder
      <3>3. /\ mint'[n].supply = Supply /\ mint'[n].exists
            /\ \A m \in Mints : m # n => mint'[m] = mint[m]
        BY <3>1, <3>2, InputsAssumption, ArithmeticAssumption DEF IInv, TypeOK, Mint
      <3> HIDE DEF n
      <3>4. ASSUME NEW d \in Calls, NEW m \in Mints, Creates(d, m)'
            PROVE  IF call'[d].op = "supply" /\ tx'[d] = "done" THEN mint'[m].supply = Supply
                   ELSE mint'[m].supply = 0
        <4>1. CASE m = n
          <5>1. d = c
            BY <2>5, <3>1, <3>2, <3>4, <4>1 DEF MintsAreCreatedInOrder
          <5> QED
            BY <2>4, <2>5, <2>7, <3>3, <3>4, <4>1, <5>1
        <4>2. CASE m # n
          <5>1. d # c
            BY <2>5, <3>4, <4>2 DEF Creates, n
          <5> QED
            BY <2>4, <2>5, <3>3, <3>4, <4>2, <5>1 DEF MintsAreCreatedInOrder
        <4> QED
          BY <4>1, <4>2
      <3>5. \A m \in Mints : ~mint'[m].exists => mint'[m].supply = 0
        BY <3>3 DEF MintsAreCreatedInOrder
      <3> QED
        BY <2>5, <3>4, <3>5 DEF MintsAreCreatedInOrder
    <2>8. CASE call[c].op \in {"account", "init", "buy", "phase"}
      <3>1. mint' = mint
        BY <2>1, <2>8 DEF Executed, InitializeIco, BuyTokens, SetPhase, vars, accounts
      <3> QED
        BY <1>4, <2>1, <2>8, <3>1
    <2> QED
      BY <2>1, <2>6, <2>7, <2>8 DEF Executed
  <1>7. CASE UNCHANGED <<mint, call, tx>>
    BY <1>7 DEF MintsAreCreatedInOrder, Creates
  <1> QED
    BY <1>1, <1>2, <1>3, <1>5, <1>6, <1>7 DEF ClientNext, Method, UseWallet, clientVars,
       client, vars, accounts

\* createTokenMint returns when the supply has been minted, and it is minted
\* only where there is none.
LEMMA SupplyStep ==
  ASSUME ClientTypeOK, CallsAreWellFormed, MintsAreCreatedInOrder, ReturnedMintIsSupplied,
         IInv, [ClientNext]_clientVars
  PROVE  ReturnedMintIsSupplied'
  <1> USE ClientAssumption
  <1>1. CASE UNCHANGED <<mint, returned>>
    BY <1>1 DEF ReturnedMintIsSupplied
  <1>2. ASSUME NEW c \in Calls, Return(c) PROVE ReturnedMintIsSupplied'
    <2>1. mint' = mint /\ tx[c] = "done"
      BY <1>2 DEF Return, vars, accounts
    <2>2. CASE call[c].op = "supply"
      <3>1. call[c].mint \in Mints
        BY <1>2, <2>2, IdleIsNoCall DEF CallsAreWellFormed, WellFormed
      <3>2. mint[call[c].mint].supply = Supply
        BY <2>1, <2>2, <3>1 DEF MintsAreCreatedInOrder, Creates
      <3>3. returned' = returned \cup {call[c].mint}
        BY <1>2, <2>2 DEF Return
      <3> QED
        BY <2>1, <3>2, <3>3 DEF ReturnedMintIsSupplied
    <2>3. CASE call[c].op # "supply"
      BY <1>1, <1>2, <2>1, <2>3 DEF Return
    <2> QED
      BY <2>2, <2>3
  <1>3. ASSUME NEW c \in Calls, Land(c) PROVE ReturnedMintIsSupplied'
    <2>1. tx[c] = "flying" /\ Executed(call[c]) /\ returned' = returned
      BY <1>3 DEF Land, Settle, reports
    <2>2. call[c] \in Call /\ WellFormed(call[c])
      BY <1>3, SettleIs DEF Land
    <2>3. CASE call[c].op = "create" /\ CreateMint(call[c].signer, call[c].mint, TOKEN_DECIMALS)
      <3>1. /\ ~mint[call[c].mint].exists /\ call[c].mint \in Mints
            /\ mint' = [mint EXCEPT ![call[c].mint] =
                           NewMint(call[c].signer, TOKEN_DECIMALS)]
        BY <2>2, <2>3 DEF CreateMint, WellFormed
      <3>2. \A m \in Mints : mint'[m].supply = mint[m].supply
        BY <3>1 DEF NewMint, MintsAreCreatedInOrder, IInv, TypeOK
      <3> QED
        BY <2>1, <3>2 DEF ReturnedMintIsSupplied
    <2>4. CASE call[c].op = "supply"
               /\ MintTo(call[c].signer, call[c].mint, call[c].owner, call[c].amount)
      <3> DEFINE n == call[c].mint
      <3>1. /\ n \in Mints /\ call[c].amount = Supply
            /\ mint' = [mint EXCEPT ![n].supply = @ + Supply]
        BY <2>2, <2>4 DEF MintTo, WellFormed
      <3>2. mint[n].supply = 0
        BY <2>1, <2>4, <3>1 DEF Creates, MintsAreCreatedInOrder
      <3>3. /\ mint'[n].supply = Supply
            /\ \A m \in Mints : m # n => mint'[m] = mint[m]
        BY <3>1, <3>2, InputsAssumption, ArithmeticAssumption DEF IInv, TypeOK, Mint
      <3> HIDE DEF n
      <3> QED
        BY <2>1, <3>3 DEF ReturnedMintIsSupplied
    <2>5. CASE call[c].op \in {"account", "init", "buy", "phase"}
      BY <1>1, <2>1, <2>5 DEF Executed, InitializeIco, BuyTokens, SetPhase, vars, accounts
    <2> QED
      BY <2>1, <2>3, <2>4, <2>5 DEF Executed
  <1> QED
    BY <1>1, <1>2, <1>3 DEF ClientNext, clientVars, vars, accounts, reports, UseWallet, Caller,
       Method, CreateTokenMint, FindHolder, MintSupply, InitializeIcoCall, BuyTokensCall,
       SendDerived, SetPhaseCall, Throw, Drop, Settle

----------------------------------------------------------------------------
(* Purchases                                                               *)

\* What has been bought and not reported changes with the slot that changes.
LEMMA SlotUnreported ==
  ASSUME ClientTypeOK, ClientTypeOK', NEW c \in Calls, NEW k \in Call \cup {Idle},
         NEW x \in {"none", "flying", "done", "lost"},
         call' = [call EXCEPT ![c] = k], tx' = [tx EXCEPT ![c] = x], NEW u \in Users
  PROVE  /\ Bought(u, k, x) \in Nat /\ Bought(u, call[c], tx[c]) \in Nat
         /\ Unreported(u) \in Nat
         /\ Unreported(u)' = Unreported(u) + (Bought(u, k, x) - Bought(u, call[c], tx[c]))
  <1> DEFINE before == [d \in Calls |-> Bought(u, call[d], tx[d])]
             after == [d \in Calls |-> Bought(u, call'[d], tx'[d])]
  <1>1. \A d \in Calls : /\ call[d] \in Call \cup {Idle} /\ call'[d] \in Call \cup {Idle}
                         /\ call'[d] = (IF d = c THEN k ELSE call[d])
                         /\ tx'[d] = (IF d = c THEN x ELSE tx[d])
    BY DEF ClientTypeOK
  <1>2. \A j \in Call \cup {Idle} : j.amount \in Nat
    BY DEF Call, Idle
  <1>3. \A j \in Call \cup {Idle} : \A y : Bought(u, j, y) \in Nat
    BY <1>2 DEF Bought
  <1>4. before \in [Calls -> Nat] /\ after \in [Calls -> Nat]
    BY <1>1, <1>3
  <1>5. /\ \A d \in Calls : d # c => after[d] = before[d]
        /\ after[c] = Bought(u, k, x) /\ before[c] = Bought(u, call[c], tx[c])
    BY <1>1
  <1>6. Unreported(u) = SumFunction(before) /\ Unreported(u)' = SumFunction(after)
    BY DEF Unreported, Bought
  <1> HIDE DEF before, after
  <1>7. before \in [Calls -> Int] /\ after \in [Calls -> Int]
    BY <1>4
  <1>8. SumFunction(after) = SumFunction(before) + (after[c] - before[c])
    BY <1>5, <1>7, CallsAssumption, SumChanges
  <1>9. SumFunction(before) \in Nat
    BY <1>4, CallsAssumption, SumOfNats
  <1> QED
    BY <1>1, <1>3, <1>5, <1>6, <1>8, <1>9

\* A slot that changes without a purchase in it being executed or reported.
LEMMA SlotReports ==
  ASSUME ClientTypeOK, ClientTypeOK', ReportInv, NEW c \in Calls, NEW k \in Call \cup {Idle},
         NEW x \in {"none", "flying", "done", "lost"},
         call' = [call EXCEPT ![c] = k], tx' = [tx EXCEPT ![c] = x],
         UNCHANGED <<record, paid>>, doubtful \subseteq doubtful', IInv,
         \A u \in Users : Bought(u, k, x) = 0,
         \A u \in Users \ doubtful' : Bought(u, call[c], tx[c]) = 0,
         k.op = "buy" /\ x # "none" =>
           \/ k.pc = "sent"
           \/ k.pc = "idle" /\ x = "flying" /\ k.signer \in doubtful'
  PROVE  ReportInv'
  <1>1. PurchasesAreWaitedFor'
    <2>1. \A d \in Calls : /\ call'[d] = (IF d = c THEN k ELSE call[d])
                           /\ tx'[d] = (IF d = c THEN x ELSE tx[d])
      BY DEF ClientTypeOK
    <2> QED
      BY <2>1 DEF ReportInv, PurchasesAreWaitedFor
  <1>2. ASSUME NEW u \in Users
        PROVE  /\ paid'[u] + Unreported(u)' <= record'[u].total_sol_spent
               /\ u \notin doubtful' =>
                    paid'[u] + Unreported(u)' = record'[u].total_sol_spent
    <2>1. /\ paid[u] \in Nat /\ record[u].total_sol_spent \in Nat
          /\ paid'[u] = paid[u] /\ record'[u] = record[u]
      BY DEF ClientTypeOK, IInv, TypeOK, PurchaseRecord
    <2>2. /\ paid[u] + Unreported(u) <= record[u].total_sol_spent
          /\ u \notin doubtful => paid[u] + Unreported(u) = record[u].total_sol_spent
      BY DEF ReportInv, RecordsAreReported
    <2>3. /\ Unreported(u) \in Nat /\ Bought(u, call[c], tx[c]) \in Nat
          /\ Unreported(u)' = Unreported(u) + (Bought(u, k, x) - Bought(u, call[c], tx[c]))
      BY SlotUnreported
    <2>4. Bought(u, k, x) = 0 /\ (u \notin doubtful' => Bought(u, call[c], tx[c]) = 0)
      OBVIOUS
    <2> QED
      BY <2>1, <2>2, <2>3, <2>4
  <1> QED
    BY <1>1, <1>2 DEF ReportInv, RecordsAreReported

\* A purchase that is executed is recorded for the signer of the transaction, and
\* its call can tell of it unless it has already thrown.
LEMMA LandReports ==
  ASSUME ClientTypeOK, ClientTypeOK', CallsAreWellFormed, ReportInv, IInv, IInv',
         NEW c \in Calls, Land(c)
  PROVE  ReportInv'
  <1>1. /\ tx[c] = "flying" /\ Executed(call[c]) /\ Settle(c, "done")
        /\ call[c] \in Call /\ WellFormed(call[c]) /\ UNCHANGED <<paid, doubtful>>
    BY SettleIs DEF Land, Settle, reports
  <1>2. PICK k \in Call \cup {Idle}, x \in {"none", "done"} :
          /\ call' = [call EXCEPT ![c] = k] /\ tx' = [tx EXCEPT ![c] = x]
          /\ \/ call[c].pc = "idle" /\ k = Idle /\ x = "none"
             \/ call[c].pc # "idle" /\ k = call[c] /\ x = "done"
    BY <1>1, SettleIs
  <1>3. call[c].op = "buy" =>
          \/ call[c].pc = "sent"
          \/ call[c].pc = "idle" /\ call[c].signer \in doubtful
    BY <1>1 DEF ReportInv, PurchasesAreWaitedFor
  <1>4. k.op = "buy" /\ x # "none" => k.pc = "sent"
    BY <1>2, <1>3
  <1>5. \A u \in Users : Bought(u, call[c], tx[c]) = 0
    BY <1>1 DEF Bought
  <1>6. CASE call[c].op # "buy"
    <2>1. \A u \in Users : Bought(u, k, x) = 0
      BY <1>2, <1>6, IdleIsNoCall DEF Bought
    <2>2. record' = record
      BY <1>1, <1>6 DEF Executed, CreateMint, MintTo, InitializeIco, SetPhase, vars, accounts
    <2> QED
      BY <1>1, <1>2, <1>4, <1>5, <2>1, <2>2, SlotReports
  <1>7. CASE call[c].op = "buy"
    <2> DEFINE b == call[c].signer
               n == call[c].amount
    <2>1. BuyTokens(b, call[c].mint, call[c].treasury, n) /\ b \in Users /\ n \in Nat
      BY <1>1, <1>7 DEF Executed, Call
    <2>2. RecordPurchase(b, n, TokensFor(ico_config.phase, n))
      BY <2>1 DEF BuyTokens
    <2>3. /\ \A u \in Users \ {b} : record'[u] = record[u]
          /\ record'[b].total_sol_spent = record[b].total_sol_spent + n
      BY <2>1, <2>2 DEF RecordPurchase, IInv, TypeOK, PurchaseRecord
    <2>4. \/ \A u \in Users : Bought(u, k, x) = IF u = b THEN n ELSE 0
          \/ b \in doubtful /\ \A u \in Users : Bought(u, k, x) = 0
      BY <1>2, <1>3, <1>7 DEF Bought
    <2>5. PurchasesAreWaitedFor'
      <3>1. \A d \in Calls : /\ call'[d] = (IF d = c THEN k ELSE call[d])
                             /\ tx'[d] = (IF d = c THEN x ELSE tx[d])
        BY <1>2 DEF ClientTypeOK
      <3> QED
        BY <1>1, <1>4, <3>1 DEF ReportInv, PurchasesAreWaitedFor
    <2> HIDE DEF b, n
    <2>6. ASSUME NEW u \in Users
          PROVE  /\ paid'[u] + Unreported(u)' <= record'[u].total_sol_spent
                 /\ u \notin doubtful' =>
                      paid'[u] + Unreported(u)' = record'[u].total_sol_spent
      <3>1. paid[u] \in Nat /\ record[u].total_sol_spent \in Nat /\ paid' = paid
        BY <1>1 DEF ClientTypeOK, IInv, TypeOK, PurchaseRecord
      <3>2. /\ paid[u] + Unreported(u) <= record[u].total_sol_spent
            /\ u \notin doubtful => paid[u] + Unreported(u) = record[u].total_sol_spent
        BY DEF ReportInv, RecordsAreReported
      <3>3. /\ Unreported(u) \in Nat /\ Bought(u, call[c], tx[c]) = 0
            /\ Unreported(u)' = Unreported(u) + (Bought(u, k, x) - Bought(u, call[c], tx[c]))
        <4>1. x \in {"none", "flying", "done", "lost"}
          OBVIOUS
        <4>2. /\ Unreported(u) \in Nat
              /\ Unreported(u)' = Unreported(u) + (Bought(u, k, x) - Bought(u, call[c], tx[c]))
          BY <1>2, <4>1, SlotUnreported
        <4> QED
          BY <1>5, <4>2
      <3>4. \/ Bought(u, k, x) = IF u = b THEN n ELSE 0
            \/ Bought(u, k, x) = 0 /\ (u = b => u \in doubtful)
        BY <2>4
      <3>5. record'[u].total_sol_spent
              = record[u].total_sol_spent + (IF u = b THEN n ELSE 0)
        BY <2>1, <2>3, <3>1
      <3> QED
        BY <1>1, <2>1, <3>1, <3>2, <3>3, <3>4, <3>5
    <2> QED
      BY <2>5, <2>6 DEF ReportInv, RecordsAreReported
  <1> QED
    BY <1>6, <1>7

\* buyTokens returns for a purchase that was executed, once.
LEMMA ReturnReports ==
  ASSUME ClientTypeOK, ClientTypeOK', CallsAreWellFormed, ReportInv, IInv,
         NEW c \in Calls, Return(c)
  PROVE  ReportInv'
  <1>1. /\ tx[c] = "done" /\ Leave(c) /\ UNCHANGED <<record, doubtful>>
        /\ paid' = IF call[c].op = "buy"
                   THEN [paid EXCEPT ![call[c].signer] = @ + call[c].amount] ELSE paid
    BY DEF Return, vars, accounts
  <1>2. call' = [call EXCEPT ![c] = Idle] /\ tx' = [tx EXCEPT ![c] = "none"]
    BY <1>1, LeaveIs
  <1>3. \A u \in Users : Bought(u, Idle, "none") = 0
    BY DEF Bought
  <1>4. CASE call[c].op # "buy"
    <2>1. \A u \in Users : Bought(u, call[c], tx[c]) = 0
      BY <1>4 DEF Bought
    <2>2. paid' = paid
      BY <1>1, <1>4
    <2> QED
      BY <1>1, <1>2, <1>3, <2>1, <2>2, SlotReports
  <1>5. CASE call[c].op = "buy"
    <2> DEFINE b == call[c].signer
               n == call[c].amount
    <2>1. b \in Users /\ n \in Nat
      BY <1>1, IdleIsNoCall DEF CallsAreWellFormed, ClientTypeOK, Call
    <2>2. \A u \in Users : /\ Bought(u, call[c], tx[c]) = IF u = b THEN n ELSE 0
                           /\ paid'[u] = paid[u] + (IF u = b THEN n ELSE 0)
      BY <1>1, <1>5, <2>1 DEF Bought, ClientTypeOK
    <2>3. PurchasesAreWaitedFor'
      <3>1. \A d \in Calls : /\ call'[d] = (IF d = c THEN Idle ELSE call[d])
                             /\ tx'[d] = (IF d = c THEN "none" ELSE tx[d])
        BY <1>2 DEF ClientTypeOK
      <3> QED
        BY <1>1, <3>1 DEF ReportInv, PurchasesAreWaitedFor
    <2> HIDE DEF b, n
    <2>4. ASSUME NEW u \in Users
          PROVE  /\ paid'[u] + Unreported(u)' <= record'[u].total_sol_spent
                 /\ u \notin doubtful' =>
                      paid'[u] + Unreported(u)' = record'[u].total_sol_spent
      <3>1. /\ paid[u] \in Nat /\ record[u].total_sol_spent \in Nat
            /\ record' = record /\ doubtful' = doubtful
        BY <1>1 DEF ClientTypeOK, IInv, TypeOK, PurchaseRecord
      <3>2. /\ paid[u] + Unreported(u) <= record[u].total_sol_spent
            /\ u \notin doubtful => paid[u] + Unreported(u) = record[u].total_sol_spent
        BY DEF ReportInv, RecordsAreReported
      <3>3. /\ Unreported(u) \in Nat
            /\ Unreported(u)'
                 = Unreported(u) + (Bought(u, Idle, "none") - Bought(u, call[c], tx[c]))
        BY <1>2, SlotUnreported
      <3> QED
        BY <1>3, <2>1, <2>2, <3>1, <3>2, <3>3
    <2> QED
      BY <2>3, <2>4 DEF ReportInv, RecordsAreReported
  <1> QED
    BY <1>4, <1>5

\* When a call throws that has sent a purchase, its buyer may have bought.
LEMMA ThrowReports ==
  ASSUME ClientTypeOK, ClientTypeOK', CallsAreWellFormed, ReportInv, IInv,
         NEW c \in Calls, Throw(c)
  PROVE  ReportInv'
  <1>1. /\ call[c].pc # "idle" /\ Leave(c) /\ UNCHANGED <<record, paid>>
        /\ doubtful' = IF call[c].pc = "sent" /\ call[c].op = "buy"
                       THEN doubtful \cup {call[c].signer} ELSE doubtful
    BY DEF Throw, vars, accounts
  <1>2. PICK k \in Call \cup {Idle}, x \in {"none", "flying"} :
          /\ call' = [call EXCEPT ![c] = k] /\ tx' = [tx EXCEPT ![c] = x]
          /\ \/ k = Idle /\ x = "none"
             \/ tx[c] = "flying" /\ x = "flying" /\ call[c] \in Call
                /\ k \in Call /\ k = [call[c] EXCEPT !.pc = "idle"]
    BY <1>1, LeaveIs
  <1>3. call[c].op = "buy" /\ tx[c] # "none" => call[c].signer \in doubtful'
    BY <1>1 DEF ReportInv, PurchasesAreWaitedFor
  <1>4. \A u \in Users : Bought(u, k, x) = 0
    BY <1>2 DEF Bought
  <1>5. \A u \in Users \ doubtful' : Bought(u, call[c], tx[c]) = 0
    BY <1>3 DEF Bought
  <1>6. k.op = "buy" /\ x # "none" => k.pc = "idle" /\ x = "flying" /\ k.signer \in doubtful'
    BY <1>2, <1>3 DEF Call
  <1>7. doubtful \subseteq doubtful'
    BY <1>1
  <1> QED
    BY <1>1, <1>2, <1>4, <1>5, <1>6, <1>7, SlotReports

\* No step loses a purchase between the chain and what the client reports.
LEMMA ReportStep ==
  ASSUME ClientTypeOK, ClientTypeOK', CallsAreWellFormed, ReportInv, IInv, IInv',
         [ClientNext]_clientVars
  PROVE  ReportInv'
  <1>1. ASSUME NEW c \in Calls, Caller(c) PROVE ReportInv'
    <2>1. UNCHANGED <<record, paid, doubtful>>
      BY <1>1 DEF Caller, CreateTokenMint, InitializeIcoCall, BuyTokensCall, SetPhaseCall,
                  vars, accounts, reports
    <2>2. PICK k \in Call, x \in {"none", "flying"} :
            /\ call' = [call EXCEPT ![c] = k] /\ tx' = [tx EXCEPT ![c] = x]
            /\ tx[c] = "none" /\ (k.op = "buy" => x = "none")
      BY <1>1, CallerIs
    <2>3. \A u \in Users : Bought(u, k, x) = 0 /\ Bought(u, call[c], tx[c]) = 0
      BY <2>2 DEF Bought
    <2> QED
      BY <2>1, <2>2, <2>3, SlotReports
  <1>2. ASSUME NEW c \in Calls, FindHolder(c) \/ MintSupply(c) \/ SendDerived(c)
        PROVE  ReportInv'
    <2>1. UNCHANGED <<record, paid, doubtful>>
      BY <1>2 DEF FindHolder, MintSupply, SendDerived, vars, accounts, reports
    <2>2. PICK k \in Call :
            /\ call' = [call EXCEPT ![c] = k] /\ tx' = [tx EXCEPT ![c] = "flying"]
            /\ call[c].op = "buy" => call[c].pc = "derived" /\ k.pc = "sent"
            /\ k.op = "buy" => call[c].op = "buy"
      BY <1>2, MethodIs
    <2>3. call[c].op = "buy" => tx[c] = "none"
      BY <2>2 DEF ReportInv, PurchasesAreWaitedFor
    <2>4. \A u \in Users : Bought(u, k, "flying") = 0 /\ Bought(u, call[c], tx[c]) = 0
      BY <2>2, <2>3 DEF Bought
    <2> QED
      BY <2>1, <2>2, <2>4, SlotReports
  <1>3. ASSUME NEW c \in Calls, Drop(c) PROVE ReportInv'
    <2>1. /\ tx[c] = "flying" /\ Settle(c, "lost") /\ UNCHANGED <<record, paid, doubtful>>
      BY <1>3 DEF Drop, Settle, vars, accounts, reports
    <2>2. PICK k \in Call \cup {Idle}, x \in {"none", "lost"} :
            /\ call' = [call EXCEPT ![c] = k] /\ tx' = [tx EXCEPT ![c] = x]
            /\ \/ call[c].pc = "idle" /\ k = Idle /\ x = "none"
               \/ call[c].pc # "idle" /\ k = call[c] /\ x = "lost"
      BY <2>1, SettleIs
    <2>3. \A u \in Users : Bought(u, k, x) = 0 /\ Bought(u, call[c], tx[c]) = 0
      BY <2>1, <2>2 DEF Bought
    <2>4. k.op = "buy" /\ x # "none" => k.pc = "sent"
      BY <2>1, <2>2 DEF ReportInv, PurchasesAreWaitedFor
    <2> QED
      BY <2>1, <2>2, <2>3, <2>4, SlotReports
  <1>4. CASE UNCHANGED <<record, call, tx, paid, doubtful>>
    BY <1>4 DEF ReportInv, PurchasesAreWaitedFor, RecordsAreReported, Unreported, Bought
  <1> QED
    BY <1>1, <1>2, <1>3, <1>4, LandReports, ReturnReports, ThrowReports
    DEF ClientNext, Method, UseWallet, clientVars, client, reports, vars, accounts

\* Nothing has been bought in the beginning.
LEMMA ReportInit == ClientInit /\ IInv /\ ClientTypeOK => ReportInv
  <1> SUFFICES ASSUME ClientInit, IInv, ClientTypeOK PROVE ReportInv
    OBVIOUS
  <1>1. PurchasesAreWaitedFor
    BY DEF ClientInit, PurchasesAreWaitedFor
  <1>2. ASSUME NEW u \in Users PROVE paid[u] + Unreported(u) = record[u].total_sol_spent
    <2> DEFINE none == [c \in Calls |-> Bought(u, call[c], tx[c])]
    <2>1. none \in [Calls -> Int] /\ \A c \in Calls : none[c] = 0
      BY DEF ClientInit, Bought
    <2>2. Unreported(u) = SumFunction(none)
      BY DEF Unreported
    <2> HIDE DEF none
    <2>3. Unreported(u) = 0
      BY <2>1, <2>2, CallsAssumption, SumOfZeros
    <2> QED
      BY <2>3 DEF ClientInit, Init
  <1>3. \A u \in Users : paid[u] + Unreported(u) <= record[u].total_sol_spent
    <2>1. \A u \in Users : record[u].total_sol_spent \in Nat
      BY DEF IInv, TypeOK, PurchaseRecord
    <2> QED
      BY <1>2, <2>1
  <1> QED
    BY <1>1, <1>2, <1>3 DEF ReportInv, RecordsAreReported

----------------------------------------------------------------------------
(* Theorems                                                                *)

\* Whatever the client does, the chain runs the program: each step of theirs
\* is one of NovaIco or leaves its accounts alone.
THEOREM ImplementsProgram == ClientSpec => Spec
  <1>1. ClientInit => Init /\ ClientTypeOK /\ CallsAreWellFormed
    <2> SUFFICES ASSUME ClientInit PROVE Init /\ ClientTypeOK /\ CallsAreWellFormed
      OBVIOUS
    <2>1. Init /\ ClientTypeOK
      BY DEF ClientInit, ClientTypeOK
    <2>2. CallsAreWellFormed
      BY DEF ClientInit, CallsAreWellFormed
    <2> QED
      BY <2>1, <2>2
  <1>2. ClientTypeOK /\ CallsAreWellFormed /\ [ClientNext]_clientVars
          => ClientTypeOK' /\ CallsAreWellFormed'
    BY ClientTypeStep
  <1>3. ClientTypeOK /\ CallsAreWellFormed /\ [ClientNext]_clientVars => [Next]_vars
    BY StepIsProgramStep
  <1> QED
    BY <1>1, <1>2, <1>3, PTL DEF ClientSpec, Spec

\* The inductive invariants of client and program hold in every reachable
\* state.
THEOREM ClientInvariance == ClientSpec => [](ClientInv /\ IInv)
  <1>1. ClientInit => ClientInv
    <2> SUFFICES ASSUME ClientInit PROVE ClientInv
      OBVIOUS
    <2>1. ClientTypeOK /\ CallsAreWellFormed
      BY DEF ClientInit, ClientTypeOK, CallsAreWellFormed
    <2>2. MintsAreCreatedInOrder /\ ReturnedMintIsSupplied
      BY IdleIsNoCall DEF ClientInit, Init, MintsAreCreatedInOrder, Creates, ReturnedMintIsSupplied
    <2> QED
      BY <2>1, <2>2 DEF ClientInv
  <1>2. ClientInv /\ IInv /\ [ClientNext]_clientVars => ClientInv'
    BY ClientTypeStep, MintsStep, SupplyStep DEF ClientInv
  <1> QED
    BY <1>1, <1>2, ImplementsProgram, Invariance, PTL DEF ClientSpec

\* The client's variables always hold values of their types.
THEOREM ClientTypeCorrect == ClientSpec => []ClientTypeOK
  <1>1. ClientInv => ClientTypeOK
    BY DEF ClientInv
  <1> QED
    BY <1>1, ClientInvariance, PTL

\* A mint that createTokenMint returned has its whole supply, minted once,
\* whatever other calls, wallets and late transactions come between.
THEOREM MintsAreSupplied == ClientSpec => []ReturnedMintIsSupplied
  <1>1. ClientInv => ReturnedMintIsSupplied
    BY DEF ClientInv
  <1> QED
    BY <1>1, ClientInvariance, PTL

\* Every executed purchase was reported, is about to be, or threw.
THEOREM ReportInvariance == ClientSpec => []ReportInv
  <1>1. ClientInit /\ ClientInv /\ IInv => ReportInv
    BY ReportInit DEF ClientInv
  <1>2. ReportInv /\ ClientInv /\ ClientInv' /\ IInv /\ IInv' /\ [ClientNext]_clientVars
          => ReportInv'
    BY ReportStep DEF ClientInv
  <1> QED
    BY <1>1, <1>2, ClientInvariance, PTL DEF ClientSpec

\* What is neither executed nor awaited is not missing from the reports.
LEMMA NothingUnreported ==
  ASSUME ClientTypeOK, NEW u \in Users
  PROVE  /\ Unreported(u) \in Nat
         /\ (\A c \in Calls : Bought(u, call[c], tx[c]) = 0) => Unreported(u) = 0
  <1> DEFINE bought == [c \in Calls |-> Bought(u, call[c], tx[c])]
  <1>1. bought \in [Calls -> Nat]
    <2>1. \A k \in Call \cup {Idle} : k.amount \in Nat
      BY DEF Call, Idle
    <2> QED
      BY <2>1 DEF Bought, ClientTypeOK
  <1>2. (\A c \in Calls : Bought(u, call[c], tx[c]) = 0) => \A c \in Calls : bought[c] = 0
    OBVIOUS
  <1>3. Unreported(u) = SumFunction(bought)
    BY DEF Unreported
  <1> HIDE DEF bought
  <1>4. bought \in [Calls -> Int]
    BY <1>1
  <1> QED
    BY <1>1, <1>2, <1>3, <1>4, CallsAssumption, SumOfNats, SumOfZeros

\* A buyer is never told of a purchase that the chain has not recorded, with
\* any number of calls under way.
THEOREM ReportsAreTrue == ClientSpec => []PaidIsRecorded
  <1>1. ReportInv /\ ClientInv /\ IInv => PaidIsRecorded
    <2> SUFFICES ASSUME ReportInv, ClientInv, IInv, NEW u \in Users
                 PROVE  paid[u] <= record[u].total_sol_spent
      BY DEF PaidIsRecorded
    <2>1. Unreported(u) \in Nat /\ paid[u] \in Nat /\ record[u].total_sol_spent \in Nat
      BY NothingUnreported DEF ClientInv, ClientTypeOK, IInv, TypeOK, PurchaseRecord
    <2>2. paid[u] + Unreported(u) <= record[u].total_sol_spent
      BY DEF ReportInv, RecordsAreReported
    <2> QED
      BY <2>1, <2>2
  <1> QED
    BY <1>1, ReportInvariance, ClientInvariance, PTL

\* A buyer none of whose purchases threw, and who waits for none, was told of
\* every purchase, and of no other.
THEOREM ReportsAreComplete == ClientSpec => []RecordedIsPaid
  <1>1. ReportInv /\ ClientInv /\ IInv => RecordedIsPaid
    <2> SUFFICES ASSUME ReportInv, ClientInv, IInv, NEW u \in Users \ doubtful,
                        \A c \in Calls :
                          call[c].op = "buy" /\ call[c].signer = u => call[c].pc # "sent"
                 PROVE  record[u].total_sol_spent = paid[u]
      BY DEF RecordedIsPaid
    <2>1. \A c \in Calls : Bought(u, call[c], tx[c]) = 0
      BY DEF Bought, ReportInv, PurchasesAreWaitedFor
    <2>2. Unreported(u) = 0
      BY <2>1, NothingUnreported DEF ClientInv
    <2>3. paid[u] + Unreported(u) = record[u].total_sol_spent /\ paid[u] \in Nat
      BY DEF ReportInv, RecordsAreReported, ClientInv, ClientTypeOK
    <2> QED
      BY <2>2, <2>3
  <1> QED
    BY <1>1, ReportInvariance, ClientInvariance, PTL

\* The wallet a method was called on is the only one that SOL for tokens, or
\* tokens, leave, because the program derives the accounts from the signer; and
\* a wallet pays for no token account but one that is to be its own.
THEOREM OnlyCallersSpend == ClientSpec => OnlyTheCallerSpends
  <1> DEFINE Loses(u) == \/ lamports'[u] < lamports[u]
                         \/ \E m \in Mints : balance'[m][u] < balance[m][u]
             Called(u, c) == Landed(c) /\ call[c].op \in {"buy", "init"} /\ call[c].owner = u
             Owned(u, c) == Landed(c) /\ call[c].op = "account" /\ call[c].owner = u
             Honest == \A u \in Users :
                         /\ Loses(u) => \E c \in Calls : Called(u, c)
                         /\ rent'[u] > rent[u] => \E c \in Calls : Owned(u, c)
  <1>1. ASSUME ClientInv, IInv, [ClientNext]_clientVars, NEW u \in Users, rent'[u] > rent[u]
        PROVE  \E c \in Calls : Owned(u, c)
    <2>1. rent \in [Users -> Nat]
      BY <1>1 DEF ClientInv, ClientTypeOK
    <2>2. rent' # rent
      BY <1>1, <2>1
    <2>3. PICK c \in Calls : Land(c)
      BY <1>1, <2>2 DEF ClientNext, clientVars, UseWallet, Caller, Method,
         CreateTokenMint, FindHolder, MintSupply, InitializeIcoCall, BuyTokensCall,
         SendDerived, SetPhaseCall, Return, Throw, Drop
    <2>4. /\ Landed(c) /\ WellFormed(call[c])
          /\ call[c].op = "account" /\ rent' = [rent EXCEPT ![call[c].signer] = @ + 1]
      BY <1>1, <2>2, <2>3, SettleIs DEF Land, Landed, Settle, ClientInv, ClientTypeOK
    <2>5. u = call[c].signer
      BY <1>1, <2>1, <2>4
    <2> QED
      BY <2>4, <2>5 DEF WellFormed
  <1>2. ASSUME ClientInv, IInv, [ClientNext]_clientVars, NEW u \in Users, Loses(u)
        PROVE  \E c \in Calls : Called(u, c)
    <2>1. balance \in [Mints -> [Users -> Nat]] /\ lamports \in [Users -> Nat]
      BY <1>2 DEF IInv, TypeOK
    <2>2. ~UNCHANGED <<balance, lamports>>
      BY <1>2, <2>1
    <2>3. PICK c \in Calls : Land(c)
      BY <1>2, <2>2 DEF ClientNext, clientVars, vars, accounts, UseWallet, Caller, Method,
         CreateTokenMint, FindHolder, MintSupply, InitializeIcoCall, BuyTokensCall,
         SendDerived, SetPhaseCall, Return, Throw, Drop
    <2> DEFINE k == call[c]
    <2>4. /\ Landed(c) /\ Executed(k)
          /\ k \in Call /\ WellFormed(k)
      BY <1>2, <2>3, SettleIs DEF Land, Landed, Settle, ClientInv, ClientTypeOK
    <2>5. CASE k.op = "create" /\ CreateMint(k.signer, k.mint, TOKEN_DECIMALS)
      BY <2>2, <2>5 DEF CreateMint
    <2>6. CASE k.op = "supply" /\ MintTo(k.signer, k.mint, k.owner, k.amount)
      <3>1. /\ lamports' = lamports /\ k.amount = Supply /\ Supply \in Nat
            /\ balance' = [balance EXCEPT ![k.mint][k.owner] = @ + k.amount]
        BY <2>4, <2>6, ClientAssumption, InputsAssumption, ArithmeticAssumption
        DEF MintTo, WellFormed
      <3> HIDE DEF k
      <3>2. \A m \in Mints : balance'[m][u] \in Nat /\ balance'[m][u] >= balance[m][u]
        BY <2>1, <3>1
      <3> QED
        BY <1>2, <2>1, <3>1, <3>2
    <2>7. CASE /\ k.op = "init" /\ DerivedFromSigner(k)
               /\ InitializeIco(k.signer, k.mint, k.treasury, k.amount, 0, 0)
      <3>1. /\ lamports' = lamports
            /\ balance' = [balance EXCEPT ![k.mint][k.signer] = @ - k.amount]
        BY <2>7 DEF InitializeIco, FundVault
      <3>2. u = k.signer
        <4> HIDE DEF k
        <4> QED
          BY <1>2, <2>1, <3>1
      <3> QED
        BY <2>4, <2>7, <3>2 DEF DerivedFromSigner
    <2>8. CASE /\ k.op = "buy" /\ DerivedFromSigner(k)
               /\ BuyTokens(k.signer, k.mint, k.treasury, k.amount)
      <3>1. /\ PaySol(k.signer, k.treasury, k.amount) /\ k.amount \in Nat
            /\ \E n : balance' = [balance EXCEPT ![k.mint][k.signer] = @ + n]
        BY <2>4, <2>8 DEF BuyTokens, Call
      <3>2. u = k.signer
        <4> HIDE DEF k
        <4>1. CASE lamports'[u] < lamports[u]
          BY <2>1, <3>1, <4>1 DEF PaySol
        <4>2. CASE \E m \in Mints : balance'[m][u] < balance[m][u]
          BY <2>1, <3>1, <4>2
        <4> QED
          BY <1>2, <4>1, <4>2
      <3> QED
        BY <2>4, <2>8, <3>2 DEF DerivedFromSigner
    <2>9. CASE k.op = "phase" /\ SetPhase(k.signer, k.amount)
      BY <2>2, <2>9 DEF SetPhase
    <2>10. CASE k.op = "account" /\ UNCHANGED vars
      BY <2>2, <2>10 DEF vars, accounts
    <2> QED
      BY <2>4, <2>5, <2>6, <2>7, <2>8, <2>9, <2>10 DEF Executed
  <1>3. ClientInv /\ IInv /\ [ClientNext]_clientVars => [Honest]_clientVars
    BY <1>1, <1>2
  <1> QED
    BY <1>3, ClientInvariance, PTL DEF ClientSpec, OnlyTheCallerSpends
=============================================================================
