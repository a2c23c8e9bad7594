------------------------ MODULE PaymentGatewayProofs ------------------------
(***************************************************************************)
(* Proofs about PaymentGateway, for any number of payments, overlapping    *)
(* ticks, callers, prices and deposits.                                    *)
(***************************************************************************)
EXTENDS PaymentGateway, TLAPS

\* The parts of actions that have a name of their own are always expanded.
USE DEF Settle, Cancellable, Pollable, Forwardable, SomethingLeft, Confirmed

(* The three ways to go on after the answers of the node, and the steps    *)
(* that only start, answer or end a call.                                  *)

\* An answer completes its payment, marks it as partly paid, or does nothing.
LEMMA OutcomeIs ==
  ASSUME NEW p, NEW seen
  PROVE  Outcome(p, seen) \in {"none", "partial", "completed"}
  BY DEF Outcome

\* The price of a payment and what completes it are integers: money can be
\* compared with them.
LEMMA EnoughIsInt ==
  ASSUME TypeOK, NEW p \in Payments
  PROVE  Asked(p) \in Int /\ Enough(p) \in Int
  <1>1. Asked(p) \in Int
    BY DEF TypeOK, Asked
  <1>2. UNIT \in Int /\ UNIT > 0
    BY AmountsAssumption
  <1>3. (Asked(p) + UNIT - 1) \div UNIT \in Int
    BY <1>1, <1>2
  <1> QED
    BY <1>1, <1>3 DEF Enough

\* What completes a payment in SOL is its price, or just above it.
LEMMA EnoughForSol ==
  ASSUME TypeOK, NEW p \in Payments, price[p].currency = "SOL"
  PROVE  Enough(p) >= Asked(p)
  BY EnoughIsInt DEF Enough

\* A check starts with a payment of pendingPayments and ends or goes on.
LEMMA VisitKeepsCalls ==
  ASSUME TypeOK, CallsAreAboutPayments, MapsPartitionPayments, created' = created,
         NEW c \in Checkers, NEW from, Visit(c, from)
  PROVE  /\ check' \in [Checkers -> Check]
         /\ \A d \in Checkers : check'[d].pc # "idle" => check'[d].pay \in 1..created'
         /\ \A d \in Checkers : check'[d] = check[d] \/ check'[d].pc # "answered"
  <1>1. CASE check' = [check EXCEPT ![c] = Idle]
    <2>1. Idle \in Check /\ Idle.pc = "idle"
      BY AmountsAssumption DEF Idle, Check
    <2> QED
      BY <1>1, <2>1 DEF TypeOK, CallsAreAboutPayments
  <1>2. ASSUME NEW p \in Stops(from), check' = [check EXCEPT ![c] = Asking(p)]
        PROVE  /\ check' \in [Checkers -> Check]
               /\ \A d \in Checkers : check'[d].pc # "idle" => check'[d].pay \in 1..created'
               /\ \A d \in Checkers : check'[d] = check[d] \/ check'[d].pc # "answered"
    <2>1. p \in 1..created /\ p \in 0..N
      BY AmountsAssumption DEF Stops, MapsPartitionPayments, TypeOK
    <2>2. Asking(p) \in Check /\ Asking(p).pc = "asked" /\ Asking(p).pay = p
      BY <2>1 DEF Asking, Check
    <2> QED
      BY <1>2, <2>1, <2>2 DEF TypeOK, CallsAreAboutPayments
  <1> QED
    BY <1>1, <1>2 DEF Visit

\* Applying an answer, and expiring payments the monitor passes, moves
\* payments from one Map to the other and loses none.
LEMMA ApplyKeepsMaps ==
  ASSUME TypeOK, MapsPartitionPayments, created' = created,
         NEW p \in 1..created, NEW outcome \in {"none", "partial", "completed"},
         NEW expired, expired \subseteq pending, p \notin expired,
         Apply(p, outcome, expired)
  PROVE  /\ MapsPartitionPayments'
         /\ status' \in [Payments -> Statuses]
         /\ pending' \subseteq Payments /\ settled' \subseteq Payments
         /\ completions' \in [Payments -> Nat]
         /\ \A q \in Payments :
              completions'[q] > 0 => completions[q] > 0 \/ (q = p /\ outcome = "completed")
         /\ \A q \in Payments :
              q > created => status'[q] = status[q] /\ completions'[q] = completions[q]
  <1> DEFINE gone == expired \cup (IF outcome = "completed" THEN {p} ELSE {})
  <1>1. status' = [q \in Payments |-> IF q \in expired THEN "expired"
                                      ELSE IF q = p /\ outcome # "none" THEN outcome
                                      ELSE status[q]]
    BY DEF Apply
  <1>2. settled' = settled \cup gone /\ pending' = pending \ gone
    BY DEF Apply
  <1>3. completions' = [completions EXCEPT
                          ![p] = @ + IF outcome = "completed" THEN 1 ELSE 0]
    BY DEF Apply
  <1>4. p \in Payments /\ gone \subseteq 1..created /\ 1..created \subseteq Payments
    BY DEF TypeOK, MapsPartitionPayments, Payments
  <1>5. status' \in [Payments -> Statuses]
    BY <1>1 DEF TypeOK, Statuses
  <1>6. pending' \cup settled' = 1..created' /\ pending' \cap settled' = {}
    BY <1>2, <1>4 DEF MapsPartitionPayments
  <1>7. ASSUME NEW q \in pending' PROVE status'[q] \in {"pending", "partial"}
    <2>1. q \in pending /\ q \in Payments /\ q \notin expired
      BY <1>2, <1>4, <1>7 DEF MapsPartitionPayments
    <2>2. q = p => outcome # "completed"
      BY <1>2, <1>7
    <2> QED
      BY <1>1, <2>1, <2>2 DEF MapsPartitionPayments
  <1>8. ASSUME NEW q \in settled' PROVE status'[q] # "pending"
    <2>1. q \in Payments
      BY <1>2, <1>4, <1>8 DEF MapsPartitionPayments
    <2>2. q \notin expired /\ ~(q = p /\ outcome # "none") => q \in settled
      BY <1>2, <1>8
    <2> QED
      BY <1>1, <2>1, <2>2 DEF MapsPartitionPayments
  <1>9. completions' \in [Payments -> Nat]
    BY <1>3, <1>4 DEF TypeOK
  <1>10. ASSUME NEW q \in Payments, completions'[q] > 0
         PROVE  completions[q] > 0 \/ (q = p /\ outcome = "completed")
    BY <1>3, <1>4, <1>10 DEF TypeOK
  <1>11. pending' \subseteq Payments /\ settled' \subseteq Payments
    BY <1>4, <1>6
  <1>12. ASSUME NEW q \in Payments, q > created
         PROVE  status'[q] = status[q] /\ completions'[q] = completions[q]
    <2>1. q # p /\ q \notin expired
      BY <1>12, AmountsAssumption DEF MapsPartitionPayments, TypeOK, Payments
    <2> QED
      BY <1>1, <1>3, <2>1 DEF TypeOK
  <1> QED
    BY <1>5, <1>6, <1>7, <1>8, <1>9, <1>10, <1>11, <1>12 DEF MapsPartitionPayments

----------------------------------------------------------------------------
(* Types                                                                   *)

\* Before the first payment, every variable has its type.
LEMMA TypeOKInit == Init => TypeOK
  <1>1. Idle \in Check /\ Idle \in Forward
    BY AmountsAssumption DEF Idle, Check, Forward
  <1> QED
    BY <1>1, AmountsAssumption DEF Init, TypeOK, Statuses

\* No step leaves the types.
LEMMA TypeOKStep ==
  ASSUME TypeOK, CallsAreAboutPayments, SomethingIsSent, MapsPartitionPayments, [Next]_vars
  PROVE  TypeOK'
  <1> USE AmountsAssumption
  <1>1. ASSUME NEW p \in Payments, NEW currency \in Currencies, NEW amount \in Amounts,
               Create(p, currency, amount)
        PROVE  TypeOK'
    <2>1. price' \in [Payments -> [currency : {"SOL", "NOVA"}, amount : Int]]
      BY <1>1 DEF TypeOK, Create
    <2>2. status' \in [Payments -> Statuses]
      BY <1>1 DEF TypeOK, Create, Statuses
    <2>3. created' \in 0..N /\ pending' \subseteq Payments
      BY <1>1 DEF TypeOK, Create, Payments
    <2> QED
      BY <1>1, <2>1, <2>2, <2>3 DEF TypeOK, Create, calls, chain, history
  <1>2. ASSUME NEW p \in Payments, NEW n \in Deposits, Deposit(p, n)
        PROVE  TypeOK'
    BY <1>2 DEF TypeOK, Deposit, book, calls, history
  <1>3. ASSUME NEW p \in Payments, Cancel(p) PROVE TypeOK'
    BY <1>3 DEF TypeOK, Cancel, Statuses, calls, chain, history
  <1>4. ASSUME NEW p \in Payments, BecomeDue(p) PROVE TypeOK'
    BY <1>4 DEF TypeOK, BecomeDue, book, calls, history
  <1>5. ASSUME NEW c \in Checkers, Answer(c) PROVE TypeOK'
    <2>1. check[c] \in Check /\ check[c].pay \in Payments
      BY <1>5 DEF TypeOK, Answer, CallsAreAboutPayments, Payments
    <2>2. PICK seen \in {balance[check[c].pay], Unknown} :
            check' = [check EXCEPT ![c].pc = "answered", ![c].seen = seen]
      BY <1>5 DEF Answer
    <2>3. seen \in Nat \cup {Unknown}
      BY <2>1, <2>2 DEF TypeOK
    <2>4. check' \in [Checkers -> Check]
      BY <2>1, <2>2, <2>3 DEF TypeOK, Check
    <2> QED
      BY <1>5, <2>4 DEF TypeOK, Answer, book, chain, history
  <1>6. ASSUME NEW c \in Pollers, NEW p \in Payments, Poll(c, p) PROVE TypeOK'
    <2>1. Asking(p) \in Check
      BY DEF Asking, Check, Payments
    <2> QED
      BY <1>6, <2>1 DEF TypeOK, Poll, Checkers, book, chain, history
  <1>7. ASSUME NEW c \in Pollers, PollResume(c) PROVE TypeOK'
    <2> DEFINE p == check[c].pay
               outcome == Outcome(p, check[c].seen)
    <2>1. c \in Checkers /\ p \in 1..created
      BY <1>7 DEF PollResume, CallsAreAboutPayments, Checkers
    <2>2. created' = created /\ Apply(p, outcome, {})
      BY <1>7 DEF PollResume
    <2>3. outcome \in {"none", "partial", "completed"}
      BY OutcomeIs
    <2> HIDE DEF p, outcome
    <2>4. /\ status' \in [Payments -> Statuses] /\ completions' \in [Payments -> Nat]
          /\ pending' \subseteq Payments /\ settled' \subseteq Payments
      BY <2>1, <2>2, <2>3, ApplyKeepsMaps
    <2>5. check' \in [Checkers -> Check]
      <3>1. Idle \in Check
        BY DEF Idle, Check
      <3> QED
        BY <1>7, <3>1 DEF PollResume, TypeOK
    <2> QED
      BY <1>7, <2>4, <2>5 DEF TypeOK, PollResume, chain
  <1>8. ASSUME NEW c \in Ticks, TickStart(c) PROVE TypeOK'
    <2>1. c \in Checkers /\ created' = created /\ Visit(c, 0)
      BY <1>8 DEF TickStart, Checkers
    <2>2. check' \in [Checkers -> Check]
      BY <2>1, VisitKeepsCalls
    <2>3. status' \in [Payments -> Statuses]
      BY <1>8 DEF TickStart, TypeOK, Statuses
    <2>4. pending' \subseteq Payments /\ settled' \subseteq Payments
      BY <1>8 DEF TickStart, TypeOK, Passed
    <2> QED
      BY <1>8, <2>2, <2>3, <2>4 DEF TypeOK, TickStart, chain, history
  <1>9. ASSUME NEW c \in Ticks, TickResume(c) PROVE TypeOK'
    <2> DEFINE p == check[c].pay
               outcome == Outcome(p, check[c].seen)
    <2>1. c \in Checkers /\ p \in 1..created
      BY <1>9 DEF TickResume, CallsAreAboutPayments, Checkers
    <2>2. created' = created /\ Apply(p, outcome, Passed(p)) /\ Visit(c, p)
      BY <1>9 DEF TickResume
    <2>3. outcome \in {"none", "partial", "completed"}
      BY OutcomeIs
    <2>4. Passed(p) \subseteq pending /\ p \notin Passed(p)
      BY <2>1 DEF Passed
    <2> HIDE DEF p, outcome
    <2>5. /\ status' \in [Payments -> Statuses] /\ completions' \in [Payments -> Nat]
          /\ pending' \subseteq Payments /\ settled' \subseteq Payments
      BY <2>1, <2>2, <2>3, <2>4, ApplyKeepsMaps
    <2>6. check' \in [Checkers -> Check]
      BY <2>1, <2>2, VisitKeepsCalls
    <2> QED
      BY <1>9, <2>5, <2>6 DEF TypeOK, TickResume, chain
  <1>10. ASSUME NEW f \in Forwarders, NEW p \in Payments, ForwardStart(f, p)
         PROVE  TypeOK'
    <2>1. Asking(p) \in Forward
      BY DEF Asking, Forward, Payments
    <2> QED
      BY <1>10, <2>1 DEF TypeOK, ForwardStart, book, chain, history
  <1>11. ASSUME NEW f \in Forwarders, ForwardRead(f) PROVE TypeOK'
    <2>1. forward[f] \in Forward /\ balance[forward[f].pay] \in Nat
      BY <1>11 DEF TypeOK, ForwardRead, CallsAreAboutPayments, Payments
    <2>2. forward' \in [Forwarders -> Forward]
      BY <1>11, <2>1 DEF TypeOK, ForwardRead, Forward
    <2> QED
      BY <1>11, <2>2 DEF TypeOK, ForwardRead, book, chain, history
  <1>12. ASSUME NEW f \in Forwarders, ForwardSend(f) PROVE TypeOK'
    <2>1. forward' \in [Forwarders -> Forward]
      BY <1>12 DEF TypeOK, ForwardSend, Forward
    <2> QED
      BY <1>12, <2>1 DEF TypeOK, ForwardSend, book, chain, history
  <1>13. ASSUME NEW f \in Forwarders, ForwardThrow(f) PROVE TypeOK'
    <2>1. forward' \in [Forwarders -> Forward]
      BY <1>13 DEF TypeOK, ForwardThrow, Forward
    <2> QED
      BY <1>13, <2>1 DEF TypeOK, ForwardThrow, book, chain, history
  <1>14. ASSUME NEW f \in Forwarders, ForwardConfirm(f) PROVE TypeOK'
    <2>1. Idle \in Forward /\ forward[f].pay \in Payments
      BY <1>14 DEF Idle, Forward, ForwardConfirm, CallsAreAboutPayments, TypeOK, Payments
    <2> QED
      BY <1>14, <2>1 DEF TypeOK, ForwardConfirm, chain
  <1>15. ASSUME NEW f \in Forwarders, Land(f) PROVE TypeOK'
    <2> DEFINE p == forward[f].pay
    <2>1. p \in Payments /\ tx[f] = "flying"
      BY <1>15 DEF Land, CallsAreAboutPayments, TypeOK, Payments
    <2>2. TransferAmount(f) \in Int /\ TransferAmount(f) > 0
      BY <2>1 DEF SomethingIsSent, TransferAmount, TypeOK, Forward
    <2>3. tx' \in [Forwarders -> {"none", "flying", "done", "failed"}]
      BY <1>15 DEF TypeOK, Land
    <2>4. balance' \in [Payments -> Nat] /\ moved' \in [Payments -> Nat]
      <3> HIDE DEF p
      <3>1. CASE /\ CanPay(p, TransferAmount(f) + FEE)
                 /\ balance' = [balance EXCEPT ![p] = @ - TransferAmount(f) - FEE]
                 /\ moved' = [moved EXCEPT ![p] = @ + TransferAmount(f)]
        BY <2>1, <2>2, <3>1 DEF TypeOK, CanPay
      <3>2. CASE /\ CanPay(p, FEE)
                 /\ balance' = [balance EXCEPT ![p] = @ - FEE]
                 /\ moved' = moved
        BY <2>1, <3>2 DEF TypeOK, CanPay
      <3>3. CASE UNCHANGED <<balance, moved>>
        BY <3>3 DEF TypeOK
      <3> QED
        BY <1>15, <3>1, <3>2, <3>3 DEF Land, p
    <2> QED
      BY <1>15, <2>3, <2>4 DEF TypeOK, Land, book, history
  <1>16. CASE UNCHANGED vars
    BY <1>16 DEF TypeOK, vars, book, calls, chain, history
  <1>17. CASE Customer
    BY <1>17, <1>1, <1>2, <1>3 DEF Customer
  <1>18. CASE Checking
    BY <1>18, <1>5, <1>6, <1>7, <1>8, <1>9 DEF Checking
  <1>19. CASE Forwarding
    BY <1>19, <1>10, <1>11, <1>12, <1>13, <1>14, <1>15 DEF Forwarding
  <1> QED
    BY <1>4, <1>16, <1>17, <1>18, <1>19 DEF Next

----------------------------------------------------------------------------
(* The inductive invariant: one lemma per part                             *)

\* No interleaving of cancellations, expiries and late answers loses a
\* payment, or has it in both Maps.
LEMMA MapsStep ==
  ASSUME TypeOK, CallsAreAboutPayments, MapsPartitionPayments, [Next]_vars
  PROVE  MapsPartitionPayments'
  <1> USE AmountsAssumption
  <1>1. ASSUME NEW p \in Payments, NEW currency \in Currencies, NEW amount \in Amounts,
               Create(p, currency, amount)
        PROVE  MapsPartitionPayments'
    <2>1. p = created + 1 /\ created' = p /\ pending' = pending \cup {p} /\ settled' = settled
      BY <1>1 DEF Create
    <2>2. 1..created' = (1..created) \cup {p} /\ p \notin 1..created
      BY <2>1 DEF TypeOK
    <2>3. pending' \cup settled' = 1..created' /\ pending' \cap settled' = {}
      BY <2>1, <2>2 DEF MapsPartitionPayments
    <2>4. status' = [status EXCEPT ![p] = "pending"]
      BY <1>1 DEF Create
    <2> QED
      BY <2>1, <2>2, <2>3, <2>4 DEF MapsPartitionPayments, TypeOK
  <1>2. ASSUME NEW p \in Payments, Cancel(p) PROVE MapsPartitionPayments'
    BY <1>2 DEF Cancel, MapsPartitionPayments, TypeOK
  <1>3. ASSUME NEW c \in Pollers, PollResume(c) PROVE MapsPartitionPayments'
    <2> DEFINE p == check[c].pay
               outcome == Outcome(p, check[c].seen)
    <2>1. c \in Checkers /\ p \in 1..created
      BY <1>3 DEF PollResume, CallsAreAboutPayments, Checkers
    <2>2. created' = created /\ Apply(p, outcome, {})
      BY <1>3 DEF PollResume
    <2>3. outcome \in {"none", "partial", "completed"}
      BY OutcomeIs
    <2> HIDE DEF p, outcome
    <2> QED
      BY <2>1, <2>2, <2>3, ApplyKeepsMaps
  <1>4. ASSUME NEW c \in Ticks, TickStart(c) PROVE MapsPartitionPayments'
    <2>1. /\ status' = [q \in Payments |-> IF q \in Passed(0) THEN "expired" ELSE status[q]]
          /\ settled' = settled \cup Passed(0) /\ pending' = pending \ Passed(0)
          /\ created' = created
      BY <1>4 DEF TickStart
    <2>2. Passed(0) \subseteq pending /\ pending \subseteq Payments /\ settled \subseteq Payments
      BY DEF Passed, TypeOK
    <2> QED
      BY <2>1, <2>2 DEF MapsPartitionPayments
  <1>5. ASSUME NEW c \in Ticks, TickResume(c) PROVE MapsPartitionPayments'
    <2> DEFINE p == check[c].pay
               outcome == Outcome(p, check[c].seen)
    <2>1. c \in Checkers /\ p \in 1..created
      BY <1>5 DEF TickResume, CallsAreAboutPayments, Checkers
    <2>2. created' = created /\ Apply(p, outcome, Passed(p))
      BY <1>5 DEF TickResume
    <2>3. outcome \in {"none", "partial", "completed"}
      BY OutcomeIs
    <2>4. Passed(p) \subseteq pending /\ p \notin Passed(p)
      BY <2>1 DEF Passed
    <2> HIDE DEF p, outcome
    <2> QED
      BY <2>1, <2>2, <2>3, <2>4, ApplyKeepsMaps
  <1>6. CASE UNCHANGED <<created, status, pending, settled>>
    BY <1>6 DEF MapsPartitionPayments
  <1>7. CASE Customer
    BY <1>7, <1>1, <1>2, <1>6 DEF Customer, Deposit, book
  <1>8. CASE Checking
    BY <1>8, <1>3, <1>4, <1>5, <1>6 DEF Checking, Answer, Poll, book
  <1>9. CASE Forwarding
    BY <1>9, <1>6 DEF Forwarding, ForwardStart, ForwardRead, ForwardSend, ForwardThrow,
                      ForwardConfirm, Land, book
  <1>10. CASE \E p \in Payments : BecomeDue(p)
    BY <1>10, <1>6 DEF BecomeDue, book
  <1>11. CASE UNCHANGED vars
    BY <1>11, <1>6 DEF vars, book
  <1> QED
    BY <1>7, <1>8, <1>9, <1>10, <1>11 DEF Next

\* A call that is under way, or whose transaction is, was so before and is
\* about the same payment, but for its first step.
LEMMA CallGoesOn ==
  ASSUME TypeOK, NEW f \in Forwarders,
         \/ ForwardRead(f) \/ ForwardSend(f) \/ ForwardThrow(f)
         \/ ForwardConfirm(f) \/ Land(f),
         NEW g \in Forwarders, forward'[g].pc # "idle" \/ tx'[g] # "none"
  PROVE  /\ forward[g].pc # "idle" \/ tx[g] # "none"
         /\ forward'[g].pay = forward[g].pay
  <1>1. CASE ForwardRead(f)
    BY <1>1 DEF ForwardRead, TypeOK, Forward
  <1>2. CASE ForwardSend(f)
    BY <1>2 DEF ForwardSend, TypeOK, Forward
  <1>3. CASE ForwardThrow(f)
    BY <1>3 DEF ForwardThrow, TypeOK, Forward
  <1>4. CASE ForwardConfirm(f)
    BY <1>4 DEF ForwardConfirm, TypeOK, Forward, Idle
  <1>5. CASE Land(f)
    BY <1>5 DEF Land, TypeOK, Forward
  <1> QED
    BY <1>1, <1>2, <1>3, <1>4, <1>5

\* Calls are made for payments that exist, and stay with them.
LEMMA CallsStep ==
  ASSUME TypeOK, CallsAreAboutPayments, MapsPartitionPayments, NothingBeforeCreation,
         [Next]_vars
  PROVE  CallsAreAboutPayments'
  <1> USE AmountsAssumption
  <1>1. ASSUME NEW p \in Payments, NEW currency \in Currencies, NEW amount \in Amounts,
               Create(p, currency, amount)
        PROVE  CallsAreAboutPayments'
    <2>1. /\ p = created + 1 /\ created' = p /\ created \in Nat
          /\ UNCHANGED <<check, forward, tx>>
          /\ price' = [price EXCEPT ![p] = [currency |-> currency, amount |-> amount]]
      BY <1>1 DEF Create, calls, TypeOK
    <2>2. \A q \in 1..created : q \in 1..created' /\ q # p /\ q \in Payments
      BY <2>1 DEF TypeOK, Payments
    <2>3. \A q \in 1..created : price'[q] = price[q]
      BY <2>1, <2>2 DEF TypeOK
    <2> QED
      BY <2>1, <2>2, <2>3 DEF CallsAreAboutPayments
  <1>2. ASSUME NEW c \in Checkers, Answer(c) PROVE CallsAreAboutPayments'
    <2>1. PICK seen : check' = [check EXCEPT ![c].pc = "answered", ![c].seen = seen]
      BY <1>2 DEF Answer
    <2>2. \A d \in Checkers : check'[d].pc # "idle" => check[d].pc # "idle"
      BY <1>2, <2>1 DEF Answer, TypeOK, Check
    <2>3. \A d \in Checkers : check'[d].pay = check[d].pay
      BY <2>1 DEF TypeOK, Check
    <2> QED
      BY <1>2, <2>2, <2>3 DEF Answer, CallsAreAboutPayments, book
  <1>3. ASSUME NEW c \in Pollers, NEW p \in Payments, Poll(c, p)
        PROVE  CallsAreAboutPayments'
    <2>1. Asking(p).pay = p
      BY DEF Asking
    <2>2. p \in 1..created
      BY <1>3 DEF Poll, NothingBeforeCreation, Payments, TypeOK
    <2> QED
      BY <1>3, <2>1, <2>2 DEF Poll, CallsAreAboutPayments, TypeOK, book
  <1>4. ASSUME NEW c \in Pollers, PollResume(c) PROVE CallsAreAboutPayments'
    <2>1. c \in Checkers /\ Idle.pc = "idle"
      BY DEF Checkers, Idle
    <2> QED
      BY <1>4, <2>1 DEF PollResume, CallsAreAboutPayments, TypeOK
  <1>5. ASSUME NEW c \in Ticks, TickStart(c) \/ TickResume(c)
        PROVE  CallsAreAboutPayments'
    <2>1. /\ c \in Checkers /\ \E from : Visit(c, from)
          /\ UNCHANGED <<created, price, forward, tx>>
      BY <1>5 DEF TickStart, TickResume, Checkers
    <2>2. \A d \in Checkers : check'[d].pc # "idle" => check'[d].pay \in 1..created'
      BY <2>1, VisitKeepsCalls
    <2> QED
      BY <2>1, <2>2 DEF CallsAreAboutPayments
  <1>6. ASSUME NEW f \in Forwarders, NEW p \in Payments, ForwardStart(f, p)
        PROVE  CallsAreAboutPayments'
    <2>1. Asking(p).pay = p
      BY DEF Asking
    <2>2. p \in 1..created
      BY <1>6 DEF ForwardStart, MapsPartitionPayments
    <2> QED
      BY <1>6, <2>1, <2>2 DEF ForwardStart, CallsAreAboutPayments, TypeOK, book
  <1>7. ASSUME NEW f \in Forwarders,
               \/ ForwardRead(f) \/ ForwardSend(f) \/ ForwardThrow(f)
               \/ ForwardConfirm(f) \/ Land(f)
        PROVE  CallsAreAboutPayments'
    <2>1. UNCHANGED <<created, price, check>>
      BY <1>7 DEF ForwardRead, ForwardSend, ForwardThrow, ForwardConfirm, Land, book
    <2> QED
      BY <1>7, <2>1, CallGoesOn DEF CallsAreAboutPayments
  <1>8. CASE UNCHANGED <<created, price, check, forward, tx>>
    BY <1>8 DEF CallsAreAboutPayments
  <1>9. CASE Customer
    BY <1>9, <1>1, <1>8 DEF Customer, Deposit, Cancel, book, calls
  <1>10. CASE Checking
    BY <1>10, <1>2, <1>3, <1>4, <1>5 DEF Checking
  <1>11. CASE Forwarding
    BY <1>11, <1>6, <1>7 DEF Forwarding
  <1>12. CASE \E p \in Payments : BecomeDue(p)
    BY <1>12, <1>8 DEF BecomeDue, book, calls
  <1>13. CASE UNCHANGED vars
    BY <1>13, <1>8 DEF vars, book, calls
  <1> QED
    BY <1>9, <1>10, <1>11, <1>12, <1>13 DEF Next

\* A transaction that is submitted transfers something, and the balance it
\* was computed from stays the one that was read.
LEMMA SentStep ==
  ASSUME TypeOK, SomethingIsSent, [Next]_vars
  PROVE  SomethingIsSent'
  <1> USE AmountsAssumption
  <1>1. ASSUME NEW f \in Forwarders,
               (\E p \in Payments : ForwardStart(f, p)) \/ ForwardRead(f) \/ ForwardSend(f)
                 \/ ForwardThrow(f) \/ ForwardConfirm(f) \/ Land(f),
               NEW g \in Forwarders
        PROVE  /\ tx'[g] = "flying" => TransferAmount(g)' > 0
               /\ forward'[g].pc \in {"asked", "read"} => tx'[g] = "none"
    <2>1. CASE g # f
      <3>1. tx'[g] = tx[g] /\ forward'[g] = forward[g]
        BY <1>1, <2>1 DEF ForwardStart, ForwardRead, ForwardSend, ForwardThrow,
                          ForwardConfirm, Land, TypeOK
      <3> QED
        BY <3>1 DEF SomethingIsSent, TransferAmount
    <2>2. CASE g = f /\ \E p \in Payments : ForwardStart(f, p)
      BY <2>2 DEF ForwardStart, TypeOK, Asking
    <2>3. CASE g = f /\ ForwardRead(f)
      BY <2>3 DEF ForwardRead, TypeOK, Forward, SomethingIsSent
    <2>4. CASE g = f /\ ForwardSend(f)
      BY <2>4 DEF ForwardSend, TypeOK, Forward, TransferAmount
    <2>5. CASE g = f /\ ForwardThrow(f)
      BY <2>5 DEF ForwardThrow, TypeOK, Forward, SomethingIsSent, TransferAmount
    <2>6. CASE g = f /\ ForwardConfirm(f)
      BY <2>6 DEF ForwardConfirm, TypeOK, Idle
    <2>7. CASE g = f /\ Land(f)
      BY <2>7 DEF Land, TypeOK, SomethingIsSent
    <2> QED
      BY <1>1, <2>1, <2>2, <2>3, <2>4, <2>5, <2>6, <2>7
  <1>2. CASE UNCHANGED <<forward, tx>>
    BY <1>2 DEF SomethingIsSent, TransferAmount
  <1>3. CASE Customer
    BY <1>3, <1>2 DEF Customer, Create, Deposit, Cancel, calls
  <1>4. CASE Checking
    BY <1>4, <1>2 DEF Checking, Answer, Poll, PollResume, TickStart, TickResume
  <1>5. CASE Forwarding
    BY <1>5, <1>1 DEF Forwarding, SomethingIsSent
  <1>6. CASE \E p \in Payments : BecomeDue(p)
    BY <1>6, <1>2 DEF BecomeDue, calls
  <1>7. CASE UNCHANGED vars
    BY <1>7, <1>2 DEF vars, calls
  <1> QED
    BY <1>3, <1>4, <1>5, <1>6, <1>7 DEF Next

\* What an address holds and what the merchant got from it never exceed what
\* was deposited, so neither does an answer of the node, however old it is.
LEMMA DepositsStep ==
  ASSUME TypeOK, CallsAreAboutPayments, MapsPartitionPayments, SomethingIsSent,
         OnlyDepositsSeen, [Next]_vars
  PROVE  OnlyDepositsSeen'
  <1> USE AmountsAssumption
  <1>1. ASSUME NEW p \in Payments, NEW n \in Deposits, Deposit(p, n)
        PROVE  OnlyDepositsSeen'
    <2>1. /\ balance' = [balance EXCEPT ![p] = @ + n]
          /\ deposited' = [deposited EXCEPT ![p] = @ + n] /\ UNCHANGED <<check, moved>>
      BY <1>1 DEF Deposit, calls
    <2>2. n \in Nat
      OBVIOUS
    <2>3. \A q \in Payments : /\ balance'[q] + moved'[q] <= deposited'[q]
                             /\ deposited[q] <= deposited'[q]
      BY <2>1, <2>2 DEF OnlyDepositsSeen, TypeOK
    <2>4. \A c \in Checkers : check[c].pc = "answered" =>
            check[c].pay \in Payments /\ check[c].seen \in Int
      BY DEF CallsAreAboutPayments, TypeOK, Check, Payments, Unknown
    <2>5. \A q \in Payments : deposited[q] \in Int /\ deposited'[q] \in Int
      BY <2>1, <2>2 DEF TypeOK
    <2> QED
      BY <2>1, <2>3, <2>4, <2>5 DEF OnlyDepositsSeen
  <1>2. ASSUME NEW c \in Checkers, Answer(c) PROVE OnlyDepositsSeen'
    <2> DEFINE p == check[c].pay
    <2>1. p \in Payments /\ UNCHANGED <<balance, moved, deposited>>
      BY <1>2 DEF Answer, CallsAreAboutPayments, TypeOK, Payments, chain
    <2>2. PICK seen \in {balance[p], Unknown} :
            check' = [check EXCEPT ![c].pc = "answered", ![c].seen = seen]
      BY <1>2 DEF Answer
    <2>3. seen <= deposited[p]
      BY <2>1, <2>2 DEF OnlyDepositsSeen, TypeOK, Unknown
    <2>4. check'[c].seen = seen /\ check'[c].pay = p
      BY <2>2 DEF TypeOK, Check
    <2>5. \A d \in Checkers : d # c => check'[d] = check[d]
      BY <2>2 DEF TypeOK
    <2> HIDE DEF p
    <2> QED
      BY <2>1, <2>3, <2>4, <2>5 DEF OnlyDepositsSeen
  <1>3. ASSUME NEW c \in Checkers, UNCHANGED <<balance, moved, deposited>>,
               \A d \in Checkers : check'[d] = check[d] \/ check'[d].pc # "answered"
        PROVE  OnlyDepositsSeen'
    BY <1>3 DEF OnlyDepositsSeen
  <1>4. ASSUME NEW c \in Pollers,
               (\E p \in Payments : Poll(c, p)) \/ PollResume(c)
        PROVE  OnlyDepositsSeen'
    <2>1. c \in Checkers /\ UNCHANGED <<balance, moved, deposited>>
      BY <1>4 DEF Poll, PollResume, Checkers, chain
    <2>2. \A d \in Checkers : check'[d] = check[d] \/ check'[d].pc # "answered"
      BY <1>4, <2>1 DEF Poll, PollResume, TypeOK, Asking, Idle
    <2> QED
      BY <2>1, <2>2, <1>3
  <1>5. ASSUME NEW c \in Ticks, TickStart(c) \/ TickResume(c)
        PROVE  OnlyDepositsSeen'
    <2>1. /\ c \in Checkers /\ UNCHANGED <<balance, moved, deposited>> /\ created' = created
          /\ \E from : Visit(c, from)
      BY <1>5 DEF TickStart, TickResume, Checkers, chain
    <2>2. \A d \in Checkers : check'[d] = check[d] \/ check'[d].pc # "answered"
      BY <2>1, VisitKeepsCalls
    <2> QED
      BY <2>1, <2>2, <1>3
  <1>6. ASSUME NEW f \in Forwarders, Land(f) PROVE OnlyDepositsSeen'
    <2> DEFINE p == forward[f].pay
    <2>1. /\ p \in Payments /\ tx[f] = "flying" /\ UNCHANGED <<deposited, check>>
      BY <1>6 DEF Land, CallsAreAboutPayments, TypeOK, Payments, book
    <2>2. TransferAmount(f) \in Int /\ TransferAmount(f) > 0
      BY <2>1 DEF SomethingIsSent, TransferAmount, TypeOK, Forward
    <2>3. \E got, paid \in Nat : /\ got <= paid
                               /\ balance' = [balance EXCEPT ![p] = @ - paid]
                               /\ moved' = [moved EXCEPT ![p] = @ + got]
      <3>1. CASE /\ balance' = [balance EXCEPT ![p] = @ - TransferAmount(f) - FEE]
                 /\ moved' = [moved EXCEPT ![p] = @ + TransferAmount(f)]
        <4>1. TransferAmount(f) \in Nat /\ TransferAmount(f) + FEE \in Nat /\ balance[p] \in Nat
          BY <2>1, <2>2 DEF TypeOK
        <4>2. balance[p] - TransferAmount(f) - FEE = balance[p] - (TransferAmount(f) + FEE)
          BY <4>1, <2>2
        <4> DEFINE got == TransferAmount(f)
                   paid == TransferAmount(f) + FEE
        <4>3. got \in Nat /\ paid \in Nat /\ got <= paid
          BY <4>1
        <4>4. /\ balance' = [balance EXCEPT ![p] = @ - paid]
              /\ moved' = [moved EXCEPT ![p] = @ + got]
          BY <3>1, <4>2
        <4> HIDE DEF got, paid
        <4> QED
          BY <4>3, <4>4
      <3>2. CASE balance' = [balance EXCEPT ![p] = @ - FEE] /\ moved' = moved
        <4>1. moved' = [moved EXCEPT ![p] = @ + 0]
          BY <2>1, <3>2 DEF TypeOK
        <4> DEFINE got == 0
        <4>2. got \in Nat /\ got <= FEE /\ moved' = [moved EXCEPT ![p] = @ + got]
          BY <4>1
        <4> HIDE DEF got
        <4> QED
          BY <3>2, <4>2
      <3>3. CASE balance' = balance /\ moved' = moved
        <4>1. /\ balance' = [balance EXCEPT ![p] = @ - 0]
              /\ moved' = [moved EXCEPT ![p] = @ + 0]
          BY <2>1, <3>3 DEF TypeOK
        <4> DEFINE got == 0
        <4>2. /\ got \in Nat /\ got <= got
              /\ balance' = [balance EXCEPT ![p] = @ - got]
              /\ moved' = [moved EXCEPT ![p] = @ + got]
          BY <4>1
        <4> HIDE DEF got
        <4> QED
          BY <4>2
      <3> QED
        BY <1>6, <3>1, <3>2, <3>3 DEF Land
    <2>4. PICK got, paid \in Nat : /\ got <= paid
                                 /\ balance' = [balance EXCEPT ![p] = @ - paid]
                                 /\ moved' = [moved EXCEPT ![p] = @ + got]
      BY <2>3
    <2>5. \A q \in Payments : balance'[q] + moved'[q] <= deposited[q]
      BY <2>1, <2>4 DEF OnlyDepositsSeen, TypeOK
    <2> QED
      BY <2>1, <2>5 DEF OnlyDepositsSeen
  <1>7. CASE UNCHANGED <<balance, moved, deposited, check>>
    BY <1>7 DEF OnlyDepositsSeen
  <1>8. CASE Customer
    BY <1>8, <1>1, <1>7 DEF Customer, Create, Cancel, chain, calls
  <1>9. CASE Checking
    BY <1>9, <1>2, <1>4, <1>5 DEF Checking
  <1>10. CASE Forwarding
    BY <1>10, <1>6, <1>7 DEF Forwarding, ForwardStart, ForwardRead, ForwardSend,
                             ForwardThrow, ForwardConfirm, chain
  <1>11. CASE \E p \in Payments : BecomeDue(p)
    BY <1>11, <1>7 DEF BecomeDue, calls
  <1>12. CASE UNCHANGED vars
    BY <1>12, <1>7 DEF vars, calls, chain
  <1> QED
    BY <1>8, <1>9, <1>10, <1>11, <1>12 DEF Next

\* What completes a payment does not change once it exists.
LEMMA EnoughStays ==
  ASSUME TypeOK, NEW p \in Payments, price'[p] = price[p]
  PROVE  Enough(p)' = Enough(p)
  BY DEF Enough, Asked

\* Payments are completed by answers only, and only after their creation.
LEMMA CreationStep ==
  ASSUME TypeOK, CallsAreAboutPayments, MapsPartitionPayments, NothingBeforeCreation,
         [Next]_vars
  PROVE  NothingBeforeCreation'
  <1> USE AmountsAssumption
  <1>1. ASSUME NEW p \in Payments, NEW currency \in Currencies, NEW amount \in Amounts,
               Create(p, currency, amount)
        PROVE  NothingBeforeCreation'
    <2>1. /\ p = created + 1 /\ created' = p /\ completions' = completions
          /\ status' = [status EXCEPT ![p] = "pending"]
      BY <1>1 DEF Create, history
    <2>2. /\ created \in Nat /\ p \in Nat /\ Payments \subseteq Nat
          /\ status \in [Payments -> Statuses]
      BY DEF TypeOK, Payments
    <2>3. ASSUME NEW q \in Payments, q > created' PROVE status'[q] = "none" /\ completions'[q] = 0
      <3>1. q # p /\ q > created
        BY <2>1, <2>2, <2>3
      <3>2. status'[q] = status[q] /\ completions'[q] = completions[q]
        BY <2>1, <2>2, <3>1
      <3> QED
        BY <3>1, <3>2 DEF NothingBeforeCreation
    <2> QED
      BY <2>3 DEF NothingBeforeCreation, Payments
  <1>2. ASSUME NEW p \in Payments, Cancel(p) PROVE NothingBeforeCreation'
    <2>1. p \in 1..created
      BY <1>2 DEF Cancel, MapsPartitionPayments
    <2> QED
      BY <1>2, <2>1 DEF Cancel, NothingBeforeCreation, TypeOK, Payments, history
  <1>3. ASSUME NEW c \in Checkers, check[c].pc = "answered", created' = created,
               NEW expired, expired \subseteq pending, check[c].pay \notin expired,
               Apply(check[c].pay, Outcome(check[c].pay, check[c].seen), expired)
        PROVE  NothingBeforeCreation'
    <2> DEFINE p == check[c].pay
               outcome == Outcome(p, check[c].seen)
    <2>1. p \in 1..created
      BY <1>3 DEF CallsAreAboutPayments
    <2>2. outcome \in {"none", "partial", "completed"}
      BY OutcomeIs
    <2>3. Apply(p, outcome, expired) /\ p \notin expired
      BY <1>3
    <2> HIDE DEF p, outcome
    <2>4. \A q \in Payments :
            q > created => status'[q] = status[q] /\ completions'[q] = completions[q]
      BY <1>3, <2>1, <2>2, <2>3, ApplyKeepsMaps
    <2> QED
      BY <1>3, <2>4 DEF NothingBeforeCreation
  <1>4. ASSUME NEW c \in Pollers, PollResume(c) PROVE NothingBeforeCreation'
    <2>1. /\ c \in Checkers /\ check[c].pc = "answered" /\ created' = created
          /\ Apply(check[c].pay, Outcome(check[c].pay, check[c].seen), {})
      BY <1>4 DEF PollResume, Checkers
    <2>2. {} \subseteq pending /\ check[c].pay \notin {}
      OBVIOUS
    <2> QED
      BY <2>1, <2>2, <1>3
  <1>5. ASSUME NEW c \in Ticks, TickResume(c) PROVE NothingBeforeCreation'
    <2>1. Passed(check[c].pay) \subseteq pending /\ check[c].pay \notin Passed(check[c].pay)
      <3>1. check[c].pay \in Int
        BY <1>5 DEF TickResume, CallsAreAboutPayments, Checkers, TypeOK
      <3> QED
        BY <3>1 DEF Passed
    <2> QED
      BY <1>5, <2>1, <1>3 DEF TickResume, Checkers
  <1>6. ASSUME NEW c \in Ticks, TickStart(c) PROVE NothingBeforeCreation'
    <2>1. \A q \in Passed(0) : q \in 1..created
      BY DEF Passed, MapsPartitionPayments
    <2> QED
      BY <1>6, <2>1 DEF TickStart, NothingBeforeCreation, TypeOK, Payments, history
  <1>7. CASE UNCHANGED <<created, status, completions>>
    BY <1>7 DEF NothingBeforeCreation
  <1>8. CASE Customer
    BY <1>8, <1>1, <1>2, <1>7 DEF Customer, Deposit, book, history
  <1>9. CASE Checking
    BY <1>9, <1>4, <1>5, <1>6, <1>7 DEF Checking, Answer, Poll, book, history
  <1>10. CASE Forwarding
    BY <1>10, <1>7 DEF Forwarding, ForwardStart, ForwardRead, ForwardSend,
                       ForwardThrow, ForwardConfirm, Land, book, history
  <1>11. CASE \E p \in Payments : BecomeDue(p)
    BY <1>11, <1>7 DEF BecomeDue, book, history
  <1>12. CASE UNCHANGED vars
    BY <1>12, <1>7 DEF vars, book, history
  <1> QED
    BY <1>8, <1>9, <1>10, <1>11, <1>12 DEF Next

\* An answer completes a payment only if enough had been deposited when the
\* node gave it, hence also when it is applied.
LEMMA CompletedStep ==
  ASSUME TypeOK, TypeOK', CallsAreAboutPayments, MapsPartitionPayments,
         NothingBeforeCreation, OnlyDepositsSeen, CompletedHadEnough, [Next]_vars
  PROVE  CompletedHadEnough'
  <1> USE AmountsAssumption
  <1>1. ASSUME NEW p \in Payments, NEW currency \in Currencies, NEW amount \in Amounts,
               Create(p, currency, amount), NEW q \in Payments, completions'[q] > 0
        PROVE  deposited'[q] >= Enough(q)'
    <2>1. /\ p = created + 1 /\ completions' = completions /\ deposited' = deposited
          /\ price' = [price EXCEPT ![p] = [currency |-> currency, amount |-> amount]]
      BY <1>1 DEF Create, history, chain
    <2>2. q # p
      BY <1>1, <2>1 DEF NothingBeforeCreation, TypeOK
    <2>3. Enough(q)' = Enough(q)
      BY <2>1, <2>2, EnoughStays DEF TypeOK
    <2> QED
      BY <1>1, <2>1, <2>3 DEF CompletedHadEnough
  <1>2. ASSUME NEW p \in Payments, NEW n \in Deposits, Deposit(p, n),
               NEW q \in Payments, completions'[q] > 0
        PROVE  deposited'[q] >= Enough(q)'
    <2>1. /\ completions' = completions /\ price' = price
          /\ deposited' = [deposited EXCEPT ![p] = @ + n]
      BY <1>2 DEF Deposit, history, book
    <2>2. n \in Nat /\ deposited[q] \in Nat /\ deposited'[q] >= deposited[q]
      BY <2>1 DEF TypeOK
    <2>3. Enough(q)' = Enough(q) /\ Enough(q) \in Int /\ deposited[q] >= Enough(q)
      BY <1>2, <2>1, EnoughStays, EnoughIsInt DEF CompletedHadEnough
    <2> QED
      BY <2>2, <2>3 DEF TypeOK
  <1>3. ASSUME NEW c \in Checkers, check[c].pc = "answered",
               UNCHANGED <<created, price, deposited>>,
               NEW expired, expired \subseteq pending, check[c].pay \notin expired,
               Apply(check[c].pay, Outcome(check[c].pay, check[c].seen), expired),
               NEW q \in Payments, completions'[q] > 0
        PROVE  deposited'[q] >= Enough(q)'
    <2> DEFINE p == check[c].pay
               outcome == Outcome(p, check[c].seen)
    <2>1. p \in 1..created /\ check[c].seen <= deposited[p]
      BY <1>3 DEF CallsAreAboutPayments, OnlyDepositsSeen
    <2>2. outcome \in {"none", "partial", "completed"}
      BY OutcomeIs
    <2>3. outcome = "completed" => check[c].seen >= Enough(p)
      BY DEF Outcome
    <2>4. Apply(p, outcome, expired) /\ p \notin expired
      BY <1>3
    <2>5. check[c].seen \in Int /\ deposited[q] \in Int /\ Enough(q) \in Int
      BY EnoughIsInt DEF TypeOK, Check, Unknown
    <2> HIDE DEF p, outcome
    <2>6. completions[q] > 0 \/ (q = p /\ outcome = "completed")
      BY <1>3, <2>1, <2>2, <2>4, ApplyKeepsMaps
    <2>7. deposited[q] >= Enough(q)
      BY <2>1, <2>3, <2>5, <2>6 DEF CompletedHadEnough
    <2> QED
      BY <1>3, <2>7, EnoughStays
  <1>4. ASSUME NEW c \in Pollers, PollResume(c), NEW q \in Payments, completions'[q] > 0
        PROVE  deposited'[q] >= Enough(q)'
    <2> DEFINE expired == {}
    <2>1. expired \subseteq pending /\ check[c].pay \notin expired
      OBVIOUS
    <2>2. /\ c \in Checkers /\ check[c].pc = "answered"
          /\ UNCHANGED <<created, price, deposited>>
          /\ Apply(check[c].pay, Outcome(check[c].pay, check[c].seen), expired)
      BY <1>4 DEF PollResume, Checkers, chain
    <2> HIDE DEF expired
    <2> QED
      BY <1>4, <2>1, <2>2, <1>3
  <1>5. ASSUME NEW c \in Ticks, TickResume(c), NEW q \in Payments, completions'[q] > 0
        PROVE  deposited'[q] >= Enough(q)'
    <2>1. Passed(check[c].pay) \subseteq pending /\ check[c].pay \notin Passed(check[c].pay)
      <3>1. check[c].pay \in Int
        BY <1>5 DEF TickResume, CallsAreAboutPayments, Checkers, TypeOK
      <3> QED
        BY <3>1 DEF Passed
    <2> QED
      BY <1>5, <2>1, <1>3 DEF TickResume, Checkers, chain
  <1>6. CASE UNCHANGED <<price, deposited, completions>>
    BY <1>6, EnoughStays DEF CompletedHadEnough
  <1>7. CASE Customer
    BY <1>7, <1>1, <1>2, <1>6 DEF Customer, Cancel, CompletedHadEnough, chain, history
  <1>8. CASE Checking
    BY <1>8, <1>4, <1>5, <1>6 DEF Checking, Answer, Poll, TickStart, CompletedHadEnough,
                                  book, chain, history
  <1>9. CASE Forwarding
    BY <1>9, <1>6 DEF Forwarding, ForwardStart, ForwardRead, ForwardSend,
                      ForwardThrow, ForwardConfirm, Land, book, chain, history
  <1>10. CASE \E p \in Payments : BecomeDue(p)
    BY <1>10, <1>6 DEF BecomeDue, book, history
  <1>11. CASE UNCHANGED vars
    BY <1>11, <1>6 DEF vars, book, chain, history
  <1> QED
    BY <1>7, <1>8, <1>9, <1>10, <1>11 DEF Next

\* Payments leave a Map for good and are completed once and for all.
LEMMA NothingIsUndone ==
  ASSUME TypeOK, CallsAreAboutPayments, [Next]_vars
  PROVE  /\ settled \subseteq settled'
         /\ \A p \in Payments : completions'[p] >= completions[p]
  <1> USE AmountsAssumption
  <1>1. settled \subseteq settled'
    BY DEF Next, Customer, Checking, Forwarding, Create, Deposit, Cancel, BecomeDue,
           Answer, Poll, PollResume, TickStart, TickResume, Apply, ForwardStart,
           ForwardRead, ForwardSend, ForwardThrow, ForwardConfirm, Land, vars, book
  <1> SUFFICES \A q \in Payments : completions'[q] >= completions[q]
    BY <1>1
  <1>2. ASSUME NEW p \in 1..created, NEW outcome, NEW expired, Apply(p, outcome, expired)
        PROVE  \A q \in Payments : completions'[q] >= completions[q]
    <2>1. PICK n \in {0, 1} : completions' = [completions EXCEPT ![p] = @ + n]
      BY <1>2 DEF Apply
    <2> QED
      BY <2>1 DEF TypeOK
  <1>3. CASE completions' = completions
    BY <1>3 DEF TypeOK
  <1>4. CASE Customer
    BY <1>4, <1>3 DEF Customer, Create, Deposit, Cancel, history
  <1>5. CASE Checking
    <2>1. ASSUME NEW c \in Checkers, PollResume(c) \/ TickResume(c)
          PROVE  \A q \in Payments : completions'[q] >= completions[q]
      BY <2>1, <1>2 DEF PollResume, TickResume, CallsAreAboutPayments
    <2> QED
      BY <1>5, <1>3, <2>1 DEF Checking, Answer, Poll, TickStart, Checkers, history
  <1>6. CASE Forwarding
    BY <1>6, <1>3 DEF Forwarding, ForwardStart, ForwardRead, ForwardSend,
                      ForwardThrow, ForwardConfirm, Land, history
  <1>7. CASE (\E p \in Payments : BecomeDue(p)) \/ UNCHANGED vars
    BY <1>7, <1>3 DEF BecomeDue, vars, history
  <1> QED
    BY <1>4, <1>5, <1>6, <1>7 DEF Next

\* A payment gets the status "completed" with its paymentCompleted event only.
LEMMA CompletedStatusStep ==
  ASSUME TypeOK, CallsAreAboutPayments, ForwardsAreCompleted, [Next]_vars
  PROVE  \A p \in Payments : status'[p] = "completed" => completions'[p] > 0
  <1> USE AmountsAssumption
  <1> DEFINE Done == \A p \in Payments : status'[p] = "completed" => completions'[p] > 0
  <1> SUFFICES Done
    OBVIOUS
  <1>1. ASSUME completions' = completions,
               \A p \in Payments : status'[p] = status[p] \/ status'[p] # "completed"
        PROVE  Done
    BY <1>1 DEF ForwardsAreCompleted
  <1>2. ASSUME NEW p \in 1..created, NEW outcome, NEW expired, Apply(p, outcome, expired)
        PROVE  Done
    <2>1. p \in Payments
      BY DEF TypeOK, Payments
    <2>2. completions' = [completions EXCEPT
                            ![p] = @ + IF outcome = "completed" THEN 1 ELSE 0]
      BY <1>2 DEF Apply
    <2>3. ASSUME NEW q \in Payments, status'[q] = "completed" PROVE completions'[q] > 0
      <3>1. status[q] = "completed" \/ (q = p /\ outcome = "completed")
        BY <1>2, <2>3 DEF Apply
      <3> QED
        BY <2>1, <2>2, <3>1 DEF ForwardsAreCompleted, TypeOK
    <2> QED
      BY <2>3
  <1>3. CASE Customer
    <2>1. ASSUME NEW p \in Payments, NEW currency, NEW amount, Create(p, currency, amount)
          PROVE  Done
      BY <2>1, <1>1 DEF Create, TypeOK, history
    <2>2. ASSUME NEW p \in Payments, Cancel(p) PROVE Done
      BY <2>2, <1>1 DEF Cancel, TypeOK, history
    <2>3. ASSUME NEW p \in Payments, NEW n, Deposit(p, n) PROVE Done
      BY <2>3, <1>1 DEF Deposit, book, history
    <2> HIDE DEF Done
    <2> QED
      BY <1>3, <2>1, <2>2, <2>3 DEF Customer
  <1>4. CASE Checking
    <2>1. ASSUME NEW c \in Checkers, PollResume(c) \/ TickResume(c) PROVE Done
      BY <2>1, <1>2 DEF PollResume, TickResume, CallsAreAboutPayments
    <2>2. ASSUME NEW c \in Ticks, TickStart(c) PROVE Done
      BY <2>2, <1>1 DEF TickStart, TypeOK, history
    <2>3. CASE UNCHANGED <<book, history>>
      BY <2>3, <1>1 DEF book, history
    <2> HIDE DEF Done
    <2> QED
      BY <1>4, <2>1, <2>2, <2>3 DEF Checking, Answer, Poll, Checkers
  <1>5. CASE Forwarding
    BY <1>5, <1>1 DEF Forwarding, ForwardStart, ForwardRead, ForwardSend,
                      ForwardThrow, ForwardConfirm, Land, book, history
  <1>6. CASE (\E p \in Payments : BecomeDue(p)) \/ UNCHANGED vars
    BY <1>6, <1>1 DEF BecomeDue, vars, book, history
  <1> QED
    BY <1>3, <1>4, <1>5, <1>6 DEF Next

\* A call of forwardFunds and its transaction are about a payment that was
\* completed and has left pendingPayments, whatever is applied to it later.
LEMMA ForwardsStep ==
  ASSUME TypeOK, TypeOK', CallsAreAboutPayments, MapsPartitionPayments,
         ForwardsAreCompleted, OnlyCompletedForwarded, [Next]_vars
  PROVE  ForwardsAreCompleted' /\ OnlyCompletedForwarded'
  <1> USE AmountsAssumption
  <1>1. /\ settled \subseteq settled'
        /\ \A p \in Payments : completions[p] > 0 => completions'[p] > 0
    BY NothingIsUndone DEF TypeOK
  <1>2. \A f \in Forwarders :
          forward'[f].pc # "idle" \/ tx'[f] # "none" =>
            completions[forward'[f].pay] > 0 /\ forward'[f].pay \in settled
    <2>1. CASE forward' = forward /\ tx' = tx
      BY <2>1 DEF ForwardsAreCompleted
    <2>2. ASSUME NEW f \in Forwarders, NEW p \in Payments, ForwardStart(f, p),
                 NEW g \in Forwarders
          PROVE  \/ forward'[g] = forward[g] /\ tx'[g] = tx[g]
                 \/ completions[forward'[g].pay] > 0 /\ forward'[g].pay \in settled
      BY <2>2 DEF ForwardStart, Asking, ForwardsAreCompleted, TypeOK
    <2>3. ASSUME NEW f \in Forwarders,
                 \/ ForwardRead(f) \/ ForwardSend(f) \/ ForwardThrow(f)
                 \/ ForwardConfirm(f) \/ Land(f),
                 NEW g \in Forwarders, forward'[g].pc # "idle" \/ tx'[g] # "none"
          PROVE  completions[forward'[g].pay] > 0 /\ forward'[g].pay \in settled
      <3>1. forward[g].pc # "idle" \/ tx[g] # "none"
        BY <2>3, CallGoesOn
      <3> QED
        BY <2>3, <3>1, CallGoesOn DEF ForwardsAreCompleted
    <2>4. CASE Customer
      BY <2>4, <2>1 DEF Customer, Create, Deposit, Cancel, calls
    <2>5. CASE Checking
      BY <2>5, <2>1 DEF Checking, Answer, Poll, PollResume, TickStart, TickResume
    <2>6. CASE Forwarding
      BY <2>6, <2>2, <2>3 DEF Forwarding, ForwardsAreCompleted
    <2>7. CASE (\E p \in Payments : BecomeDue(p)) \/ UNCHANGED vars
      BY <2>7, <2>1 DEF BecomeDue, vars, calls
    <2> QED
      BY <2>4, <2>5, <2>6, <2>7 DEF Next
  <1>3. \A p \in Payments : status'[p] = "completed" => completions'[p] > 0
    BY CompletedStatusStep
  <1>4. \A f \in Forwarders :
          forward'[f].pc # "idle" \/ tx'[f] # "none" => forward'[f].pay \in Payments
    <2>1. settled \subseteq Payments
      BY DEF TypeOK
    <2> QED
      BY <1>2, <2>1
  <1>5. ForwardsAreCompleted'
    BY <1>1, <1>2, <1>3, <1>4 DEF ForwardsAreCompleted
  <1>6. ASSUME NEW p \in Payments, moved'[p] > 0
        PROVE  completions[p] > 0 /\ p \in settled
    <2>1. CASE moved' = moved
      BY <1>6, <2>1 DEF OnlyCompletedForwarded
    <2>2. ASSUME NEW f \in Forwarders, Land(f)
          PROVE  completions[p] > 0 /\ p \in settled
      <3>1. moved'[p] = moved[p] \/ p = forward[f].pay
        BY <2>2 DEF Land, TypeOK
      <3> QED
        BY <1>6, <2>2, <3>1 DEF Land, ForwardsAreCompleted, OnlyCompletedForwarded
    <2>3. CASE Customer
      BY <2>3, <2>1 DEF Customer, Create, Deposit, Cancel, chain
    <2>4. CASE Checking
      BY <2>4, <2>1 DEF Checking, Answer, Poll, PollResume, TickStart, TickResume, chain
    <2>5. CASE Forwarding
      BY <2>5, <2>1, <2>2 DEF Forwarding, ForwardStart, ForwardRead, ForwardSend,
                              ForwardThrow, ForwardConfirm, chain
    <2>6. CASE (\E q \in Payments : BecomeDue(q)) \/ UNCHANGED vars
      BY <2>6, <2>1 DEF BecomeDue, vars, chain
    <2> QED
      BY <2>3, <2>4, <2>5, <2>6 DEF Next
  <1> QED
    BY <1>1, <1>5, <1>6 DEF OnlyCompletedForwarded

\* What a transaction did to its address, in numbers: it paid the merchant
\* and the fee, it cost the fee only, or it did nothing.
LEMMA LandIs ==
  ASSUME TypeOK, CallsAreAboutPayments, SomethingIsSent, NEW f \in Forwarders, Land(f)
  PROVE  /\ tx[f] = "flying" /\ forward[f].pay \in 1..created
         /\ UNCHANGED <<book, check, forward, due, deposited, history>>
         /\ \E p \in Payments, got \in Nat :
              /\ p = forward[f].pay
              /\ \/ /\ CanPay(p, TransferAmount(f) + FEE) /\ got > 0
                    /\ balance' = [balance EXCEPT ![p] = @ - TransferAmount(f) - FEE]
                    /\ moved' = [moved EXCEPT ![p] = @ + got]
                    /\ \A g \in Forwarders :
                         tx'[g] = tx[g] \/ (g = f /\ tx'[g] \in {"done", "none"})
                 \/ /\ ~CanPay(p, TransferAmount(f) + FEE) /\ moved' = moved
                    /\ balance' = [balance EXCEPT ![p] = @ - FEE]
                    /\ \A g \in Forwarders :
                         tx'[g] = tx[g] \/ (g = f /\ tx'[g] \in {"failed", "none"})
                 \/ /\ balance' = balance /\ moved' = moved
                    /\ \A g \in Forwarders : tx'[g] = tx[g] \/ (g = f /\ tx'[g] = "none")
  <1> USE AmountsAssumption
  <1> DEFINE p == forward[f].pay
             got == TransferAmount(f)
  <1>1. /\ tx[f] = "flying" /\ p \in 1..created
        /\ UNCHANGED <<book, check, forward, due, deposited, history>>
    BY DEF Land, CallsAreAboutPayments
  <1>2. p \in Payments /\ got \in Nat /\ got > 0
    <2>1. p \in Payments
      BY <1>1 DEF TypeOK, Payments
    <2>2. got \in Int /\ got > 0
      BY <1>1 DEF SomethingIsSent, TransferAmount, TypeOK, Forward
    <2> QED
      BY <2>1, <2>2
  <1>3. \A result : tx' = [tx EXCEPT ![f] = IF forward[f].pc = "sent" THEN result ELSE "none"]
          => \A g \in Forwarders : tx'[g] = tx[g] \/ (g = f /\ tx'[g] \in {result, "none"})
    BY DEF TypeOK
  <1>4. CASE /\ CanPay(p, got + FEE)
             /\ balance' = [balance EXCEPT ![p] = @ - got - FEE]
             /\ moved' = [moved EXCEPT ![p] = @ + got]
             /\ \A g \in Forwarders : tx'[g] = tx[g] \/ (g = f /\ tx'[g] \in {"done", "none"})
    BY <1>1, <1>2, <1>4
  <1>5. CASE /\ ~CanPay(p, got + FEE) /\ moved' = moved
             /\ balance' = [balance EXCEPT ![p] = @ - FEE]
             /\ \A g \in Forwarders : tx'[g] = tx[g] \/ (g = f /\ tx'[g] \in {"failed", "none"})
    BY <1>1, <1>2, <1>5
  <1>6. CASE /\ balance' = balance /\ moved' = moved
             /\ \A g \in Forwarders : tx'[g] = tx[g] \/ (g = f /\ tx'[g] = "none")
    BY <1>1, <1>2, <1>6
  <1>7. PICK result \in {"done", "failed", "none"} :
          /\ tx' = [tx EXCEPT ![f] = IF forward[f].pc = "sent" THEN result ELSE "none"]
          /\ \/ /\ result = "done" /\ CanPay(p, got + FEE)
                /\ balance' = [balance EXCEPT ![p] = @ - got - FEE]
                /\ moved' = [moved EXCEPT ![p] = @ + got]
             \/ /\ result = "failed" /\ ~CanPay(p, got + FEE) /\ moved' = moved
                /\ balance' = [balance EXCEPT ![p] = @ - FEE]
             \/ result = "none" /\ balance' = balance /\ moved' = moved
    BY DEF Land
  <1>8. \A g \in Forwarders : tx'[g] = tx[g] \/ (g = f /\ tx'[g] \in {result, "none"})
    BY <1>3, <1>7
  <1> HIDE DEF p, got
  <1> QED
    BY <1>4, <1>5, <1>6, <1>7, <1>8

\* What was read when the amount was computed stays at the address until the
\* merchant gets something from it: a transaction that passed fails only then.
LEMMA TakenStep ==
  ASSUME TypeOK, CallsAreAboutPayments, SomethingIsSent, NothingTakenYet, [Next]_vars
  PROVE  NothingTakenYet'
  <1> USE AmountsAssumption
  <1>1. CASE UNCHANGED <<forward, tx, balance, moved>>
    BY <1>1 DEF NothingTakenYet
  <1>2. \A g \in Forwarders :
          forward[g].pc # "idle" \/ tx[g] # "none" =>
            forward[g].pay \in Payments /\ forward[g].seen \in Nat
    BY DEF CallsAreAboutPayments, TypeOK, Payments, Forward
  <1>3. ASSUME NEW p \in Payments, NEW n \in Deposits, Deposit(p, n) PROVE NothingTakenYet'
    <2>1. /\ \A q \in Payments : balance[q] \in Nat /\ balance'[q] \in Nat
          /\ \A q \in Payments : balance'[q] >= balance[q]
          /\ UNCHANGED <<forward, tx, moved>>
      BY <1>3 DEF Deposit, TypeOK, calls
    <2> QED
      BY <1>2, <2>1 DEF NothingTakenYet
  <1>4. ASSUME NEW f \in Forwarders,
               \/ \E p \in Payments : ForwardStart(f, p)
               \/ ForwardRead(f) \/ ForwardSend(f) \/ ForwardThrow(f) \/ ForwardConfirm(f)
        PROVE  NothingTakenYet'
    <2>1. UNCHANGED <<balance, moved>>
      BY <1>4 DEF ForwardStart, ForwardRead, ForwardSend, ForwardThrow, ForwardConfirm, chain
    <2>2. \A g \in Forwarders : g # f => forward'[g] = forward[g] /\ tx'[g] = tx[g]
      BY <1>4 DEF ForwardStart, ForwardRead, ForwardSend, ForwardThrow, ForwardConfirm, TypeOK
    <2>3. /\ forward'[f].pc \in {"read", "sent"} \/ tx'[f] # "none" =>
                moved[forward'[f].pay] > 0 \/ balance[forward'[f].pay] >= forward'[f].seen
          /\ tx'[f] \in {"done", "failed"} => moved[forward'[f].pay] > 0
      <3>1. CASE \E p \in Payments : ForwardStart(f, p)
        BY <3>1 DEF ForwardStart, Asking, TypeOK
      <3>2. CASE ForwardRead(f)
        <4>1. forward[f].pay \in Payments /\ balance[forward[f].pay] \in Nat /\ tx[f] = "none"
          BY <3>2, <1>2 DEF ForwardRead, TypeOK, SomethingIsSent
        <4>2. /\ forward'[f].pay = forward[f].pay /\ forward'[f].seen = balance[forward[f].pay]
              /\ tx' = tx
          BY <3>2 DEF ForwardRead, TypeOK, Forward
        <4> QED
          BY <4>1, <4>2
      <3>3. CASE ForwardSend(f)
        BY <3>3 DEF ForwardSend, TypeOK, Forward, NothingTakenYet
      <3>4. CASE ForwardThrow(f)
        BY <3>4 DEF ForwardThrow, TypeOK, Forward, NothingTakenYet
      <3>5. CASE ForwardConfirm(f)
        BY <3>5 DEF ForwardConfirm, TypeOK, Idle
      <3> QED
        BY <1>4, <3>1, <3>2, <3>3, <3>4, <3>5
    <2> QED
      BY <2>1, <2>2, <2>3 DEF NothingTakenYet
  <1>5. ASSUME NEW f \in Forwarders, Land(f) PROVE NothingTakenYet'
    <2>1. PICK p \in Payments, got \in Nat :
            /\ p = forward[f].pay
            /\ \/ /\ got > 0
                  /\ balance' = [balance EXCEPT ![p] = @ - TransferAmount(f) - FEE]
                  /\ moved' = [moved EXCEPT ![p] = @ + got]
                  /\ \A g \in Forwarders :
                       tx'[g] = tx[g] \/ (g = f /\ tx'[g] \in {"done", "none"})
               \/ /\ ~CanPay(p, TransferAmount(f) + FEE) /\ moved' = moved
                  /\ balance' = [balance EXCEPT ![p] = @ - FEE]
                  /\ \A g \in Forwarders :
                       tx'[g] = tx[g] \/ (g = f /\ tx'[g] \in {"failed", "none"})
               \/ /\ balance' = balance /\ moved' = moved
                  /\ \A g \in Forwarders : tx'[g] = tx[g] \/ (g = f /\ tx'[g] = "none")
      BY <1>5, LandIs
    <2>2. tx[f] = "flying" /\ forward' = forward
      BY <1>5, LandIs
    <2>3. CASE /\ got > 0
               /\ balance' = [balance EXCEPT ![p] = @ - TransferAmount(f) - FEE]
               /\ moved' = [moved EXCEPT ![p] = @ + got]
               /\ \A g \in Forwarders :
                    tx'[g] = tx[g] \/ (g = f /\ tx'[g] \in {"done", "none"})
      <3>1. moved'[p] > 0
        BY <2>3 DEF TypeOK
      <3>2. \A q \in Payments : q # p => balance'[q] = balance[q] /\ moved'[q] = moved[q]
        BY <2>3 DEF TypeOK
      <3> QED
        BY <1>2, <2>1, <2>2, <2>3, <3>1, <3>2 DEF NothingTakenYet
    <2>4. CASE /\ ~CanPay(p, TransferAmount(f) + FEE) /\ moved' = moved
               /\ balance' = [balance EXCEPT ![p] = @ - FEE]
               /\ \A g \in Forwarders :
                    tx'[g] = tx[g] \/ (g = f /\ tx'[g] \in {"failed", "none"})
      <3>1. moved[p] > 0
        <4>1. moved[p] > 0 \/ balance[p] >= forward[f].seen
          BY <2>1, <2>2 DEF NothingTakenYet
        <4>2. forward[f].seen \in Nat /\ balance[p] \in Nat
          BY <1>2, <2>2 DEF TypeOK
        <4>3. balance[p] >= forward[f].seen => CanPay(p, TransferAmount(f) + FEE)
          BY <4>2 DEF CanPay, RentExempt, TransferAmount
        <4> QED
          BY <2>4, <4>1, <4>3
      <3>2. \A q \in Payments : q # p => balance'[q] = balance[q]
        BY <2>4 DEF TypeOK
      <3> QED
        BY <1>2, <2>1, <2>2, <2>4, <3>1, <3>2 DEF NothingTakenYet
    <2>5. CASE /\ balance' = balance /\ moved' = moved
               /\ \A g \in Forwarders : tx'[g] = tx[g] \/ (g = f /\ tx'[g] = "none")
      BY <2>2, <2>5 DEF NothingTakenYet
    <2> QED
      BY <2>1, <2>3, <2>4, <2>5
  <1>6. CASE Customer
    BY <1>6, <1>1, <1>3 DEF Customer, Create, Cancel, calls, chain
  <1>7. CASE Checking
    BY <1>7, <1>1 DEF Checking, Answer, Poll, PollResume, TickStart, TickResume, chain
  <1>8. CASE Forwarding
    BY <1>8, <1>4, <1>5 DEF Forwarding
  <1>9. CASE (\E p \in Payments : BecomeDue(p)) \/ UNCHANGED vars
    BY <1>9, <1>1 DEF BecomeDue, vars, calls, chain
  <1> QED
    BY <1>6, <1>7, <1>8, <1>9 DEF Next

\* Nothing is taken back from the merchant.
LEMMA MovedStays ==
  ASSUME TypeOK, CallsAreAboutPayments, SomethingIsSent, [Next]_vars
  PROVE  \A p \in Payments : moved[p] > 0 => moved'[p] > 0
  <1>1. CASE moved' = moved
    BY <1>1
  <1>2. ASSUME NEW f \in Forwarders, Land(f)
        PROVE  \A p \in Payments : moved[p] > 0 => moved'[p] > 0
    <2>1. moved' = moved \/ \E p \in Payments, got \in Nat : moved' = [moved EXCEPT ![p] = @ + got]
      BY <1>2, LandIs
    <2> QED
      BY <2>1 DEF TypeOK
  <1>3. CASE Customer
    BY <1>3, <1>1 DEF Customer, Create, Deposit, Cancel, chain
  <1>4. CASE Checking
    BY <1>4, <1>1 DEF Checking, Answer, Poll, PollResume, TickStart, TickResume, chain
  <1>5. CASE Forwarding
    BY <1>5, <1>1, <1>2 DEF Forwarding, ForwardStart, ForwardRead, ForwardSend,
                            ForwardThrow, ForwardConfirm, chain
  <1>6. CASE (\E p \in Payments : BecomeDue(p)) \/ UNCHANGED vars
    BY <1>6, <1>1 DEF BecomeDue, vars, chain
  <1> QED
    BY <1>3, <1>4, <1>5, <1>6 DEF Next

\* fundsForwarded is emitted when a transaction has reached its end, hence
\* when the merchant has got something.
LEMMA ReportedStep ==
  ASSUME TypeOK, CallsAreAboutPayments, SomethingIsSent, NothingTakenYet,
         ReportedWasMoved, [Next]_vars
  PROVE  ReportedWasMoved'
  <1>1. \A p \in Payments : moved[p] > 0 => moved'[p] > 0
    BY MovedStays
  <1>2. CASE reports' = reports
    BY <1>1, <1>2 DEF ReportedWasMoved
  <1>3. ASSUME NEW f \in Forwarders, ForwardConfirm(f) PROVE ReportedWasMoved'
    <2>1. /\ reports' = [reports EXCEPT ![forward[f].pay] = @ + 1]
          /\ moved[forward[f].pay] > 0
      BY <1>3 DEF ForwardConfirm, NothingTakenYet
    <2> QED
      BY <1>1, <2>1 DEF ReportedWasMoved, TypeOK
  <1>4. CASE Customer
    BY <1>4, <1>2 DEF Customer, Create, Deposit, Cancel, history
  <1>5. CASE Checking
    BY <1>5, <1>2 DEF Checking, Answer, Poll, PollResume, TickStart, TickResume, history
  <1>6. CASE Forwarding
    BY <1>6, <1>2, <1>3 DEF Forwarding, ForwardStart, ForwardRead, ForwardSend,
                            ForwardThrow, Land, history
  <1>7. CASE (\E p \in Payments : BecomeDue(p)) \/ UNCHANGED vars
    BY <1>7, <1>2 DEF BecomeDue, vars, history
  <1> QED
    BY <1>4, <1>5, <1>6, <1>7 DEF Next

----------------------------------------------------------------------------
(* Theorems                                                                *)

\* The inductive invariant holds in every reachable state.
THEOREM Invariance == Spec => []IInv
  <1>1. Init => IInv
    <2> SUFFICES ASSUME Init PROVE IInv
      OBVIOUS
    <2>1. TypeOK
      BY TypeOKInit
    <2>2. CallsAreAboutPayments /\ SomethingIsSent /\ OnlyDepositsSeen
      BY DEF Init, CallsAreAboutPayments, SomethingIsSent, OnlyDepositsSeen, Idle
    <2>3. NothingBeforeCreation /\ MapsPartitionPayments /\ CompletedHadEnough
      BY DEF Init, NothingBeforeCreation, MapsPartitionPayments, CompletedHadEnough
    <2>4. ForwardsAreCompleted /\ OnlyCompletedForwarded
      BY DEF Init, ForwardsAreCompleted, OnlyCompletedForwarded, Idle
    <2>5. NothingTakenYet /\ ReportedWasMoved
      BY DEF Init, NothingTakenYet, ReportedWasMoved, Idle
    <2> QED
      BY <2>1, <2>2, <2>3, <2>4, <2>5 DEF IInv
  <1>2. IInv /\ [Next]_vars => IInv'
    <2> SUFFICES ASSUME IInv, [Next]_vars PROVE IInv'
      OBVIOUS
    <2>1. TypeOK'
      BY TypeOKStep DEF IInv
    <2>2. CallsAreAboutPayments' /\ SomethingIsSent' /\ OnlyDepositsSeen'
      BY CallsStep, SentStep, DepositsStep DEF IInv
    <2>3. NothingBeforeCreation' /\ MapsPartitionPayments' /\ CompletedHadEnough'
      BY <2>1, CreationStep, MapsStep, CompletedStep DEF IInv
    <2>4. ForwardsAreCompleted' /\ OnlyCompletedForwarded'
      BY <2>1, ForwardsStep DEF IInv
    <2>5. NothingTakenYet' /\ ReportedWasMoved'
      BY TakenStep, ReportedStep DEF IInv
    <2> QED
      BY <2>1, <2>2, <2>3, <2>4, <2>5 DEF IInv
  <1> QED
    BY <1>1, <1>2, PTL DEF Spec

\* Every variable always holds values of its type.
THEOREM TypeCorrect == Spec => []TypeOK
  <1>1. IInv => TypeOK
    BY DEF IInv
  <1> QED
    BY <1>1, Invariance, PTL

\* Each payment is in exactly one of pendingPayments and completedPayments,
\* whatever ticks, polls, cancellations and late answers interleave.
THEOREM EachPaymentInOneMap == Spec => []MapsPartitionPayments
  <1>1. IInv => MapsPartitionPayments
    BY DEF IInv
  <1> QED
    BY <1>1, Invariance, PTL

\* No payment in SOL is completed that was not sent what its URI asks for,
\* whatever amount but 0 createPayment was called with.
THEOREM NothingCompletedUnpaid == Spec => []CompletedWasPaid
  <1>1. IInv => CompletedWasPaid
    <2> SUFFICES ASSUME IInv, NEW p \in Payments,
                        price[p].currency = "SOL", completions[p] > 0
                 PROVE  deposited[p] >= Asked(p)
      BY DEF CompletedWasPaid
    <2>1. deposited[p] >= Enough(p)
      BY DEF IInv, CompletedHadEnough
    <2>2. deposited[p] \in Int /\ Asked(p) \in Int /\ Enough(p) \in Int
      BY EnoughIsInt DEF IInv, TypeOK
    <2>3. Enough(p) >= Asked(p)
      BY EnoughForSol DEF IInv
    <2> QED
      BY <2>1, <2>2, <2>3
  <1> QED
    BY <1>1, Invariance, PTL

\* A payment that has left pendingPayments never comes back: a late answer
\* may change its status, but not reopen it.
THEOREM NeverReopened == Spec => SettledForGood
  <1>1. IInv /\ IInv' /\ [Next]_vars => [settled \subseteq settled' /\ settled \cap pending' = {}]_vars
    <2> SUFFICES ASSUME IInv, IInv', [Next]_vars
                 PROVE  settled \subseteq settled' /\ settled \cap pending' = {}
      OBVIOUS
    <2>1. settled \subseteq settled'
      BY DEF Next, Customer, Checking, Forwarding, Create, Deposit, Cancel, BecomeDue,
             Answer, Poll, PollResume, TickStart, TickResume, Apply, ForwardStart,
             ForwardRead, ForwardSend, ForwardThrow, ForwardConfirm, Land, vars, book
    <2> QED
      BY <2>1 DEF IInv, MapsPartitionPayments
  <1> QED
    BY <1>1, Invariance, PTL DEF Spec, SettledForGood

\* Once a payment has left pendingPayments and no check of it is in flight, no
\* check of it ever starts again, and neither its status nor the number of
\* paymentCompleted events for it ever changes.
THEOREM QuietIsFinal == Spec => SettledAndQuietIsFinal
  <1> DEFINE Quiet(p) == \A c \in Checkers : check[c].pc = "idle" \/ check[c].pay # p
             Final(p) == status'[p] = status[p] /\ completions'[p] = completions[p]
             StaysQuiet(p) == p \in settled' /\ Quiet(p)'
  <1>1. IInv /\ [Next]_vars =>
          [\A p \in Payments :
             SettledAndQuiet(p) =>
               /\ SettledAndQuiet(p)'
               /\ status'[p] = status[p] /\ completions'[p] = completions[p]]_vars
    <2> SUFFICES ASSUME IInv, [Next]_vars, NEW p \in settled, Quiet(p)
                 PROVE  StaysQuiet(p) /\ Final(p)
      BY DEF SettledAndQuiet
    <2>1. /\ p \in Payments /\ p \notin pending /\ p \in 1..created
          /\ status \in [Payments -> Statuses] /\ completions \in [Payments -> Nat]
          /\ check \in [Checkers -> Check] /\ status[p] # "pending"
      BY DEF IInv, TypeOK, MapsPartitionPayments
    <2>2. ASSUME NEW c \in Checkers, check[c].pc = "answered", NEW outcome, NEW expired,
                 expired \subseteq pending, Apply(check[c].pay, outcome, expired)
          PROVE  p \in settled' /\ Final(p)
      BY <2>1, <2>2 DEF Apply
    <2>3. ASSUME check' = check PROVE Quiet(p)'
      BY <2>3
    <2>4. ASSUME NEW c \in Checkers,
                 \/ check' = [check EXCEPT ![c] = Idle]
                 \/ \E q \in Payments : q # p /\ check' = [check EXCEPT ![c] = Asking(q)]
          PROVE  Quiet(p)'
      <3>1. Idle.pc = "idle" /\ \A q : Asking(q).pay = q
        BY DEF Idle, Asking
      <3> QED
        BY <2>1, <2>4, <3>1
    <2>5. ASSUME NEW c \in Checkers, NEW from, Visit(c, from) PROVE Quiet(p)'
      <3>1. \A q \in Stops(from) : q \in Payments /\ q # p
        BY <2>1 DEF Stops, IInv, TypeOK
      <3> QED
        BY <2>4, <2>5, <3>1 DEF Visit
    <2>6. CASE Customer
      BY <2>1, <2>3, <2>6 DEF Customer, Create, Deposit, Cancel, IInv, TypeOK, book, calls,
         history
    <2>7. CASE Checking
      <3>1. \A from : Passed(from) \subseteq pending
        BY DEF Passed
      <3>2. ASSUME NEW c \in Checkers, Answer(c) PROVE StaysQuiet(p) /\ Final(p)
        <4>1. PICK seen \in {balance[check[c].pay], Unknown} :
                check' = [check EXCEPT ![c].pc = "answered", ![c].seen = seen]
          BY <3>2 DEF Answer
        <4>2. check[c].pc # "idle" /\ check[c].pay # p
          BY <3>2 DEF Answer
        <4>3. \A d \in Checkers : check'[d].pay = check[d].pay /\ (d # c => check'[d] = check[d])
          BY <2>1, <4>1 DEF Check
        <4> QED
          BY <3>2, <4>2, <4>3 DEF Answer, book, history
      <3>3. ASSUME NEW c \in Pollers, NEW q \in Payments, Poll(c, q)
            PROVE  StaysQuiet(p) /\ Final(p)
        <4>1. q # p /\ c \in Checkers
          BY <2>1, <3>3 DEF Poll, Checkers
        <4>2. Quiet(p)'
          BY <2>4, <3>3, <4>1 DEF Poll
        <4> QED
          BY <3>3, <4>2 DEF Poll, book, history
      <3>4. ASSUME NEW c \in Pollers, PollResume(c) PROVE StaysQuiet(p) /\ Final(p)
        <4>1. /\ check[c].pc = "answered" /\ c \in Checkers
              /\ Apply(check[c].pay, Outcome(check[c].pay, check[c].seen), {})
              /\ check' = [check EXCEPT ![c] = Idle]
          BY <3>4 DEF PollResume, Checkers
        <4>2. Quiet(p)'
          BY <2>4, <4>1
        <4> HIDE DEF Final
        <4> QED
          BY <2>2, <4>1, <4>2
      <3>5. ASSUME NEW c \in Ticks, TickResume(c) PROVE StaysQuiet(p) /\ Final(p)
        <4>1. /\ check[c].pc = "answered" /\ c \in Checkers
              /\ Apply(check[c].pay, Outcome(check[c].pay, check[c].seen), Passed(check[c].pay))
              /\ Visit(c, check[c].pay)
          BY <3>5 DEF TickResume, Checkers
        <4>2. Quiet(p)'
          BY <2>5, <4>1
        <4> HIDE DEF Final
        <4> QED
          BY <2>2, <3>1, <4>1, <4>2
      <3>6. ASSUME NEW c \in Ticks, TickStart(c) PROVE StaysQuiet(p) /\ Final(p)
        <4>1. c \in Checkers /\ Visit(c, 0)
          BY <3>6 DEF TickStart, Checkers
        <4>2. Quiet(p)'
          BY <2>5, <4>1
        <4>3. p \in settled' /\ Final(p)
          BY <2>1, <3>1, <3>6 DEF TickStart, history
        <4> QED
          BY <4>2, <4>3
      <3> QED
        BY <2>7, <3>2, <3>3, <3>4, <3>5, <3>6 DEF Checking
    <2>8. CASE Forwarding
      BY <2>3, <2>8 DEF Forwarding, ForwardStart, ForwardRead, ForwardSend, ForwardThrow,
         Land, ForwardConfirm, book, history
    <2>9. CASE (\E q \in Payments : BecomeDue(q)) \/ UNCHANGED vars
      BY <2>3, <2>9 DEF BecomeDue, vars, book, calls, history
    <2> QED
      BY <2>6, <2>7, <2>8, <2>9 DEF Next
  <1> QED
    BY <1>1, Invariance, PTL DEF Spec, SettledAndQuietIsFinal

\* The merchant gets money only from payments that were completed, also when
\* a late answer changes the status of a payment that is being forwarded.
THEOREM OnlyCompletedGetForwarded == Spec => []OnlyCompletedForwarded
  <1>1. IInv => OnlyCompletedForwarded
    BY DEF IInv
  <1> QED
    BY <1>1, Invariance, PTL

\* fundsForwarded is emitted only for payments the merchant got something
\* from, although the result of the transaction is not looked at.
THEOREM NothingReportedInVain == Spec => []ReportedWasMoved
  <1>1. IInv => ReportedWasMoved
    BY DEF IInv
  <1> QED
    BY <1>1, Invariance, PTL

\* A payment that has a status was offered, and is in one of the Maps.
LEMMA OfferedIfKnown ==
  ASSUME IInv, NEW p \in Payments, status[p] # "none"
  PROVE  p \in pending \cup settled
  <1>1. created \in Nat /\ p \in Nat /\ p >= 1
    BY DEF IInv, TypeOK, Payments
  <1>2. p \in 1..created
    BY <1>1 DEF IInv, NothingBeforeCreation
  <1> QED
    BY <1>2 DEF IInv, MapsPartitionPayments

\* Nothing happens in PaymentBook when none of what it is about changes.
LEMMA BookStutters ==
  ASSUME UNCHANGED <<price, pending, settled, completions, due, deposited, moved>>
  PROVE  UNCHANGED Book!vars
  BY DEF Book!vars, Enough, Asked

\* Closing payments that are overdue or completed, and completing closed ones.
LEMMA BookSettles ==
  ASSUME NEW closing, NEW completing,
         closing \subseteq pending, completing \subseteq closing \cup settled,
         completing \subseteq Payments, closing \subseteq completing \cup due,
         \A p \in completing : deposited[p] >= Enough(p),
         settled' = settled \cup closing, pending' = pending \ closing,
         \A p \in Payments : completions'[p] > 0 <=> completions[p] > 0 \/ p \in completing,
         UNCHANGED <<price, due, deposited, moved>>
  PROVE  Book!Next
  <1> DEFINE enough == [p \in Payments |-> Enough(p)]
             completed == {p \in Payments : completions[p] > 0}
  <1>1. enough' = enough
    BY DEF Enough, Asked
  <1>2. completed' = completed \cup completing
    OBVIOUS
  <1>3. \A p \in completing : deposited[p] >= enough[p]
    OBVIOUS
  <1>4. Book!Settle(closing, completing)
    BY <1>1, <1>2, <1>3 DEF Book!Settle
  <1>5. closing \in SUBSET pending /\ completing \in SUBSET (closing \cup settled)
    OBVIOUS
  <1> QED
    BY <1>4, <1>5 DEF Book!Next

\* The gateway keeps to PaymentBook: it closes a payment only when it is
\* cancelled, overdue or completed, completes only what enough was sent for and
\* pays out only what was completed, and every other step changes none of these.
THEOREM ImplementsPaymentBook == Spec => BookSpec
  <1> USE AmountsAssumption
  <1>1. Init => Book!Init
    <2> SUFFICES ASSUME Init PROVE Book!Init
      OBVIOUS
    <2>1. TypeOK
      BY TypeOKInit
    <2>2. [p \in Payments |-> Enough(p)] \in [Payments -> Int]
      BY <2>1, EnoughIsInt
    <2>3. {p \in Payments : completions[p] > 0} = {}
      BY DEF Init
    <2> QED
      BY <2>2, <2>3 DEF Init, Book!Init
  <1>2. IInv /\ IInv' /\ [Next]_vars => [Book!Next]_(Book!vars)
    <2> SUFFICES ASSUME IInv, IInv', [Next]_vars
                 PROVE  Book!Next \/ UNCHANGED Book!vars
      OBVIOUS
    <2> USE DEF IInv
    <2>1. ASSUME NEW p \in Payments, NEW currency \in Currencies, NEW amount \in Amounts,
                 Create(p, currency, amount)
          PROVE  Book!Next
      <3> DEFINE enough == [q \in Payments |-> Enough(q)]
      <3>1. /\ p = created + 1 /\ p \notin pending \cup settled
            /\ pending' = pending \cup {p}
            /\ UNCHANGED <<settled, completions, due, deposited, moved>>
            /\ price' = [price EXCEPT ![p] = [currency |-> currency, amount |-> amount]]
        BY <2>1 DEF Create, MapsPartitionPayments, TypeOK, history, chain
      <3>2. \A q \in Payments : q # p => Enough(q)' = Enough(q)
        BY <3>1, EnoughStays DEF TypeOK
      <3>3. enough'[p] \in Int
        <4>1. price'[p].amount \in Int /\ UNIT \in Int /\ UNIT > 0
          BY DEF TypeOK
        <4>2. (price'[p].amount + UNIT - 1) \div UNIT \in Int
          BY <4>1
        <4> QED
          BY <4>1, <4>2 DEF Enough, Asked
      <3>4. enough' = [enough EXCEPT ![p] = enough'[p]]
        BY <3>2
      <3>5. Book!Offer(p)
        BY <3>1, <3>3, <3>4 DEF Book!Offer
      <3> QED
        BY <3>5 DEF Book!Next
    <2>2. ASSUME NEW p \in Payments, NEW n \in Deposits, Deposit(p, n)
          PROVE  Book!Next \/ UNCHANGED Book!vars
      <3>1. /\ UNCHANGED <<price, pending, settled, completions, due, moved>>
            /\ deposited' = [deposited EXCEPT ![p] = @ + n]
        BY <2>2 DEF Deposit, book, history
      <3>2. p \in pending \cup settled
        BY <2>2, OfferedIfKnown DEF Deposit
      <3>3. CASE n = 0
        <4>1. deposited' = deposited
          BY <3>1, <3>3 DEF TypeOK
        <4> QED
          BY <3>1, <4>1, BookStutters
      <3>4. CASE n > 0
        <4>1. /\ deposited'[p] \in Nat /\ deposited'[p] > deposited[p]
              /\ deposited' = [deposited EXCEPT ![p] = deposited'[p]]
          BY <3>1, <3>4 DEF TypeOK
        <4>2. UNCHANGED <<[q \in Payments |-> Enough(q)], {q \in Payments : completions[q] > 0}>>
          BY <3>1 DEF Enough, Asked
        <4>3. Book!Receive(p)
          BY <3>1, <3>2, <4>1, <4>2 DEF Book!Receive
        <4> QED
          BY <4>3 DEF Book!Next
      <3> QED
        BY <3>3, <3>4
    <2>3. ASSUME NEW p \in Payments, Cancel(p) PROVE Book!Next
      <3>1. /\ p \in pending
            /\ settled' = settled \cup {p} /\ pending' = pending \ {p}
            /\ UNCHANGED <<price, completions, due, deposited, moved>>
        BY <2>3 DEF Cancel, Cancellable, Settle, history, chain
      <3>2. UNCHANGED <<[q \in Payments |-> Enough(q)], {q \in Payments : completions[q] > 0}>>
        BY <3>1 DEF Enough, Asked
      <3>3. Book!Cancel(p)
        BY <3>1, <3>2 DEF Book!Cancel
      <3> QED
        BY <3>3 DEF Book!Next
    <2>4. ASSUME NEW c \in Checkers, check[c].pc = "answered",
                 UNCHANGED <<created, price, due, deposited, moved>>,
                 NEW expired, expired \subseteq pending \cap due, check[c].pay \notin expired,
                 Apply(check[c].pay, Outcome(check[c].pay, check[c].seen), expired)
          PROVE  Book!Next
      <3> DEFINE p == check[c].pay
                 completing == IF Outcome(p, check[c].seen) = "completed" THEN {p} ELSE {}
                 closing == expired \cup (completing \ settled)
      <3>1. p \in Payments /\ p \in pending \cup settled
        BY <2>4 DEF CallsAreAboutPayments, MapsPartitionPayments, TypeOK, Payments
      <3>2. settled' = settled \cup closing /\ pending' = pending \ closing
        <4>1. settled' = settled \cup expired \cup completing
              /\ pending' = pending \ (expired \cup completing)
          BY <2>4 DEF Apply
        <4>2. pending \cap settled = {}
          BY DEF MapsPartitionPayments
        <4> HIDE DEF completing
        <4> QED
          BY <4>1, <4>2
      <3>3. /\ closing \subseteq pending /\ completing \subseteq closing \cup settled
            /\ closing \subseteq completing \cup due
        BY <2>4, <3>1
      <3>4. \A q \in Payments : completions'[q] > 0 <=> completions[q] > 0 \/ q \in completing
        <4>1. completions \in [Payments -> Nat]
          BY DEF TypeOK
        <4>2. CASE completing = {p} /\ completions' = [completions EXCEPT ![p] = @ + 1]
          <5>1. \A q \in Payments : completions'[q] = completions[q] + IF q = p THEN 1 ELSE 0
            BY <3>1, <4>1, <4>2
          <5> HIDE DEF completing, p
          <5> QED
            BY <4>1, <4>2, <5>1
        <4>3. CASE completing = {} /\ completions' = [completions EXCEPT ![p] = @ + 0]
          <5>1. \A q \in Payments : completions'[q] = completions[q]
            BY <3>1, <4>1, <4>3
          <5> HIDE DEF completing, p
          <5> QED
            BY <4>1, <4>3, <5>1
        <4> QED
          BY <2>4, <4>2, <4>3 DEF Apply
      <3>5. \A q \in completing : q \in Payments /\ deposited[q] >= Enough(q)
        <4>1. Outcome(p, check[c].seen) = "completed" => check[c].seen >= Enough(p)
          BY DEF Outcome
        <4>2. /\ check[c].seen <= deposited[p] /\ check[c].seen \in Int
              /\ deposited[p] \in Int /\ Enough(p) \in Int
          BY <2>4, <3>1, EnoughIsInt DEF OnlyDepositsSeen, TypeOK, Check, Unknown
        <4> QED
          BY <3>1, <4>1, <4>2
      <3> HIDE DEF completing, closing
      <3> QED
        BY <2>4, <3>2, <3>3, <3>4, <3>5, BookSettles
    <2>5. ASSUME NEW c \in Pollers, PollResume(c) PROVE Book!Next
      <3> DEFINE expired == {}
      <3>1. expired \subseteq pending \cap due /\ check[c].pay \notin expired
        OBVIOUS
      <3>2. /\ c \in Checkers /\ check[c].pc = "answered"
            /\ UNCHANGED <<created, price, due, deposited, moved>>
            /\ Apply(check[c].pay, Outcome(check[c].pay, check[c].seen), expired)
        BY <2>5 DEF PollResume, Checkers, chain
      <3> HIDE DEF expired
      <3> QED
        BY <3>1, <3>2, <2>4
    <2>6. ASSUME NEW c \in Ticks, TickResume(c) PROVE Book!Next
      <3>1. /\ Passed(check[c].pay) \subseteq pending \cap due
            /\ check[c].pay \notin Passed(check[c].pay)
        <4>1. check[c].pay \in Int
          BY <2>6 DEF TickResume, CallsAreAboutPayments, Checkers, TypeOK
        <4> QED
          BY <4>1 DEF Passed
      <3> QED
        BY <2>6, <3>1, <2>4 DEF TickResume, Checkers, chain
    <2>7. ASSUME NEW c \in Ticks, TickStart(c) PROVE Book!Next
      <3> DEFINE completing == {}
      <3>1. /\ Passed(0) \subseteq pending /\ Passed(0) \subseteq due
            /\ settled' = settled \cup Passed(0) /\ pending' = pending \ Passed(0)
            /\ UNCHANGED <<price, completions, due, deposited, moved>>
        BY <2>7 DEF TickStart, Passed, history, chain
      <3>2. \A q : q \notin completing
        OBVIOUS
      <3> HIDE DEF completing
      <3> QED
        BY <3>1, <3>2, BookSettles
    <2>8. ASSUME NEW f \in Forwarders, Land(f) PROVE Book!Next \/ UNCHANGED Book!vars
      <3>1. /\ UNCHANGED <<price, pending, settled, completions, due, deposited>>
            /\ forward[f].pc # "idle" \/ tx[f] # "none"
        BY <2>8, LandIs DEF Land, book, history
      <3>2. PICK p \in Payments, got \in Nat :
              /\ p = forward[f].pay
              /\ moved' = moved \/ (got > 0 /\ moved' = [moved EXCEPT ![p] = @ + got])
        BY <2>8, LandIs
      <3>3. CASE moved' = moved
        BY <3>1, <3>3, BookStutters
      <3>4. CASE got > 0 /\ moved' = [moved EXCEPT ![p] = @ + got]
        <4>1. moved'[p] \in Nat /\ moved'[p] > moved[p]
              /\ moved' = [moved EXCEPT ![p] = moved'[p]]
          BY <3>4 DEF TypeOK
        <4>2. moved'[p] <= deposited[p]
          <5>1. balance'[p] + moved'[p] <= deposited'[p] /\ balance'[p] \in Nat
                /\ moved'[p] \in Nat /\ deposited'[p] \in Nat
            BY DEF OnlyDepositsSeen, TypeOK
          <5> QED
            BY <3>1, <5>1
        <4>3. UNCHANGED <<[q \in Payments |-> Enough(q)], {q \in Payments : completions[q] > 0}>>
          BY <3>1 DEF Enough, Asked
        <4>4. p \in {q \in Payments : completions[q] > 0}
          BY <3>1, <3>2 DEF ForwardsAreCompleted
        <4>5. Book!PayOut(p)
          BY <3>1, <4>1, <4>2, <4>3, <4>4 DEF Book!PayOut
        <4> QED
          BY <4>5 DEF Book!Next
      <3> QED
        BY <3>2, <3>3, <3>4
    <2>9. CASE UNCHANGED <<price, pending, settled, completions, due, deposited, moved>>
      BY <2>9, BookStutters
    <2>10. CASE Customer
      BY <2>10, <2>1, <2>2, <2>3 DEF Customer
    <2>11. CASE Checking
      BY <2>11, <2>5, <2>6, <2>7, <2>9 DEF Checking, Answer, Poll, book, history, chain
    <2>12. CASE Forwarding
      BY <2>12, <2>8, <2>9 DEF Forwarding, ForwardStart, ForwardRead, ForwardSend,
                               ForwardThrow, ForwardConfirm, book, history, chain
    <2>13. ASSUME NEW p \in Payments, BecomeDue(p) PROVE Book!Next
      <3>1. /\ status[p] # "none" /\ due' = due \cup {p}
            /\ UNCHANGED <<price, pending, settled, completions, deposited, moved>>
        BY <2>13 DEF BecomeDue, book, history
      <3>2. p \in pending \cup settled
        BY <3>1, OfferedIfKnown
      <3>3. UNCHANGED <<[q \in Payments |-> Enough(q)], {q \in Payments : completions[q] > 0}>>
        BY <3>1 DEF Enough, Asked
      <3>4. Book!TimeOut(p)
        BY <3>1, <3>2, <3>3 DEF Book!TimeOut
      <3> QED
        BY <3>4 DEF Book!Next
    <2>14. CASE UNCHANGED vars
      BY <2>14, <2>9 DEF vars, book, history, chain
    <2> QED
      BY <2>10, <2>11, <2>12, <2>13, <2>14 DEF Next
  <1> QED
    BY <1>1, <1>2, Invariance, PTL DEF Spec, BookSpec, Book!Spec
=============================================================================
