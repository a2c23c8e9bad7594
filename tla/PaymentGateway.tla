--------------------------- MODULE PaymentGateway ---------------------------
(***************************************************************************)
(* The payment gateway, app/payment/payment-gateway.js: payments by their  *)
(* creation order, the two Maps that hold them, the monitor's ticks, the   *)
(* callers of getPaymentStatus, cancelPayment and forwardFunds, and the    *)
(* chain the addresses of the payments live on.                            *)
(*                                                                         *)
(* JavaScript runs from one await to the next without interruption, so an  *)
(* action is such a segment.  A call that awaits the RPC node is asked,    *)
(* then answered (the node reads the chain), then resumed; in between      *)
(* anything else may run.                                                  *)
(***************************************************************************)
EXTENDS Integers

CONSTANTS
  N,            \* payments that are created, at most
  Ticks,        \* runs of the monitor's callback that may overlap
  Pollers,      \* callers of getPaymentStatus
  Forwarders,   \* callers of forwardFunds
  Currencies,   \* subset of {"SOL", "NOVA"}
  Amounts,      \* payment.amount, in base units: all but 0 are accepted
  UNIT,         \* base units per coin, LAMPORTS_PER_SOL and 10^decimals
  RoundedUp,    \* amounts whose double amount * LAMPORTS_PER_SOL is too large
  Deposits,     \* what a customer may send at a time, in base units
  MaxDeposited, \* bound: what customers send to an address altogether
  RENT,         \* getMinimumBalanceForRentExemption(0)
  FEE           \* transaction fee, 5000 lamports

Payments == 1..N
Checkers == Ticks \cup Pollers

ASSUME CallersAssumption == Ticks \cap Pollers = {}

ASSUME AmountsAssumption ==
  /\ N \in Nat /\ MaxDeposited \in Nat /\ RENT \in Nat /\ FEE \in Nat
  /\ UNIT \in Nat \ {0} /\ Amounts \subseteq Int \ {0} /\ Deposits \subseteq Nat
  /\ Currencies \subseteq {"SOL", "NOVA"}

VARIABLES
  created,      \* how many payments exist
  price,        \* price[p]: currency and amount of payment p
  status,       \* payment.status
  pending,      \* keys of pendingPayments
  settled,      \* keys of completedPayments
  due,          \* payments with Date.now() > payment.expiresAt
  check,        \* check[c]: c's call of _checkPaymentReceived
  forward,      \* forward[f]: f's call of forwardFunds
  tx,           \* tx[f]: the transaction of forward[f], on its way or landed
  forwarded,    \* payments with payment.forwarded set
  balance,      \* balance[p]: what p's payment address holds
  deposited,    \* history: what customers sent to p's address
  moved,        \* history: what the merchant got from p's address
  completions,  \* history: how often paymentCompleted was emitted for p
  reports       \* history: how often fundsForwarded was emitted for p

book == <<created, price, status, pending, settled, forwarded>>
calls == <<check, forward, tx>>
chain == <<due, balance, deposited, moved>>
history == <<completions, reports>>
vars == <<book, calls, chain, history>>

Statuses == {"none", "pending", "partial", "completed", "cancelled", "expired"}

Unknown == -1   \* the request to the node failed

\* The await a call is at, the payment it is about, the balance it has read.
Check == [pc : {"idle", "asked", "answered"}, pay : 0..N, seen : Nat \cup {Unknown}]
Forward == [pc : {"idle", "asked", "read", "sent"}, pay : 0..N, seen : Nat]

Idle == [pc |-> "idle", pay |-> 0, seen |-> 0]

----------------------------------------------------------------------------
(* Prices, in base units.                                                  *)

\* What createPayment's URI asks the customer for.
Asked(p) == price[p].amount

\* The least balance that completes a payment.  For SOL it is compared with the
\* double amount * LAMPORTS_PER_SOL; for NOVA the balance, in base units, is
\* compared with the amount in coins, so that Enough is 1 / UNIT of what is asked.
Enough(p) ==
  IF price[p].currency = "NOVA" THEN (Asked(p) + UNIT - 1) \div UNIT
  ELSE IF Asked(p) \in RoundedUp THEN Asked(p) + 1 ELSE Asked(p)

Create(p, currency, amount) ==
  /\ p = created + 1
  /\ created' = p
  /\ price' = [price EXCEPT ![p] = [currency |-> currency, amount |-> amount]]
  /\ status' = [status EXCEPT ![p] = "pending"]
  /\ pending' = pending \cup {p}
  /\ UNCHANGED <<settled, forwarded, calls, chain, history>>

\* Mutant: the payments are not removed from pendingPayments.
SettleKeeps(gone) == settled' = settled \cup gone /\ UNCHANGED pending

\* Payments move from pendingPayments to completedPayments.
Settle(gone) == settled' = settled \cup gone /\ pending' = pending \ gone

\* Mutant: a payment that is already completed is cancelled, too.
CancellableAlways(p) == status[p] # "none"

Cancellable(p) == p \in pending

Cancel(p) ==
  /\ Cancellable(p)
  /\ status' = [status EXCEPT ![p] = "cancelled"]
  /\ Settle({p})
  /\ UNCHANGED <<created, price, forwarded, calls, chain, history>>

----------------------------------------------------------------------------
(* _checkPaymentReceived                                                   *)

Asking(p) == [pc |-> "asked", pay |-> p, seen |-> 0]

\* Mutant: whatever has arrived completes the payment.
OutcomeAnyDeposit(p, seen) ==
  IF seen = Unknown THEN "none" ELSE IF seen > 0 THEN "completed" ELSE "none"

\* The status an answer gives its payment; "none" when it changes nothing.
Outcome(p, seen) ==
  IF seen = Unknown THEN "none"
  ELSE IF seen >= Enough(p) THEN "completed"
  ELSE IF price[p].currency = "SOL" /\ seen > 0 THEN "partial"
  ELSE "none"

\* The answer is applied to the payment whatever became of it meanwhile.
Apply(p, outcome, expired) ==
  /\ status' = [q \in Payments |-> IF q \in expired THEN "expired"
                                   ELSE IF q = p /\ outcome # "none" THEN outcome
                                   ELSE status[q]]
  /\ Settle(expired \cup (IF outcome = "completed" THEN {p} ELSE {}))
  /\ completions' = [completions EXCEPT ![p] = @ + IF outcome = "completed" THEN 1 ELSE 0]

\* The node answers with the balance it sees, or the request fails.
Answer(c) ==
  /\ check[c].pc = "asked"
  /\ \E seen \in {balance[check[c].pay], Unknown} :
       check' = [check EXCEPT ![c].pc = "answered", ![c].seen = seen]
  /\ UNCHANGED <<book, forward, tx, chain, history>>

----------------------------------------------------------------------------
(* getPaymentStatus checks a payment only while its status is "pending".   *)

\* Mutant: a payment is checked whatever its status.
PollableAlways(p) == status[p] # "none"

Pollable(p) == status[p] = "pending"

Poll(c, p) ==
  /\ check[c].pc = "idle" /\ Pollable(p)
  /\ check' = [check EXCEPT ![c] = Asking(p)]
  /\ UNCHANGED <<book, forward, tx, chain, history>>

PollResume(c) ==
  LET p == check[c].pay
  IN  /\ check[c].pc = "answered"
      /\ Apply(p, Outcome(p, check[c].seen), {})
      /\ check' = [check EXCEPT ![c] = Idle]
      /\ UNCHANGED <<created, price, forwarded, forward, tx, chain, reports>>

----------------------------------------------------------------------------
(* The monitor visits pendingPayments in creation order.  It expires those *)
(* that are due on its way, and awaits the check of the first that is not. *)

Stops(from) == {q \in pending : q > from /\ q \notin due}

\* Mutant: payments that are due are skipped.
PassedNone(from) == {}

Passed(from) ==
  {q \in pending : q > from /\ q \in due /\ \A s \in Stops(from) : q < s}

\* c goes on to the first payment that is not due, or is done.
Visit(c, from) ==
  \/ Stops(from) = {} /\ check' = [check EXCEPT ![c] = Idle]
  \/ \E p \in Stops(from) :
       /\ \A q \in Stops(from) : p <= q
       /\ check' = [check EXCEPT ![c] = Asking(p)]

TickStart(c) ==
  /\ check[c].pc = "idle"
  /\ pending # {}
  /\ Visit(c, 0)
  /\ status' = [q \in Payments |-> IF q \in Passed(0) THEN "expired" ELSE status[q]]
  /\ Settle(Passed(0))
  /\ UNCHANGED <<created, price, forwarded, forward, tx, chain, history>>

TickResume(c) ==
  LET p == check[c].pay
  IN  /\ check[c].pc = "answered"
      /\ Apply(p, Outcome(p, check[c].seen), Passed(p))
      /\ Visit(c, p)
      /\ UNCHANGED <<created, price, forwarded, forward, tx, chain, reports>>

----------------------------------------------------------------------------
(* The chain.  A payment address must hold 0 or at least RENT after each   *)
(* transfer of SOL; a token account has no such limit.                     *)

RentExempt(amount) == amount = 0 \/ amount >= RENT

Deposit(p, n) ==
  /\ status[p] # "none"
  /\ deposited[p] + n <= MaxDeposited
  /\ price[p].currency = "SOL" => RentExempt(balance[p] + n)
  /\ balance' = [balance EXCEPT ![p] = @ + n]
  /\ deposited' = [deposited EXCEPT ![p] = @ + n]
  /\ UNCHANGED <<book, calls, due, moved, history>>

BecomeDue(p) ==
  /\ status[p] # "none" /\ p \notin due
  /\ due' = due \cup {p}
  /\ UNCHANGED <<book, calls, balance, deposited, moved, history>>

----------------------------------------------------------------------------
(* forwardFunds, for SOL; for NOVA it throws before the first await.       *)

CanPay(p, amount) == balance[p] >= amount /\ RentExempt(balance[p] - amount)

\* Mutant: a payment may be forwarded in whatever status.
ForwardableAny(p) == p \in settled /\ p \notin forwarded /\ price[p].currency = "SOL"

Forwardable(p) ==
  /\ p \in settled /\ status[p] = "completed"
  /\ p \notin forwarded /\ price[p].currency = "SOL"

ForwardStart(f, p) ==
  /\ forward[f].pc = "idle" /\ tx[f] = "none"
  /\ Forwardable(p)
  /\ forward' = [forward EXCEPT ![f] = Asking(p)]
  /\ UNCHANGED <<book, check, tx, chain, history>>

\* getBalance, then the rent, which does not change.
ForwardRead(f) ==
  /\ forward[f].pc = "asked"
  /\ forward' = [forward EXCEPT ![f].pc = "read", ![f].seen = balance[forward[f].pay]]
  /\ UNCHANGED <<book, check, tx, chain, history>>

TransferAmount(f) == forward[f].seen - RENT - FEE

\* Mutant: it is not checked that there is something to transfer.
SomethingLeftNot(f) == TRUE

SomethingLeft(f) == TransferAmount(f) > 0

\* sendTransaction simulates the transfer before it submits it.
ForwardSend(f) ==
  /\ forward[f].pc = "read"
  /\ SomethingLeft(f)
  /\ CanPay(forward[f].pay, TransferAmount(f) + FEE)
  /\ forward' = [forward EXCEPT ![f].pc = "sent"]
  /\ tx' = [tx EXCEPT ![f] = "flying"]
  /\ UNCHANGED <<book, check, chain, history>>

\* A thrown error: an RPC failure at any await, nothing to transfer, a
\* failed simulation, or no confirmation in time.  The transaction, if
\* there is one, is not stopped.
ForwardThrow(f) ==
  /\ forward[f].pc # "idle"
  /\ forward' = [forward EXCEPT ![f].pc = "idle"]
  /\ tx' = [tx EXCEPT ![f] = IF @ = "flying" THEN @ ELSE "none"]
  /\ UNCHANGED <<book, check, chain, history>>

\* The transaction is executed; it fails at the fee's cost when the account
\* no longer holds the amount; or it is dropped.
Land(f) ==
  LET p == forward[f].pay
      arrives(result) == tx' = [tx EXCEPT ![f] =
                                  IF forward[f].pc = "sent" THEN result ELSE "none"]
  IN  /\ tx[f] = "flying"
      /\ \/ /\ CanPay(p, TransferAmount(f) + FEE)
            /\ balance' = [balance EXCEPT ![p] = @ - TransferAmount(f) - FEE]
            /\ moved' = [moved EXCEPT ![p] = @ + TransferAmount(f)]
            /\ arrives("done")
         \/ /\ ~CanPay(p, TransferAmount(f) + FEE) /\ CanPay(p, FEE)
            /\ balance' = [balance EXCEPT ![p] = @ - FEE]
            /\ arrives("failed")
            /\ UNCHANGED moved
         \/ /\ arrives("none")
            /\ UNCHANGED <<balance, moved>>
      /\ UNCHANGED <<book, check, forward, due, deposited, history>>

\* Mutant: the transaction is reported without waiting for it.
ConfirmedEarly(f) == TRUE

\* confirmTransaction returns for a failed transaction too; its result is
\* not looked at.
Confirmed(f) == tx[f] \in {"done", "failed"}

ForwardConfirm(f) ==
  LET p == forward[f].pay
  IN  /\ forward[f].pc = "sent" /\ Confirmed(f)
      /\ forwarded' = forwarded \cup {p}
      /\ reports' = [reports EXCEPT ![p] = @ + 1]
      /\ forward' = [forward EXCEPT ![f] = Idle]
      /\ tx' = [tx EXCEPT ![f] = "none"]
      /\ UNCHANGED <<created, price, status, pending, settled, check, chain,
                     completions>>

----------------------------------------------------------------------------
Init ==
  /\ created = 0
  /\ price = [p \in Payments |-> [currency |-> "SOL", amount |-> 0]]
  /\ status = [p \in Payments |-> "none"]
  /\ pending = {} /\ settled = {} /\ due = {}
  /\ check = [c \in Checkers |-> Idle]
  /\ forward = [f \in Forwarders |-> Idle]
  /\ tx = [f \in Forwarders |-> "none"]
  /\ forwarded = {}
  /\ balance = [p \in Payments |-> 0]
  /\ deposited = [p \in Payments |-> 0]
  /\ moved = [p \in Payments |-> 0]
  /\ completions = [p \in Payments |-> 0]
  /\ reports = [p \in Payments |-> 0]

Customer ==
  \E p \in Payments :
    \/ \E currency \in Currencies, amount \in Amounts : Create(p, currency, amount)
    \/ \E n \in Deposits : Deposit(p, n)
    \/ Cancel(p)

Checking ==
  \/ \E c \in Checkers : Answer(c)
  \/ \E c \in Pollers : PollResume(c) \/ \E p \in Payments : Poll(c, p)
  \/ \E c \in Ticks : TickStart(c) \/ TickResume(c)

Forwarding ==
  \E f \in Forwarders :
    \/ \E p \in Payments : ForwardStart(f, p)
    \/ ForwardRead(f) \/ ForwardSend(f) \/ ForwardThrow(f) \/ ForwardConfirm(f)
    \/ Land(f)

Next == Customer \/ (\E p \in Payments : BecomeDue(p)) \/ Checking \/ Forwarding

Spec == Init /\ [][Next]_vars

\* setInterval keeps firing and time passes; every request to the node ends,
\* with an answer or with an error, and then its promise is settled.
Fairness ==
  /\ \A p \in 1..N : WF_vars(BecomeDue(p))
  /\ \A c \in Ticks : WF_vars(TickStart(c)) /\ WF_vars(Answer(c)) /\ WF_vars(TickResume(c))

FairSpec == Spec /\ Fairness

----------------------------------------------------------------------------
(* Properties                                                              *)

\* Every variable holds values of its type.
TypeOK ==
  /\ created \in 0..N
  /\ price \in [Payments -> [currency : {"SOL", "NOVA"}, amount : Int]]
  /\ status \in [Payments -> Statuses]
  /\ pending \subseteq Payments /\ settled \subseteq Payments /\ due \subseteq Payments
  /\ check \in [Checkers -> Check] /\ forward \in [Forwarders -> Forward]
  /\ tx \in [Forwarders -> {"none", "flying", "done", "failed"}]
  /\ forwarded \subseteq Payments
  /\ balance \in [Payments -> Nat] /\ deposited \in [Payments -> Nat]
  /\ moved \in [Payments -> Nat]
  /\ completions \in [Payments -> Nat] /\ reports \in [Payments -> Nat]

\* Each payment is in exactly one of the two Maps, and its status fits the
\* Map, however cancellations, expiries and late answers interleave.
MapsPartitionPayments ==
  /\ pending \cup settled = 1..created /\ pending \cap settled = {}
  /\ \A p \in pending : status[p] \in {"pending", "partial"}
  /\ \A p \in settled : status[p] # "pending"

\* A payment in SOL that the gateway calls completed was sent what its URI asks
\* for, also when the answer is old and the money has been forwarded since.  Of
\* NOVA this is false: see NovaPaidInFull.
CompletedWasPaid ==
  \A p \in Payments :
    price[p].currency = "SOL" /\ completions[p] > 0 => deposited[p] >= Asked(p)

\* The merchant gets money only from payments that were completed.
OnlyCompletedForwarded ==
  \A p \in Payments : moved[p] > 0 => completions[p] > 0 /\ p \in settled

\* fundsForwarded is never emitted for nothing: a transaction that passed the
\* simulation fails on chain only when another one has emptied the address.
ReportedWasMoved == \A p \in Payments : reports[p] > 0 => moved[p] > 0

SettledAndQuiet(p) ==
  p \in settled /\ \A c \in Checkers : check[c].pc = "idle" \/ check[c].pay # p

\* Once a payment has left pendingPayments and no check of it is in flight, that
\* remains so, whoever polls or ticks: no check of it starts ever again, its
\* status is final and nothing more is emitted for it.
SettledAndQuietIsFinal ==
  [][\A p \in Payments :
       SettledAndQuiet(p) =>
         /\ SettledAndQuiet(p)'
         /\ status'[p] = status[p] /\ completions'[p] = completions[p]]_vars

\* A payment leaves pendingPayments once and never comes back.
SettledForGood == [][settled \subseteq settled' /\ settled \cap pending' = {}]_vars

\* Every payment eventually leaves pendingPayments, even when it is never
\* paid and other payments before it keep the monitor waiting.
EventuallySettled == \A p \in 1..N : (p \in pending) ~> (p \in settled)

----------------------------------------------------------------------------
(* What makes the invariants above inductive                               *)

CallsAreAboutPayments ==
  /\ \A c \in Checkers : check[c].pc # "idle" => check[c].pay \in 1..created
  /\ \A f \in Forwarders :
       forward[f].pc # "idle" \/ tx[f] # "none" =>
         forward[f].pay \in 1..created /\ price[forward[f].pay].currency = "SOL"

SomethingIsSent ==
  \A f \in Forwarders :
    /\ tx[f] = "flying" => TransferAmount(f) > 0
    /\ forward[f].pc \in {"asked", "read"} => tx[f] = "none"

\* Whatever an address holds or the merchant got from it, and whatever a check
\* has seen, was sent there.
OnlyDepositsSeen ==
  /\ \A p \in Payments : balance[p] + moved[p] <= deposited[p]
  /\ \A c \in Checkers :
       check[c].pc = "answered" => check[c].seen <= deposited[check[c].pay]

\* What completed a payment was compared with Enough, in either currency.
CompletedHadEnough ==
  \A p \in Payments : completions[p] > 0 => deposited[p] >= Enough(p)

\* forwardFunds is under way, or its transaction on its way, only for payments
\* that were completed.
ForwardsAreCompleted ==
  /\ \A p \in Payments : status[p] = "completed" => completions[p] > 0
  /\ \A f \in Forwarders :
       forward[f].pc # "idle" \/ tx[f] # "none" =>
         completions[forward[f].pay] > 0 /\ forward[f].pay \in settled

\* As long as the merchant got nothing from an address, it still holds what
\* forwardFunds has read; a transaction has reached its end only later.
NothingTakenYet ==
  \A f \in Forwarders :
    /\ forward[f].pc \in {"read", "sent"} \/ tx[f] # "none" =>
         moved[forward[f].pay] > 0 \/ balance[forward[f].pay] >= forward[f].seen
    /\ tx[f] \in {"done", "failed"} => moved[forward[f].pay] > 0

NothingBeforeCreation ==
  \A p \in Payments : p > created => status[p] = "none" /\ completions[p] = 0

IInv ==
  /\ TypeOK /\ CallsAreAboutPayments /\ SomethingIsSent /\ OnlyDepositsSeen
  /\ NothingBeforeCreation /\ MapsPartitionPayments /\ CompletedHadEnough
  /\ ForwardsAreCompleted /\ OnlyCompletedForwarded
  /\ NothingTakenYet /\ ReportedWasMoved

\* The gateway does what PaymentBook promises to customers and merchant, where
\* what is enough to complete a payment in NOVA is a fraction of what is asked.
Book == INSTANCE PaymentBook WITH
          open      <- pending,
          closed    <- settled,
          completed <- {p \in Payments : completions[p] > 0},
          overdue   <- due,
          enough    <- [p \in Payments |-> Enough(p)],
          received  <- deposited,
          paidOut   <- moved

BookSpec == Book!Spec

----------------------------------------------------------------------------
(* What documents and comments of the gateway say and the code does not do *)

\* payment-gateway.js:229 "Forward received funds to merchant wallet":
\* forwardFunds accepts a payment that was completed.
CompletedStaysForwardable ==
  \A p \in Payments : completions[p] > 0 => p \in settled /\ status[p] = "completed"

\* payment-gateway.js:396-400 asks the customer for `amount` tokens: a payment
\* in NOVA is completed when they have been sent.
NovaPaidInFull ==
  \A p \in Payments :
    price[p].currency = "NOVA" /\ completions[p] > 0 => deposited[p] >= Asked(p)

\* payment-gateway.js:241 "Funds already forwarded": the funds of a payment
\* are reported as forwarded once.
ForwardedOnce == \A p \in Payments : reports[p] <= 1

=============================================================================
