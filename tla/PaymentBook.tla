---------------------------- MODULE PaymentBook -----------------------------
(***************************************************************************)
(* What a payment gateway promises: a payment is offered once and closed   *)
(* once, because it was cancelled, is overdue or has been completed; it is *)
(* called completed only when enough has been received for it; and only    *)
(* completed payments are paid out to the merchant, never more than what   *)
(* was received for them.                                                  *)
(*                                                                         *)
(* A payment that is closed because it was overdue or cancelled may still  *)
(* be completed, and one that is overdue may be closed although it was     *)
(* paid in time: this much the gateway keeps.  How much is enough is fixed *)
(* when a payment is offered; whether it is the price is not said here.    *)
(***************************************************************************)
EXTENDS Integers

CONSTANT Payments

VARIABLES
  open,       \* payments that are offered
  closed,     \* payments that were completed, cancelled or have expired
  completed,  \* payments that were called completed
  overdue,    \* payments whose time is up
  enough,     \* enough[p]: what must be received to complete p
  received,   \* received[p]: what customers paid for p
  paidOut     \* paidOut[p]: what the merchant got for p

vars == <<open, closed, completed, overdue, enough, received, paidOut>>

Init ==
  /\ open = {} /\ closed = {} /\ completed = {} /\ overdue = {}
  /\ enough \in [Payments -> Int]
  /\ received = [p \in Payments |-> 0]
  /\ paidOut = [p \in Payments |-> 0]

Offer(p) ==
  /\ p \notin open \cup closed
  /\ open' = open \cup {p}
  /\ enough'[p] \in Int /\ enough' = [enough EXCEPT ![p] = enough'[p]]
  /\ UNCHANGED <<closed, completed, overdue, received, paidOut>>

Receive(p) ==
  /\ p \in open \cup closed
  /\ received'[p] \in Nat /\ received'[p] > received[p]
  /\ received' = [received EXCEPT ![p] = received'[p]]
  /\ UNCHANGED <<open, closed, completed, overdue, enough, paidOut>>

TimeOut(p) ==
  /\ p \in open \cup closed
  /\ overdue' = overdue \cup {p}
  /\ UNCHANGED <<open, closed, completed, enough, received, paidOut>>

Cancel(p) ==
  /\ p \in open
  /\ open' = open \ {p}
  /\ closed' = closed \cup {p}
  /\ UNCHANGED <<completed, overdue, enough, received, paidOut>>

\* Some payments are closed, some of the closed ones are completed.
Settle(closing, completing) ==
  /\ closing \subseteq completing \cup overdue
  /\ \A p \in completing : received[p] >= enough[p]
  /\ open' = open \ closing
  /\ closed' = closed \cup closing
  /\ completed' = completed \cup completing
  /\ UNCHANGED <<overdue, enough, received, paidOut>>

PayOut(p) ==
  /\ p \in completed
  /\ paidOut'[p] \in Nat /\ paidOut'[p] > paidOut[p] /\ paidOut'[p] <= received[p]
  /\ paidOut' = [paidOut EXCEPT ![p] = paidOut'[p]]
  /\ UNCHANGED <<open, closed, completed, overdue, enough, received>>

Next ==
  \/ \E p \in Payments :
       Offer(p) \/ Receive(p) \/ TimeOut(p) \/ Cancel(p) \/ PayOut(p)
  \/ \E closing \in SUBSET open :
       \E completing \in SUBSET (closing \cup closed) : Settle(closing, completing)

Spec == Init /\ [][Next]_vars

=============================================================================
