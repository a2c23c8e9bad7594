----------------------------- MODULE TokenSale ------------------------------
(***************************************************************************)
(* What a token sale promises, whatever program runs it: it is funded      *)
(* once, the seller opens and closes it at will, and while it is open a    *)
(* buyer may get unsold tokens for SOL, at a rate between the best and the *)
(* worst one and short of less than a token.  Tokens and SOL are credited  *)
(* to the buyer who paid.                                                  *)
(*                                                                         *)
(* What is sold is taken from a stock, which may grow by tokens that are   *)
(* not for sale.  The seller may withdraw it while the sale is closed:     *)
(* only after that may there be unsold tokens that nobody can get.         *)
(***************************************************************************)
EXTENDS Integers

CONSTANTS
  Users,
  PerSol,    \* lamports per SOL
  BestRate,  \* tokens per SOL nobody gets more than
  WorstRate  \* tokens per SOL nobody gets less than, but for a fraction of a token

VARIABLES
  funded,    \* have tokens been put up for sale?
  open,      \* may buyers buy?
  unsold,    \* tokens still for sale
  stock,     \* tokens that buyers can be given
  bought,    \* bought[u]: tokens buyer u got
  paid,      \* paid[u]: lamports buyer u paid
  raised     \* lamports all buyers paid

vars == <<funded, open, unsold, stock, bought, paid, raised>>

Init ==
  /\ ~funded /\ ~open
  /\ unsold = 0 /\ stock = 0 /\ raised = 0
  /\ bought = [u \in Users |-> 0]
  /\ paid = [u \in Users |-> 0]

Fund ==
  /\ ~funded /\ funded'
  /\ unsold' \in Nat /\ stock' = unsold'
  /\ UNCHANGED <<open, bought, paid, raised>>

OpenOrClose ==
  /\ funded
  /\ open' = ~open
  /\ UNCHANGED <<funded, unsold, stock, bought, paid, raised>>

\* The number of tokens is what unsold decreases by, the price what raised
\* increases by.
Sell(u) ==
  LET tokens == unsold - unsold'
      price  == raised' - raised
  IN  /\ open
      /\ unsold' \in 0..unsold
      /\ tokens <= stock /\ stock' = stock - tokens
      /\ raised' \in Nat /\ price >= 0
      /\ tokens * PerSol <= price * BestRate
      /\ (tokens + 1) * PerSol > price * WorstRate
      /\ bought' = [bought EXCEPT ![u] = @ + tokens]
      /\ paid' = [paid EXCEPT ![u] = @ + price]
      /\ UNCHANGED <<funded, open>>

Give ==
  /\ funded
  /\ stock' \in Nat /\ stock' >= stock
  /\ UNCHANGED <<funded, open, unsold, bought, paid, raised>>

Withdraw ==
  /\ funded /\ ~open
  /\ stock' = 0
  /\ UNCHANGED <<funded, open, unsold, bought, paid, raised>>

Next == Fund \/ OpenOrClose \/ Give \/ Withdraw \/ \E u \in Users : Sell(u)

Spec == Init /\ [][Next]_vars
=============================================================================
