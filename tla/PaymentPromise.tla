--------------------------- MODULE PaymentPromise ---------------------------
(***************************************************************************)
(* What clankfeed promises about one Lightning invoice, seen from outside: *)
(* it is issued, somebody settles it, and a settled invoice is taken once, *)
(* either for one paid action (a note or a vote, committed together with   *)
(* the record that the invoice is used up) or for none at all.             *)
(*                                                                         *)
(* Nothing here says how: PaidActions implements it with request handlers, *)
(* sessions and SQLite's write lock.                                       *)
(***************************************************************************)
EXTENDS Naturals

CONSTANT Invoices

VARIABLES
  stage,    \* what has become of each invoice
  bought    \* how many paid actions were committed against it

promised == <<stage, bought>>

Stages == {"unissued", "open", "paid", "used"}

Init ==
  /\ stage = [h \in Invoices |-> "unissued"]
  /\ bought = [h \in Invoices |-> 0]

Move(h, from, to) ==
  /\ stage[h] = from
  /\ stage' = [stage EXCEPT ![h] = to]

Issue(h) == Move(h, "unissued", "open") /\ UNCHANGED bought

Settle(h) == Move(h, "open", "paid") /\ UNCHANGED bought

\* The invoice pays for exactly one action.
Spend(h) ==
  /\ Move(h, "paid", "used")
  /\ bought' = [bought EXCEPT ![h] = @ + 1]

\* The invoice is taken and nothing new is stored for it.
Burn(h) == Move(h, "paid", "used") /\ UNCHANGED bought

Next == \E h \in Invoices : Issue(h) \/ Settle(h) \/ Spend(h) \/ Burn(h)

Spec == Init /\ [][Next]_promised

=============================================================================
