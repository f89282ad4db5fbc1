----------------------------- MODULE MCPaidReplay ---------------------------
(***************************************************************************)
(* PaidActions with a count of the 200 answers given for each invoice.     *)
(***************************************************************************)
EXTENDS PaidActions

VARIABLE answers   \* history: how often a request was answered 200 for an invoice

CountedInit == Init /\ answers = [h \in Invoices |-> 0]

CountedNext ==
  \/ \E r \in Slots :
       \/ Answer200(r) /\ answers' = [answers EXCEPT ![req[r].hash] = @ + 1]
       \/ (Begin(r) \/ (req[r].at # "answer" /\ Step(r))) /\ UNCHANGED answers
  \/ Environment /\ UNCHANGED answers

CountedSpec == CountedInit /\ [][CountedNext]_<<vars, answers>>

\* app/l402.py:294 "record the payment_hash so the same L402 token cannot be reused for
\* multiple paid actions": one invoice is answered 200 for at most once.
AnsweredOnce == \A h \in Invoices : answers[h] <= 1

=============================================================================
