-------------------------- MODULE PaidActionsProofs -------------------------
(***************************************************************************)
(* Theorems about PaidActions for any number of slots, notes, invoices and *)
(* tokens, any price and any set of routes.                                *)
(***************************************************************************)
EXTENDS PaidActions, TLAPS

-----------------------------------------------------------------------------
(* Type correctness *)

LEMMA FreeType == Free \in Requests
  BY DEF Free, Requests, Steps, NoRow, Rows

LEMMA TypeInit == Init => TypeOK
<1>. SUFFICES ASSUME Init PROVE TypeOK
  OBVIOUS
<1>1. invoice \in [Invoices -> [amount : Nat, settled : BOOLEAN]]
  BY DEF Init
<1>2. row \in [Notes -> Rows]
  BY PriceAssumption DEF Init, Rows, NoRow
<1>3. pending \in [Tokens -> PendingRows]
  BY DEF Init, PendingRows, NoPending
<1>4. req \in [Slots -> Requests]
  BY FreeType DEF Init
<1>5. funded \in [Invoices -> Seq(Effects)]
  BY DEF Init
<1>. QED
  BY <1>1, <1>2, <1>3, <1>4, <1>5 DEF Init, TypeOK

LEMMA OpenType ==
  ASSUME TypeOK, NEW r \in Slots, NEW q, q.route \in Routes => q \in Requests, Open(r, q)
  PROVE  req' \in [Slots -> Requests]
  BY DEF Open, TypeOK

LEMMA CloseType ==
  ASSUME TypeOK, NEW r \in Slots, Close(r)
  PROVE  /\ req' \in [Slots -> Requests]
         /\ writer' \in Slots \cup {None}
  BY FreeType DEF Close, TypeOK

LEMMA GotoType ==
  ASSUME TypeOK, NEW r \in Slots, NEW step \in Steps, Goto(r, step)
  PROVE  req' \in [Slots -> Requests]
<1>1. req[r] \in Requests
  BY DEF TypeOK
<1>2. [req[r] EXCEPT !.at = step] \in Requests
  BY <1>1 DEF Requests
<1>. QED
  BY <1>2 DEF Goto, TypeOK

LEMMA IssueType ==
  ASSUME TypeOK, NEW h \in Invoices, NEW sats \in Nat, Issue(h, sats)
  PROVE  invoice' \in [Invoices -> [amount : Nat, settled : BOOLEAN]]
  BY DEF Issue, TypeOK

LEMMA NoteTallyType ==
  ASSUME NEW tally \in Rows, NEW sats \in Nat
  PROVE  Lowered(tally, sats) \in Rows
<1>1. \A a \in Nat : FlooredMinus(a, sats) \in Nat
  BY DEF FlooredMinus
<1>2. tally.clank \in Nat /\ tally.ext \in Nat
  BY DEF Rows
<1>. QED
  BY <1>1, <1>2 DEF Lowered, Rows

LEMMA EffectType ==
  ASSUME TypeOK, NEW r \in Slots, NEW credit \in Nat, CommitWith(r, credit),
         req[r].hash \in Invoices, req[r].route \in RouteNames
  PROVE  /\ consumed' \subseteq Invoices
         /\ funded' \in [Invoices -> Seq(Effects)]
         /\ writer' \in Slots \cup {None}
<1>1. [route |-> req[r].route, credit |-> credit] \in Effects
  BY DEF Effects
<1>2. Append(funded[req[r].hash], [route |-> req[r].route, credit |-> credit]) \in Seq(Effects)
  BY <1>1 DEF TypeOK
<1>. QED
  BY <1>2 DEF CommitWith, TypeOK

LEMMA RetiredType ==
  ASSUME TypeOK, NEW t, NEW s \in {"live", "expired", "gone"},
         pending' = [pending EXCEPT ![t].state = s]
  PROVE  pending' \in [Tokens -> PendingRows]
  BY DEF TypeOK, PendingRows

-----------------------------------------------------------------------------
(* One lemma per group of actions *)

LEMMA BeginType ==
  ASSUME TypeOK, NEW r \in Slots, Begin(r)
  PROVE  TypeOK'
<1>a. Amounts \subseteq Nat /\ Price \in Nat
  BY PriceAssumption, AmountsAssumption
<1>b. \A t \in Tokens : pending[t] \in PendingRows
  BY DEF TypeOK
<1>c. \A t \in Tokens : /\ PriceOf(pending[t]) \in Nat
                        /\ pending[t].kind \in {"note", "vote"}
                        /\ pending[t].note \in Notes \cup {None}
  BY <1>a, <1>b DEF PriceOf, PendingRows
<1>d. \A n \in Notes : row[n] \in Rows
  BY DEF TypeOK
<1>1. ASSUME NEW n \in Notes, NEW h \in Invoices, NEW sats \in Amounts, BeginSubmit(r, n, h, sats)
      PROVE  TypeOK'
  <2>1. [Free EXCEPT !.at = "verify", !.route = "submit", !.note = n, !.hash = h,
                     !.sats = sats, !.credit = sats] \in Requests
    BY <1>a, <1>1, FreeType DEF Requests, Steps, RouteNames
  <2>. QED
    BY <2>1, <1>1, OpenType DEF BeginSubmit, TypeOK, database
<1>2. ASSUME NEW n \in Notes, NEW h \in Invoices, BeginPost(r, n, h)
      PROVE  TypeOK'
  <2>1. [Free EXCEPT !.at = "verify", !.route = "post", !.note = n, !.hash = h,
                     !.sats = Price] \in Requests
    BY <1>a, <1>2, FreeType DEF Requests, Steps, RouteNames
  <2>. QED
    BY <2>1, <1>2, OpenType DEF BeginPost, TypeOK, database
<1>3. ASSUME NEW t \in Tokens, NEW h \in Invoices, BeginPay(r, t, h)
      PROVE  TypeOK'
  <2>1. [Free EXCEPT !.at = "verify", !.route = "pay", !.kind = pending[t].kind,
                     !.note = pending[t].note, !.hash = h, !.token = t,
                     !.sats = PriceOf(pending[t])] \in Requests
    BY <1>c, <1>3, FreeType DEF Requests, Steps, RouteNames
  <2>. QED
    BY <2>1, <1>3, OpenType DEF BeginPay, TypeOK, database
<1>4. ASSUME NEW t \in Tokens, NEW h \in Invoices, BeginConfirm(r, t, h)
      PROVE  TypeOK'
  <2>1. [Free EXCEPT !.at = "verify", !.route = "confirm", !.kind = pending[t].kind,
                     !.note = pending[t].note, !.hash = h, !.token = t,
                     !.credit = PriceOf(pending[t])] \in Requests
    BY <1>c, <1>4, FreeType DEF Requests, Steps, RouteNames
  <2>. QED
    BY <2>1, <1>4, OpenType DEF BeginConfirm, TypeOK, database
<1>5. ASSUME NEW n \in Notes, NEW h \in Invoices, NEW sats \in Amounts, BeginVote(r, n, h, sats)
      PROVE  TypeOK'
  <2>1. [Free EXCEPT !.at = "verify", !.route = "vote", !.kind = "vote", !.note = n,
                     !.hash = h, !.sats = sats, !.seen = row[n]] \in Requests
    BY <1>a, <1>d, <1>5, FreeType DEF Requests, Steps, RouteNames
  <2>. QED
    BY <2>1, <1>5, OpenType DEF BeginVote, TypeOK, database
<1>6. ASSUME NEW t \in Tokens, NEW n \in Notes, NEW h \in Invoices, BeginConfirmVote(r, t, n, h)
      PROVE  TypeOK'
  <2>1. [Free EXCEPT !.at = "verify", !.route = "confirm_vote", !.kind = "vote",
                     !.note = n, !.hash = h, !.token = t,
                     !.sats = PriceOf(pending[t])] \in Requests
    BY <1>c, <1>6, FreeType DEF Requests, Steps, RouteNames
  <2>. QED
    BY <2>1, <1>6, OpenType DEF BeginConfirmVote, TypeOK, database
<1>7. ASSUME NEW t \in Tokens, BeginGetPay(r, t)
      PROVE  TypeOK'
  <2>1. [Free EXCEPT !.at = "price", !.route = "get_pay", !.token = t, !.sats = Price]
          \in Requests
    BY <1>a, <1>7, FreeType DEF Requests, Steps, RouteNames
  <2>. QED
    BY <2>1, <1>7, OpenType DEF BeginGetPay, TypeOK, database
<1>8. ASSUME NEW t \in Tokens, NEW kind \in {"note", "vote"}, NEW n \in Notes,
             NEW sats \in Amounts \cup {0}, BeginOffer(r, t, kind, n, sats)
      PROVE  TypeOK'
  <2>1. [Free EXCEPT !.at = "price", !.route = "offer", !.token = t, !.note = n,
                     !.kind = kind, !.sats = IF sats = 0 THEN Price ELSE sats] \in Requests
    BY <1>a, <1>8, FreeType DEF Requests, Steps, RouteNames
  <2>2. pending' \in [Tokens -> PendingRows]
    BY <1>a, <1>8 DEF BeginOffer, Insert, TypeOK, PendingRows
  <2>. QED
    BY <2>1, <2>2, <1>8, OpenType DEF BeginOffer, TypeOK
<1>. QED
  BY <1>1, <1>2, <1>3, <1>4, <1>5, <1>6, <1>7, <1>8 DEF Begin

LEMMA StepType ==
  ASSUME TypeOK, Carries, NEW r \in Slots, Step(r)
  PROVE  TypeOK'
<1>r. req[r] \in Requests
  BY DEF TypeOK
<1>s. Steps = {"idle", "verify", "consume", "store", "retire", "publish", "answer", "challenge",
               "price", "attach"}
  BY DEF Steps
<1>1. CASE Verify(r)
  BY <1>1, <1>s, GotoType DEF Verify, TypeOK, database
<1>2. CASE Refuse(r)
  BY <1>2, <1>s, GotoType, CloseType DEF Refuse, TypeOK, database
<1>3. CASE Consume(r)
  BY <1>3, <1>s, GotoType DEF Consume, TypeOK, database
<1>4. CASE Replay(r)
  BY <1>4, <1>s, GotoType, CloseType DEF Replay, TypeOK, database
<1>5. CASE Challenge(r)
  <2>1. req[r].sats \in Nat
    BY <1>r DEF Requests
  <2>. QED
    BY <1>5, <2>1, CloseType, IssueType DEF Challenge, TypeOK, database
<1>6. CASE StoreNew(r)
  <2>1. req[r].credit \in Nat
    BY <1>r DEF Requests
  <2>2. row' \in [Notes -> Rows]
    <3>1. [stored |-> TRUE, clank |-> req[r].credit, ext |-> 0] \in Rows /\ NoRow \in Rows
      BY <2>1 DEF Rows, NoRow
    <3>. QED
      BY <1>6, <3>1 DEF StoreNew, TypeOK
  <2>3. AfterStore(r) \in Steps
    BY <1>s DEF AfterStore
  <2>4. /\ consumed' \subseteq Invoices
        /\ funded' \in [Invoices -> Seq(Effects)]
        /\ writer' \in Slots \cup {None}
    BY <1>6, <2>1, EffectType DEF StoreNew, Carries
  <2>. QED
    BY <1>6, <2>2, <2>3, <2>4, GotoType DEF StoreNew, TypeOK
<1>7. CASE StoreDuplicate(r)
  BY <1>7, <1>s, GotoType DEF StoreDuplicate, AfterStore, TypeOK, database
<1>8. CASE StoreNoEvent(r)
  BY <1>8, CloseType DEF StoreNoEvent, TypeOK, database
<1>9. CASE CastVote(r)
  <2>1. row' \in [Notes -> Rows]
    <3>1. Voted(r) \in Rows
      BY <1>r, NoteTallyType DEF Requests, Voted
    <3>2. \A n \in Notes : Overwritten(row[n], req[r].seen, Voted(r)) \in Rows
      BY <3>1 DEF Overwritten, Rows, TypeOK
    <3>. QED
      BY <1>9, <3>2 DEF CastVote, TypeOK
  <2>2. /\ consumed' \subseteq Invoices
        /\ funded' \in [Invoices -> Seq(Effects)]
        /\ writer' \in Slots \cup {None}
    BY <1>9, EffectType DEF CastVote, Carries
  <2>. QED
    BY <1>9, <1>s, <2>1, <2>2, GotoType DEF CastVote, TypeOK
<1>10. CASE ConfirmVote(r)
  <2>1. row' \in [Notes -> Rows]
    <3>1. \A n \in Notes : Lowered(row[n], req[r].sats) \in Rows
      BY <1>r, NoteTallyType DEF Requests, TypeOK
    <3>. QED
      BY <1>10, <3>1 DEF ConfirmVote, TypeOK
  <2>2. /\ consumed' \subseteq Invoices
        /\ funded' \in [Invoices -> Seq(Effects)]
        /\ writer' \in Slots \cup {None}
    BY <1>10, EffectType DEF ConfirmVote, Carries
  <2>3. pending' \in [Tokens -> PendingRows]
    BY <1>10, RetiredType DEF ConfirmVote
  <2>. QED
    BY <1>10, <1>s, <2>1, <2>2, <2>3, GotoType DEF ConfirmVote, TypeOK
<1>11. CASE VoteTargetMissing(r)
  <2>1. pending' \in [Tokens -> PendingRows]
    BY <1>11, RetiredType DEF VoteTargetMissing
  <2>2. consumed' \subseteq Invoices
    BY <1>11 DEF VoteTargetMissing, Carries, TypeOK
  <2>. QED
    BY <1>11, <2>1, <2>2, CloseType DEF VoteTargetMissing, TypeOK
<1>12. CASE Retire(r)
  <2>1. pending' \in [Tokens -> PendingRows]
    BY <1>12, RetiredType DEF Retire
  <2>2. consumed' \subseteq Invoices
    BY <1>12 DEF Retire, Carries, TypeOK
  <2>. QED
    BY <1>12, <1>s, <2>1, <2>2, GotoType DEF Retire, TypeOK
<1>13. CASE Publish(r)
  BY <1>13, <1>s, GotoType DEF Publish, TypeOK, database
<1>14. CASE PublishFails(r)
  BY <1>14, CloseType DEF PublishFails, TypeOK, database
<1>15. CASE Answer200(r)
  BY <1>15, CloseType DEF Answer200, TypeOK, database
<1>16. CASE LockTimeout(r)
  BY <1>16, CloseType DEF LockTimeout, TypeOK, database
<1>17. CASE InvoiceCreated(r)
  <2>1. req[r].sats \in Nat
    BY <1>r DEF Requests
  <2>2. PICK h \in Invoices :
          /\ Issue(h, req[r].sats)
          /\ req' = [req EXCEPT ![r].at = "attach", ![r].hash = h]
    BY <1>17 DEF InvoiceCreated
  <2>3. [req[r] EXCEPT !.at = "attach", !.hash = h] \in Requests
    BY <1>r, <1>s DEF Requests
  <2>4. req' \in [Slots -> Requests]
    BY <2>2, <2>3 DEF TypeOK
  <2>. QED
    BY <1>17, <2>1, <2>2, <2>4, IssueType DEF InvoiceCreated, TypeOK, database
<1>18. CASE InvoiceFails(r)
  BY <1>18, CloseType DEF InvoiceFails, TypeOK, database
<1>19. CASE Attach(r)
  <2>1. req[r].hash \in Invoices \cup {None} /\ req[r].token \in Tokens
    BY <1>r, <1>19 DEF Requests, Attach, Carries
  <2>2. pending' \in [Tokens -> PendingRows]
    <3>1. pending[req[r].token] \in PendingRows
      BY <2>1 DEF TypeOK
    <3>2. [pending[req[r].token] EXCEPT !.hash = req[r].hash] \in PendingRows
      BY <2>1, <3>1 DEF PendingRows
    <3>3. CASE Present(req[r].token)
      <4>1. pending' = [pending EXCEPT ![req[r].token].hash = req[r].hash]
        BY <1>19, <3>3 DEF Attach
      <4>. QED
        BY <2>1, <3>2, <4>1 DEF TypeOK
    <3>4. CASE ~Present(req[r].token)
      BY <1>19, <3>4 DEF Attach, TypeOK
    <3>. QED
      BY <3>3, <3>4
  <2>3. told' \subseteq Tokens
    BY <1>19, <2>1 DEF Attach, TypeOK
  <2>. QED
    BY <1>19, <2>2, <2>3, CloseType DEF Attach, TypeOK
<1>20. CASE VoteRowGone(r)
  BY <1>20, CloseType DEF VoteRowGone, TypeOK, database
<1>. QED
  BY <1>1, <1>2, <1>3, <1>4, <1>5, <1>6, <1>7, <1>8, <1>9, <1>10, <1>11, <1>12, <1>13, <1>14,
     <1>15, <1>16, <1>17, <1>18, <1>19, <1>20 DEF Step

LEMMA EnvironmentType ==
  ASSUME TypeOK, Environment
  PROVE  TypeOK'
<1>a. Amounts \subseteq Nat
  BY AmountsAssumption
<1>1. ASSUME NEW h \in Invoices, Settle(h)
      PROVE  TypeOK'
  BY <1>1 DEF Settle, TypeOK, database
<1>2. ASSUME NEW h \in Invoices, NEW sats \in Amounts, Discover(h, sats)
      PROVE  TypeOK'
  BY <1>2, <1>a, IssueType DEF Discover, TypeOK, database
<1>3. ASSUME NEW t \in Tokens, Expire(t)
      PROVE  TypeOK'
  <2>1. pending' \in [Tokens -> PendingRows]
    BY <1>3, RetiredType DEF Expire
  <2>. QED
    BY <1>3, <2>1 DEF Expire, TypeOK
<1>4. ASSUME NEW t \in Tokens, RefuseUpvote(t)
      PROVE  TypeOK'
  <2>1. pending' \in [Tokens -> PendingRows]
    BY <1>4, RetiredType DEF RefuseUpvote
  <2>. QED
    BY <1>4, <2>1 DEF RefuseUpvote, TypeOK
<1>5. ASSUME NEW t \in Tokens, NEW n \in Notes, OfferOnSocket(t, n)
      PROVE  TypeOK'
  <2>1. pending' \in [Tokens -> PendingRows]
    BY <1>5 DEF OfferOnSocket, Insert, TypeOK, PendingRows
  <2>. QED
    BY <1>5, <2>1 DEF OfferOnSocket, TypeOK
<1>6. CASE Cleanup
  <2>1. \A t \in Tokens : [pending[t] EXCEPT !.state = "gone"] \in PendingRows
    BY DEF TypeOK, PendingRows
  <2>2. pending' \in [Tokens -> PendingRows]
    BY <1>6, <2>1 DEF Cleanup, TypeOK
  <2>. QED
    BY <1>6, <2>2 DEF Cleanup, TypeOK
<1>7. CASE Crash
  BY <1>7, FreeType DEF Crash, TypeOK, database
<1>. QED
  BY <1>1, <1>2, <1>3, <1>4, <1>5, <1>6, <1>7 DEF Environment

-----------------------------------------------------------------------------
(* The inductive invariant *)

IInv == TypeOK /\ Carries /\ LockInv /\ OneActionPerInvoice /\ SettledIsIssued

-----------------------------------------------------------------------------
(* How the building blocks of the actions change a request *)

LEMMA GotoFacts ==
  ASSUME TypeOK, NEW r \in Slots, NEW step, Goto(r, step)
  PROVE  /\ req'[r].at = step
         /\ req'[r].hash = req[r].hash
         /\ req'[r].route = req[r].route
         /\ req'[r].token = req[r].token
         /\ \A x \in Slots \ {r} : req'[x] = req[x]
  BY DEF Goto, TypeOK, Requests

LEMMA CloseFacts ==
  ASSUME TypeOK, NEW r \in Slots, Close(r)
  PROVE  /\ req'[r] = Free
         /\ \A x \in Slots \ {r} : req'[x] = req[x]
         /\ writer' # r
         /\ \A x \in Slots \ {r} : writer' = x <=> writer = x
  BY NoneAssumption DEF Close, TypeOK

LEMMA FreeFacts == Free.at = "idle" /\ Free.route = None /\ Free.hash = None
  BY DEF Free

\* A request that ends cannot break the invariant.
LEMMA CloseInv ==
  ASSUME IInv, TypeOK', NEW r \in Slots, Close(r), UNCHANGED <<invoice, consumed, funded>>
  PROVE  IInv'
<1>1. Carries'
  BY CloseFacts, FreeFacts DEF IInv, Carries
<1>2. LockInv'
  BY CloseFacts, FreeFacts DEF IInv, LockInv
<1>3. OneActionPerInvoice' /\ SettledIsIssued'
  BY DEF IInv, OneActionPerInvoice, SettledIsIssued
<1>. QED
  BY <1>1, <1>2, <1>3 DEF IInv

\* Nor can one that goes on without touching the lock, except into "consume" and "store".
LEMMA GotoInv ==
  ASSUME IInv, TypeOK', NEW r \in Slots, NEW step \in Steps \ {"idle", "price", "attach"},
         Goto(r, step), req[r].at \in Steps \ {"idle", "price", "attach", "challenge"},
         writer = r => step \in {"store", "retire", "publish", "answer"},
         step = "store" => writer = r,
         step = "consume" => invoice[req[r].hash].settled,
         UNCHANGED <<invoice, consumed, funded, writer>>
  PROVE  IInv'
<1>1. Carries'
  BY GotoFacts DEF IInv, Carries, Steps
<1>2. LockInv'
  BY GotoFacts DEF IInv, LockInv, Steps
<1>3. OneActionPerInvoice' /\ SettledIsIssued'
  BY DEF IInv, OneActionPerInvoice, SettledIsIssued
<1>. QED
  BY <1>1, <1>2, <1>3 DEF IInv

\* The commit of a paid action: its invoice was settled and not consumed, so nothing was
\* committed against it before.
LEMMA CommitInv ==
  ASSUME IInv, TypeOK', NEW r \in Slots, NEW credit \in Nat, NEW step,
         step \in {"retire", "publish", "answer"},
         req[r].at = "store", CommitWith(r, credit), Goto(r, step), UNCHANGED invoice
  PROVE  IInv'
<1>1. req[r].hash \in Invoices /\ writer = r
  BY DEF IInv, Carries, LockInv
<1>2. Carries'
  BY GotoFacts DEF IInv, Carries
<1>3. LockInv'
  <2>1. \A x \in Slots : writer' # x
    BY NoneAssumption DEF CommitWith
  <2>2. \A x \in Slots : req'[x].at \notin {"store"}
    BY <1>1, GotoFacts DEF IInv, LockInv
  <2>3. \A x \in Slots : req'[x].at = "consume" => invoice'[req'[x].hash].settled
    BY GotoFacts DEF IInv, LockInv
  <2>. QED
    BY <2>1, <2>2, <2>3 DEF LockInv
<1>4. OneActionPerInvoice'
  <2>1. funded[req[r].hash] = <<>> /\ invoice[req[r].hash].settled
    BY <1>1 DEF IInv, LockInv, OneActionPerInvoice
  <2>2. Len(funded'[req[r].hash]) <= 1
    BY <1>1, <2>1 DEF CommitWith, IInv, TypeOK
  <2>3. \A h \in Invoices \ {req[r].hash} : funded'[h] = funded[h]
    BY DEF CommitWith, IInv, TypeOK
  <2>4. consumed' = consumed \cup {req[r].hash}
    BY DEF CommitWith
  <2>5. ASSUME NEW h \in Invoices
        PROVE  /\ Len(funded'[h]) <= 1
               /\ funded'[h] # <<>> => h \in consumed'
               /\ h \in consumed' => invoice'[h].settled
    <3>1. CASE h = req[r].hash
      <4>1. invoice'[h].settled /\ h \in consumed'
        BY <2>1, <2>4, <3>1
      <4>2. Len(funded'[h]) <= 1
        BY <2>2, <3>1
      <4>. QED
        BY <4>1, <4>2
    <3>2. CASE h # req[r].hash
      <4>1. funded'[h] = funded[h] /\ (h \in consumed' <=> h \in consumed)
        BY <2>3, <2>4, <3>2
      <4>. QED
        BY <4>1 DEF OneActionPerInvoice, IInv
    <3>. QED
      BY <3>1, <3>2
  <2>. QED
    BY <2>5 DEF OneActionPerInvoice
<1>5. SettledIsIssued'
  BY DEF IInv, SettledIsIssued
<1>. QED
  BY <1>2, <1>3, <1>4, <1>5 DEF IInv

\* A commit that uses an invoice up for nothing: a duplicate note, a vote on no note.
LEMMA BurnInv ==
  ASSUME IInv, TypeOK', NEW r \in Slots, writer = r,
         consumed' = consumed \cup {req[r].hash}, writer' = None,
         req'[r].at \in {"idle", "publish"},
         req'[r].at = "publish" => req'[r].route = req[r].route /\ req'[r].hash = req[r].hash,
         \A x \in Slots \ {r} : req'[x] = req[x],
         UNCHANGED <<invoice, funded>>
  PROVE  IInv'
<1>1. req[r].hash \in Invoices /\ invoice[req[r].hash].settled /\ req[r].at # "idle"
  BY DEF IInv, Carries, LockInv
<1>2. Carries'
  BY <1>1 DEF IInv, Carries
<1>3. LockInv'
  BY NoneAssumption DEF IInv, LockInv
<1>4. OneActionPerInvoice' /\ SettledIsIssued'
  BY <1>1 DEF IInv, OneActionPerInvoice, SettledIsIssued
<1>. QED
  BY <1>2, <1>3, <1>4 DEF IInv

\* A new invoice changes nothing about those that settled.
LEMMA IssueFacts ==
  ASSUME TypeOK, SettledIsIssued, NEW h \in Invoices, NEW sats \in Nat, Issue(h, sats)
  PROVE  /\ \A x \in Invoices : invoice'[x].settled = invoice[x].settled
         /\ \A x \in Invoices \ {h} : invoice'[x] = invoice[x]
         /\ ~invoice[h].settled
         /\ SettledIsIssued'
  BY DEF Issue, TypeOK, SettledIsIssued

LEMMA IssueInv ==
  ASSUME IInv, TypeOK', NEW r \in Slots, UNCHANGED <<consumed, funded, writer>>,
         \A x \in Invoices : invoice'[x].settled = invoice[x].settled,
         SettledIsIssued', Carries', writer # r,
         req'[r].at \in {"idle", "attach"},
         \A x \in Slots \ {r} : req'[x] = req[x]
  PROVE  IInv'
<1>1. LockInv'
  <2>1. ASSUME NEW x \in Slots
        PROVE  /\ req'[x].at \in {"consume", "store"} => invoice'[req'[x].hash].settled
               /\ req'[x].at = "store" => writer' = x
               /\ writer' = x => /\ req'[x].at \in {"store", "retire", "publish", "answer"}
                                 /\ req'[x].hash \notin consumed'
                                 /\ invoice'[req'[x].hash].settled
    <3>1. CASE x = r
      BY <3>1
    <3>2. CASE x # r
      BY <3>2 DEF IInv, LockInv, Carries
    <3>. QED
      BY <3>1, <3>2
  <2>. QED
    BY <2>1 DEF LockInv
<1>2. OneActionPerInvoice'
  BY DEF IInv, OneActionPerInvoice
<1>. QED
  BY <1>1, <1>2 DEF IInv

LEMMA StepInv ==
  ASSUME IInv, TypeOK', NEW r \in Slots, Step(r)
  PROVE  IInv'
<1>s. Steps = {"idle", "verify", "consume", "store", "retire", "publish", "answer", "challenge",
               "price", "attach"}
  BY DEF Steps
<1>t. TypeOK /\ Carries /\ LockInv
  BY DEF IInv
<1>l. req[r].at \notin {"store", "retire", "publish", "answer"} => writer # r
  BY <1>t DEF LockInv
<1>c. req[r].at = "store" => writer = r
  BY <1>t DEF LockInv
<1>n. r # None
  BY NoneAssumption
<1>1. CASE Verify(r)
  BY <1>1, <1>s, <1>l, GotoInv DEF Verify, database
<1>2. CASE Refuse(r)
  <2>1. CASE Goto(r, "challenge") /\ UNCHANGED writer
    BY <1>2, <2>1, <1>s, <1>l, GotoInv DEF Refuse, database
  <2>2. CASE Close(r)
    BY <1>2, <2>2, CloseInv DEF Refuse, database
  <2>. QED
    BY <1>2, <2>1, <2>2 DEF Refuse
<1>3. CASE Consume(r)
  <2>1. Carries'
    BY <1>3, <1>t, GotoFacts DEF Consume, Carries
  <2>2. LockInv'
    <3>1. ASSUME NEW x \in Slots
          PROVE  /\ req'[x].at \in {"consume", "store"} => invoice'[req'[x].hash].settled
                 /\ req'[x].at = "store" => writer' = x
                 /\ writer' = x => /\ req'[x].at \in {"store", "retire", "publish", "answer"}
                                   /\ req'[x].hash \notin consumed'
                                   /\ invoice'[req'[x].hash].settled
      <4>1. CASE x = r
        BY <1>3, <1>t, <4>1, GotoFacts DEF Consume, LockInv, database
      <4>2. CASE x # r
        BY <1>3, <1>t, <4>2, NoneAssumption, GotoFacts DEF Consume, LockInv, database
      <4>. QED
        BY <4>1, <4>2
    <3>. QED
      BY <3>1 DEF LockInv
  <2>3. OneActionPerInvoice' /\ SettledIsIssued'
    BY <1>3 DEF Consume, database, IInv, OneActionPerInvoice, SettledIsIssued
  <2>. QED
    BY <2>1, <2>2, <2>3 DEF IInv
<1>4. CASE Replay(r)
  <2>1. CASE Goto(r, "challenge") /\ UNCHANGED writer
    BY <1>4, <2>1, <1>s, <1>l, GotoInv DEF Replay, database
  <2>2. CASE Close(r)
    BY <1>4, <2>2, CloseInv DEF Replay, database
  <2>. QED
    BY <1>4, <2>1, <2>2 DEF Replay
<1>5. CASE Challenge(r)
  <2>1. req[r].sats \in Nat
    BY <1>t DEF TypeOK, Requests
  <2>2. /\ \A x \in Invoices : invoice'[x].settled = invoice[x].settled
        /\ SettledIsIssued'
    BY <1>5, <2>1, IssueFacts DEF Challenge, IInv, SettledIsIssued
  <2>3. req'[r].at = "idle" /\ Carries'
    BY <1>5, <1>t, CloseFacts, FreeFacts DEF Challenge, Carries
  <2>4. writer # r /\ UNCHANGED writer
    BY <1>5, <1>l DEF Challenge, Close
  <2>. QED
    BY <1>5, <1>t, <2>2, <2>3, <2>4, CloseFacts, IssueInv DEF Challenge, database
<1>6. CASE StoreNew(r)
  <2>1. req[r].credit \in Nat
    BY <1>t DEF TypeOK, Requests
  <2>. QED
    BY <1>6, <2>1, CommitInv DEF StoreNew, AfterStore
<1>7. CASE StoreDuplicate(r)
  BY <1>7, <1>s, <1>c, GotoInv DEF StoreDuplicate, AfterStore, database
<1>8. CASE StoreNoEvent(r)
  BY <1>8, CloseInv DEF StoreNoEvent, database
<1>9. CASE CastVote(r)
  BY <1>9, CommitInv DEF CastVote
<1>10. CASE ConfirmVote(r)
  BY <1>10, CommitInv DEF ConfirmVote
<1>11. CASE VoteTargetMissing(r)
  <2>1. writer = r /\ writer' = None
    BY <1>11, <1>c DEF VoteTargetMissing, Close
  <2>. QED
    BY <1>11, <1>t, <2>1, CloseFacts, FreeFacts, BurnInv DEF VoteTargetMissing
<1>12. CASE Retire(r)
  <2>1. CASE writer = r
    BY <1>12, <1>t, <2>1, GotoFacts, BurnInv DEF Retire
  <2>2. CASE writer # r
    <3>1. writer = None /\ UNCHANGED <<invoice, consumed, funded, writer>>
      BY <1>12, <2>2 DEF Retire
    <3>. QED
      BY <1>12, <1>n, <1>s, <3>1, GotoInv DEF Retire
  <2>. QED
    BY <2>1, <2>2
<1>13. CASE Publish(r)
  BY <1>13, <1>s, GotoInv DEF Publish, database
<1>14. CASE PublishFails(r)
  BY <1>14, CloseInv DEF PublishFails, database
<1>15. CASE Answer200(r)
  BY <1>15, CloseInv DEF Answer200, database
<1>16. CASE LockTimeout(r)
  BY <1>16, CloseInv DEF LockTimeout, database
<1>17. CASE InvoiceCreated(r)
  <2>1. req[r].sats \in Nat
    BY <1>t DEF TypeOK, Requests
  <2>2. PICK h \in Invoices :
          /\ Issue(h, req[r].sats)
          /\ req' = [req EXCEPT ![r].at = "attach", ![r].hash = h]
    BY <1>17 DEF InvoiceCreated
  <2>3. /\ req'[r].at = "attach"
        /\ req'[r].route = req[r].route
        /\ req'[r].token = req[r].token
        /\ \A x \in Slots \ {r} : req'[x] = req[x]
    BY <1>t, <2>2 DEF TypeOK, Requests
  <2>4. Carries'
    BY <1>17, <1>t, <2>3 DEF Carries, InvoiceCreated
  <2>5. /\ \A x \in Invoices : invoice'[x].settled = invoice[x].settled
        /\ SettledIsIssued'
    BY <1>t, <2>1, <2>2, IssueFacts DEF IInv
  <2>6. writer # r
    BY <1>17, <1>l DEF InvoiceCreated
  <2>. QED
    BY <1>17, <2>3, <2>4, <2>5, <2>6, IssueInv DEF InvoiceCreated, database
<1>18. CASE InvoiceFails(r)
  BY <1>18, CloseInv DEF InvoiceFails, database
<1>19. CASE Attach(r)
  BY <1>19, CloseInv DEF Attach
<1>20. CASE VoteRowGone(r)
  BY <1>20, CloseInv DEF VoteRowGone, database
<1>. QED
  BY <1>1, <1>2, <1>3, <1>4, <1>5, <1>6, <1>7, <1>8, <1>9, <1>10, <1>11, <1>12, <1>13, <1>14,
     <1>15, <1>16, <1>17, <1>18, <1>19, <1>20 DEF Step

\* A request that begins holds no lock, and carries what its first step needs.
LEMMA OpenInv ==
  ASSUME IInv, TypeOK', NEW r \in Slots, NEW q, Open(r, q),
         q.at \in {"verify", "price"},
         q.at = "verify" => q.hash \in Invoices,
         q.at = "price" => q.token \in Tokens,
         UNCHANGED <<invoice, consumed, funded, writer>>
  PROVE  IInv'
<1>1. /\ req'[r] = q
      /\ \A x \in Slots \ {r} : req'[x] = req[x]
      /\ q.route \in RouteNames
      /\ writer # r
  BY RoutesAssumption DEF Open, IInv, TypeOK, LockInv
<1>2. Carries'
  BY <1>1 DEF IInv, Carries
<1>3. LockInv'
  BY <1>1 DEF IInv, LockInv
<1>4. OneActionPerInvoice' /\ SettledIsIssued'
  BY DEF IInv, OneActionPerInvoice, SettledIsIssued
<1>. QED
  BY <1>2, <1>3, <1>4 DEF IInv

LEMMA BeginInv ==
  ASSUME IInv, TypeOK', NEW r \in Slots, Begin(r)
  PROVE  IInv'
<1>1. ASSUME NEW n \in Notes, NEW h \in Invoices, NEW sats \in Amounts, BeginSubmit(r, n, h, sats)
      PROVE  IInv'
  <2>. DEFINE q == [Free EXCEPT !.at = "verify", !.route = "submit", !.note = n, !.hash = h,
                                !.sats = sats, !.credit = sats]
  <2>1. q.at = "verify" /\ q.hash = h
    BY DEF Free
  <2>. QED
    BY <1>1, <2>1, OpenInv DEF BeginSubmit, database
<1>2. ASSUME NEW n \in Notes, NEW h \in Invoices, BeginPost(r, n, h)
      PROVE  IInv'
  <2>. DEFINE q == [Free EXCEPT !.at = "verify", !.route = "post", !.note = n, !.hash = h,
                                !.sats = Price]
  <2>1. q.at = "verify" /\ q.hash = h
    BY DEF Free
  <2>. QED
    BY <1>2, <2>1, OpenInv DEF BeginPost, database
<1>3. ASSUME NEW t \in Tokens, NEW h \in Invoices, BeginPay(r, t, h)
      PROVE  IInv'
  <2>. DEFINE q == [Free EXCEPT !.at = "verify", !.route = "pay", !.kind = pending[t].kind,
                                !.note = pending[t].note, !.hash = h, !.token = t,
                                !.sats = PriceOf(pending[t])]
  <2>1. q.at = "verify" /\ q.hash = h
    BY DEF Free
  <2>. QED
    BY <1>3, <2>1, OpenInv DEF BeginPay, database
<1>4. ASSUME NEW t \in Tokens, NEW h \in Invoices, BeginConfirm(r, t, h)
      PROVE  IInv'
  <2>. DEFINE q == [Free EXCEPT !.at = "verify", !.route = "confirm", !.kind = pending[t].kind,
                                !.note = pending[t].note, !.hash = h, !.token = t,
                                !.credit = PriceOf(pending[t])]
  <2>1. q.at = "verify" /\ q.hash = h
    BY DEF Free
  <2>. QED
    BY <1>4, <2>1, OpenInv DEF BeginConfirm, database
<1>5. ASSUME NEW n \in Notes, NEW h \in Invoices, NEW sats \in Amounts, BeginVote(r, n, h, sats)
      PROVE  IInv'
  <2>. DEFINE q == [Free EXCEPT !.at = "verify", !.route = "vote", !.kind = "vote", !.note = n,
                                !.hash = h, !.sats = sats, !.seen = row[n]]
  <2>1. q.at = "verify" /\ q.hash = h
    BY DEF Free
  <2>. QED
    BY <1>5, <2>1, OpenInv DEF BeginVote, database
<1>6. ASSUME NEW t \in Tokens, NEW n \in Notes, NEW h \in Invoices, BeginConfirmVote(r, t, n, h)
      PROVE  IInv'
  <2>. DEFINE q == [Free EXCEPT !.at = "verify", !.route = "confirm_vote", !.kind = "vote",
                                !.note = n, !.hash = h, !.token = t,
                                !.sats = PriceOf(pending[t])]
  <2>1. q.at = "verify" /\ q.hash = h
    BY DEF Free
  <2>. QED
    BY <1>6, <2>1, OpenInv DEF BeginConfirmVote, database
<1>7. ASSUME NEW t \in Tokens, BeginGetPay(r, t)
      PROVE  IInv'
  <2>. DEFINE q == [Free EXCEPT !.at = "price", !.route = "get_pay", !.token = t, !.sats = Price]
  <2>1. q.at = "price" /\ q.token = t
    BY DEF Free
  <2>. QED
    BY <1>7, <2>1, OpenInv DEF BeginGetPay, database
<1>8. ASSUME NEW t \in Tokens, NEW kind \in {"note", "vote"}, NEW n \in Notes,
             NEW sats \in Amounts \cup {0}, BeginOffer(r, t, kind, n, sats)
      PROVE  IInv'
  <2>. DEFINE q == [Free EXCEPT !.at = "price", !.route = "offer", !.token = t, !.note = n,
                                !.kind = kind, !.sats = IF sats = 0 THEN Price ELSE sats]
  <2>1. q.at = "price" /\ q.token = t
    BY DEF Free
  <2>. QED
    BY <1>8, <2>1, OpenInv DEF BeginOffer
<1>. QED
  BY <1>1, <1>2, <1>3, <1>4, <1>5, <1>6, <1>7, <1>8 DEF Begin

\* Steps that change neither requests, nor the lock, nor what was consumed.
LEMMA QuietInv ==
  ASSUME IInv, TypeOK', UNCHANGED <<invoice, consumed, funded, req, writer>>
  PROVE  IInv'
<1>1. Carries' /\ LockInv'
  BY DEF IInv, Carries, LockInv
<1>2. OneActionPerInvoice' /\ SettledIsIssued'
  BY DEF IInv, OneActionPerInvoice, SettledIsIssued
<1>. QED
  BY <1>1, <1>2 DEF IInv

LEMMA EnvironmentInv ==
  ASSUME IInv, TypeOK', Environment
  PROVE  IInv'
<1>t. TypeOK /\ Carries /\ LockInv /\ OneActionPerInvoice /\ SettledIsIssued
  BY DEF IInv
<1>a. Amounts \subseteq Nat
  BY AmountsAssumption
<1>1. ASSUME NEW h \in Invoices, Settle(h)
      PROVE  IInv'
  <2>1. /\ \A x \in Invoices : invoice[x].settled => invoice'[x].settled
        /\ \A x \in Invoices : invoice'[x].amount = invoice[x].amount
        /\ \A x \in Invoices \ {h} : invoice'[x] = invoice[x]
    BY <1>1, <1>t DEF Settle, TypeOK
  <2>2. Carries'
    BY <1>1, <1>t DEF Settle, Carries
  <2>3. LockInv'
    BY <1>1, <1>t, <2>1 DEF Settle, LockInv, Carries, database
  <2>4. OneActionPerInvoice' /\ SettledIsIssued'
    BY <1>1, <1>t, <2>1 DEF Settle, OneActionPerInvoice, SettledIsIssued, database
  <2>. QED
    BY <2>2, <2>3, <2>4 DEF IInv
<1>2. ASSUME NEW h \in Invoices, NEW sats \in Amounts, Discover(h, sats)
      PROVE  IInv'
  <2>1. /\ \A x \in Invoices : invoice'[x].settled = invoice[x].settled
        /\ SettledIsIssued'
    BY <1>2, <1>t, <1>a, IssueFacts DEF Discover
  <2>2. Carries'
    BY <1>2, <1>t DEF Discover, Carries
  <2>3. LockInv'
    BY <1>2, <1>t, <2>1 DEF Discover, LockInv, Carries, database
  <2>4. OneActionPerInvoice'
    BY <1>2, <1>t, <2>1 DEF Discover, OneActionPerInvoice, database
  <2>. QED
    BY <2>1, <2>2, <2>3, <2>4 DEF IInv
<1>3. ASSUME NEW t \in Tokens, Expire(t)
      PROVE  IInv'
  BY <1>3, QuietInv DEF Expire
<1>4. ASSUME NEW t \in Tokens, RefuseUpvote(t)
      PROVE  IInv'
  BY <1>4, QuietInv DEF RefuseUpvote
<1>5. ASSUME NEW t \in Tokens, NEW n \in Notes, OfferOnSocket(t, n)
      PROVE  IInv'
  BY <1>5, QuietInv DEF OfferOnSocket
<1>6. CASE Cleanup
  BY <1>6, QuietInv DEF Cleanup
<1>7. CASE Crash
  <2>1. \A r \in Slots : req'[r].at = "idle" /\ writer' # r
    BY <1>7, FreeFacts, NoneAssumption DEF Crash
  <2>2. Carries' /\ LockInv'
    BY <2>1 DEF Carries, LockInv
  <2>3. OneActionPerInvoice' /\ SettledIsIssued'
    BY <1>7, <1>t DEF Crash, database, OneActionPerInvoice, SettledIsIssued
  <2>. QED
    BY <2>2, <2>3 DEF IInv
<1>. QED
  BY <1>1, <1>2, <1>3, <1>4, <1>5, <1>6, <1>7 DEF Environment

LEMMA IInvInit == Init => IInv
<1>. SUFFICES ASSUME Init PROVE IInv
  OBVIOUS
<1>1. \A r \in Slots : req[r].at = "idle" /\ writer # r
  BY FreeFacts, NoneAssumption DEF Init
<1>2. Carries /\ LockInv
  BY <1>1 DEF Carries, LockInv
<1>3. OneActionPerInvoice /\ SettledIsIssued
  BY DEF Init, OneActionPerInvoice, SettledIsIssued
<1>. QED
  BY <1>2, <1>3, TypeInit DEF IInv

LEMMA IInvStep == IInv /\ [Next]_vars => IInv'
<1>. SUFFICES ASSUME IInv, [Next]_vars PROVE IInv'
  OBVIOUS
<1>1. CASE Environment
  BY <1>1, EnvironmentType, EnvironmentInv DEF IInv
<1>2. ASSUME NEW r \in Slots, Begin(r)
      PROVE  IInv'
  BY <1>2, BeginType, BeginInv DEF IInv
<1>3. ASSUME NEW r \in Slots, Step(r)
      PROVE  IInv'
  BY <1>3, StepType, StepInv DEF IInv
<1>4. CASE UNCHANGED vars
  <2>1. TypeOK'
    BY <1>4 DEF vars, IInv, TypeOK
  <2>. QED
    BY <1>4, <2>1, QuietInv DEF vars
<1>. QED
  BY <1>1, <1>2, <1>3, <1>4 DEF Next

LEMMA IInvHolds == Spec => []IInv
  BY IInvInit, IInvStep, PTL DEF Spec

-----------------------------------------------------------------------------
(* The theorems *)

\* Every variable keeps its type: what the handlers, the database and LNBits hold.
THEOREM TypeCorrect == Spec => []TypeOK
<1>1. IInv => TypeOK
  BY DEF IInv
<1>. QED
  BY <1>1, IInvHolds, PTL

\* check_and_consume_payment: over all routes, concurrent requests, retries and crashes an
\* invoice pays for at most one committed action, committed with the record of its use.
THEOREM PaidOnce == Spec => []OneActionPerInvoice
<1>1. IInv => OneActionPerInvoice
  BY DEF IInv
<1>. QED
  BY <1>1, IInvHolds, PTL

\* Between the flush of a consumption and its commit the session holds SQLite's write lock,
\* and the row it wrote is the only one for that invoice.
THEOREM LockHeld == Spec => []LockInv
<1>1. IInv => LockInv
  BY DEF IInv
<1>. QED
  BY <1>1, IInvHolds, PTL

-----------------------------------------------------------------------------
(* Refinement: every step is a step of PaymentPromise or leaves what it sees alone *)

Bought == [h \in Invoices |-> Len(funded[h])]

PromiseStep == Promise!Next \/ UNCHANGED <<Stage, Bought>>

LEMMA StutterKept ==
  ASSUME UNCHANGED <<invoice, consumed, funded>>
  PROVE  PromiseStep
  BY DEF PromiseStep, Stage, Bought

LEMMA MoveKept ==
  ASSUME NEW h \in Invoices, NEW to, Stage'[h] = to,
         \A x \in Invoices \ {h} : Stage'[x] = Stage[x]
  PROVE  Stage' = [Stage EXCEPT ![h] = to]
<1>1. Stage = [x \in Invoices |-> Stage[x]] /\ Stage' = [x \in Invoices |-> Stage'[x]]
  BY DEF Stage
<1>. QED
  BY <1>1

LEMMA IssueKept ==
  ASSUME IInv, NEW h \in Invoices, NEW sats \in Nat, Issue(h, sats),
         UNCHANGED <<consumed, funded>>
  PROVE  PromiseStep
<1>1. /\ h \notin consumed
      /\ ~invoice[h].settled /\ ~invoice'[h].settled
      /\ invoice[h].amount = 0 /\ invoice'[h].amount = sats
      /\ \A x \in Invoices \ {h} : invoice'[x] = invoice[x]
  BY DEF Issue, IInv, TypeOK, OneActionPerInvoice, SettledIsIssued
<1>2. \A x \in Invoices \ {h} : Stage'[x] = Stage[x]
  BY <1>1 DEF Stage
<1>3. CASE sats = 0
  <2>1. \A x \in Invoices : Stage'[x] = Stage[x]
    BY <1>1, <1>2, <1>3 DEF Stage
  <2>2. Stage' = Stage
    BY <2>1 DEF Stage
  <2>. QED
    BY <2>2 DEF PromiseStep, Bought
<1>4. CASE sats # 0
  <2>1. Stage[h] = "unissued" /\ Stage'[h] = "open"
    BY <1>1, <1>4 DEF Stage
  <2>2. Promise!Issue(h)
    BY <1>2, <2>1, MoveKept DEF Promise!Issue, Promise!Move
  <2>. QED
    BY <2>2 DEF PromiseStep, Promise!Next
<1>. QED
  BY <1>3, <1>4

LEMMA SettleKept ==
  ASSUME IInv, NEW h \in Invoices, Settle(h)
  PROVE  PromiseStep
<1>1. /\ h \notin consumed
      /\ invoice[h].amount > 0
      /\ ~invoice[h].settled /\ invoice'[h].settled
      /\ \A x \in Invoices \ {h} : invoice'[x] = invoice[x]
      /\ UNCHANGED <<consumed, funded>>
  BY DEF Settle, database, IInv, TypeOK, OneActionPerInvoice
<1>2. \A x \in Invoices \ {h} : Stage'[x] = Stage[x]
  BY <1>1 DEF Stage
<1>3. Stage[h] = "open" /\ Stage'[h] = "paid"
  BY <1>1 DEF Stage
<1>4. Promise!Settle(h)
  BY <1>1, <1>2, <1>3, MoveKept DEF Promise!Settle, Promise!Move
<1>. QED
  BY <1>4 DEF PromiseStep, Promise!Next

\* Taking a settled invoice moves it from "paid" to "used" and no other.
LEMMA UsedMove ==
  ASSUME IInv, NEW r \in Slots, writer = r, consumed' = consumed \cup {req[r].hash},
         UNCHANGED invoice
  PROVE  req[r].hash \in Invoices /\ Promise!Move(req[r].hash, "paid", "used")
<1>1. req[r].hash \in Invoices /\ req[r].hash \notin consumed /\ invoice[req[r].hash].settled
  BY DEF IInv, LockInv, Carries
<1>2. Stage[req[r].hash] = "paid" /\ Stage'[req[r].hash] = "used"
  BY <1>1 DEF Stage
<1>3. \A x \in Invoices \ {req[r].hash} : Stage'[x] = Stage[x]
  BY <1>1 DEF Stage
<1>. QED
  BY <1>1, <1>2, <1>3, MoveKept DEF Promise!Move

LEMMA CommitKept ==
  ASSUME IInv, NEW r \in Slots, NEW credit, req[r].at = "store", CommitWith(r, credit),
         UNCHANGED invoice
  PROVE  PromiseStep
<1>. DEFINE e == [route |-> req[r].route, credit |-> credit]
<1>1. PICK h \in Invoices : h = req[r].hash /\ Promise!Move(h, "paid", "used")
  BY UsedMove DEF CommitWith, IInv, LockInv
<1>2. funded[h] \in Seq(Effects) /\ funded' = [funded EXCEPT ![h] = Append(funded[h], e)]
  BY <1>1 DEF CommitWith, IInv, TypeOK
<1>3. Len(Append(funded[h], e)) = Len(funded[h]) + 1
  BY <1>2
<1>4. /\ funded'[h] = Append(funded[h], e)
      /\ \A x \in Invoices \ {h} : funded'[x] = funded[x]
  BY <1>1, <1>2 DEF IInv, TypeOK
<1>5. Bought' = [Bought EXCEPT ![h] = @ + 1]
  BY <1>1, <1>3, <1>4 DEF Bought
<1>6. Promise!Spend(h)
  BY <1>1, <1>5 DEF Promise!Spend, Bought
<1>. QED
  BY <1>6 DEF PromiseStep, Promise!Next

LEMMA BurnKept ==
  ASSUME IInv, NEW r \in Slots, writer = r, consumed' = consumed \cup {req[r].hash},
         UNCHANGED <<invoice, funded>>
  PROVE  PromiseStep
<1>1. req[r].hash \in Invoices /\ Promise!Move(req[r].hash, "paid", "used")
  BY UsedMove
<1>2. Promise!Burn(req[r].hash)
  BY <1>1 DEF Promise!Burn
<1>. QED
  BY <1>1, <1>2 DEF PromiseStep, Promise!Next

LEMMA StepKept ==
  ASSUME IInv, NEW r \in Slots, Step(r)
  PROVE  PromiseStep
<1>s. req[r].sats \in Nat
  BY DEF IInv, TypeOK, Requests
<1>c. req[r].at = "store" => writer = r
  BY DEF IInv, LockInv
<1>1. CASE Challenge(r)
  <2>1. UNCHANGED <<consumed, funded>>
    BY <1>1 DEF Challenge, database
  <2>2. CASE UNCHANGED invoice
    BY <2>1, <2>2, StutterKept
  <2>3. CASE \E h \in Invoices : Issue(h, req[r].sats)
    BY <1>s, <2>1, <2>3, IssueKept
  <2>. QED
    BY <1>1, <2>2, <2>3 DEF Challenge
<1>2. CASE InvoiceCreated(r)
  <2>1. UNCHANGED <<consumed, funded>>
    BY <1>2 DEF InvoiceCreated, database
  <2>. QED
    BY <1>2, <1>s, <2>1, IssueKept DEF InvoiceCreated
<1>3. CASE StoreNew(r)
  BY <1>3, CommitKept DEF StoreNew
<1>4. CASE CastVote(r)
  BY <1>4, CommitKept DEF CastVote
<1>5. CASE ConfirmVote(r)
  BY <1>5, CommitKept DEF ConfirmVote
<1>6. CASE VoteTargetMissing(r)
  BY <1>6, <1>c, BurnKept DEF VoteTargetMissing
<1>7. CASE Retire(r)
  <2>1. CASE writer = r
    BY <1>7, <2>1, BurnKept DEF Retire
  <2>2. CASE writer # r
    BY <1>7, <2>2, StutterKept DEF Retire
  <2>. QED
    BY <2>1, <2>2
<1>8. CASE \/ Verify(r) \/ Refuse(r) \/ Consume(r) \/ Replay(r)
           \/ StoreDuplicate(r) \/ StoreNoEvent(r) \/ VoteRowGone(r)
           \/ Publish(r) \/ PublishFails(r) \/ Answer200(r) \/ LockTimeout(r)
           \/ InvoiceFails(r) \/ Attach(r)
  <2>1. UNCHANGED <<invoice, consumed, funded>>
    BY <1>8 DEF Verify, Refuse, Consume, Replay, StoreDuplicate, StoreNoEvent,
                VoteRowGone, Publish, PublishFails, Answer200, LockTimeout, InvoiceFails, Attach, database
  <2>. QED
    BY <2>1, StutterKept
<1>. QED
  BY <1>1, <1>2, <1>3, <1>4, <1>5, <1>6, <1>7, <1>8 DEF Step

LEMMA BeginKept ==
  ASSUME NEW r \in Slots, Begin(r)
  PROVE  PromiseStep
<1>1. UNCHANGED <<invoice, consumed, funded>>
  BY DEF Begin, BeginSubmit, BeginVote, BeginPost, BeginPay, BeginConfirm, BeginConfirmVote,
         BeginGetPay, BeginOffer, database
<1>. QED
  BY <1>1, StutterKept

LEMMA EnvironmentKept ==
  ASSUME IInv, Environment
  PROVE  PromiseStep
<1>1. ASSUME NEW h \in Invoices, Settle(h)
      PROVE  PromiseStep
  BY <1>1, SettleKept
<1>2. ASSUME NEW h \in Invoices, NEW sats \in Amounts, Discover(h, sats)
      PROVE  PromiseStep
  BY <1>2, AmountsAssumption, IssueKept DEF Discover, database
<1>3. CASE \/ \E t \in Tokens : Expire(t) \/ RefuseUpvote(t) \/ \E n \in Notes : OfferOnSocket(t, n)
           \/ Cleanup
           \/ Crash
  <2>1. UNCHANGED <<invoice, consumed, funded>>
    BY <1>3 DEF Expire, RefuseUpvote, OfferOnSocket, Cleanup, Crash, database
  <2>. QED
    BY <2>1, StutterKept
<1>. QED
  BY <1>1, <1>2, <1>3 DEF Environment

LEMMA PromiseInit == Init => Promise!Init
<1>. SUFFICES ASSUME Init PROVE Promise!Init
  OBVIOUS
<1>1. \A h \in Invoices : h \notin consumed /\ ~invoice[h].settled /\ ~(invoice[h].amount > 0)
  BY DEF Init
<1>2. Stage = [h \in Invoices |-> "unissued"]
  BY <1>1 DEF Stage
<1>3. \A h \in Invoices : Len(funded[h]) = 0
  BY DEF Init
<1>. QED
  BY <1>2, <1>3 DEF Promise!Init

\* PaidActions implements PaymentPromise: each invoice goes unissued, open, paid, used, and a
\* paid action is committed exactly in the step that uses up a paid invoice.
THEOREM Implements == Spec => KeepsPromise
<1>1. IInv /\ [Next]_vars => [Promise!Next]_<<Stage, Bought>>
  <2>. SUFFICES ASSUME IInv, [Next]_vars PROVE PromiseStep
    BY DEF PromiseStep
  <2>1. CASE UNCHANGED vars
    BY <2>1, StutterKept DEF vars
  <2>2. CASE Next
    BY <2>2, EnvironmentKept, BeginKept, StepKept DEF Next
  <2>. QED
    BY <2>1, <2>2
<1>2. [Promise!Next]_<<Stage, Bought>> => [Promise!Next]_(Promise!promised)
  BY DEF Promise!promised, Bought
<1>. QED
  BY <1>1, <1>2, PromiseInit, IInvHolds, PTL DEF Spec, KeepsPromise, Promise!Spec

=============================================================================
