----------------------------- MODULE StoredProofs ---------------------------
(***************************************************************************)
(* Theorems of PaidActions about the notes it stores: of the replaceable   *)
(* events of an author only the latest is kept, what is stored stays, and  *)
(* nothing is published that is not stored; and about the money and the    *)
(* tokens behind them: what an invoice credits, burns and retires.         *)
(***************************************************************************)
EXTENDS PaidActionsProofs

-----------------------------------------------------------------------------
(* What the handlers know of the note they carry *)

NoteInv ==
  /\ \A t \in Tokens : pending[t].state = "live" => pending[t].note \in Notes
  /\ \A r \in Slots :
       req[r].at \in {"verify", "consume", "store", "retire", "publish", "answer"} =>
         req[r].note \in Notes
  /\ \A r \in Slots :
       req[r].at \in {"verify", "consume", "store"} /\ req[r].route = "vote" =>
         Kept(req[r].note)

SInv == IInv /\ NoteInv /\ OneReplaceable /\ PublishedIsStored /\
        \A r \in Slots : req[r].at = "retire" => Kept(req[r].note)

-----------------------------------------------------------------------------
(* How a step changes the set of stored notes *)

SameStored == \A n \in Notes : Stored(n)' <=> Stored(n)

\* A vote changes the tallies of a row and leaves it where it is.
LEMMA LoweredStays ==
  ASSUME NEW tally, NEW sats, NEW seen, NEW lowered
  PROVE  /\ Lowered(tally, sats).stored = tally.stored
         /\ Overwritten(tally, seen, lowered).stored = tally.stored
  BY DEF Lowered, Overwritten

\* StoreNew adds its note and drops those it supersedes.
LEMMA StoreNewRows ==
  ASSUME TypeOK, NEW r \in Slots, StoreNew(r), req[r].note \in Notes
  PROVE  /\ ~Kept(req[r].note)
         /\ \A m \in Notes :
              Stored(m)' <=> m = req[r].note \/ (Stored(m) /\ <<req[r].note, m>> \notin Supersedes)
<1>. DEFINE n == req[r].note
            new == [stored |-> TRUE, clank |-> req[r].credit, ext |-> 0]
<1>1. /\ ~Kept(n)
      /\ row' = [m \in Notes |-> IF m = n THEN new
                                 ELSE IF <<n, m>> \in Supersedes THEN NoRow ELSE row[m]]
  BY DEF StoreNew
<1>2. ~NoRow.stored /\ new.stored = TRUE
  BY DEF NoRow
<1>3. \A m \in Notes : row[m].stored \in BOOLEAN
  BY DEF TypeOK, Rows
<1>4. <<n, n>> \notin Supersedes
  BY SupersedesAssumption
<1>5. ASSUME NEW m \in Notes
      PROVE  Stored(m)' <=> m = n \/ (Stored(m) /\ <<n, m>> \notin Supersedes)
  <2>1. row'[m] = IF m = n THEN new ELSE IF <<n, m>> \in Supersedes THEN NoRow ELSE row[m]
    BY <1>1
  <2>2. CASE m = n
    BY <2>1, <2>2, <1>2, <1>4 DEF Stored
  <2>3. CASE m # n /\ <<n, m>> \in Supersedes
    BY <2>1, <2>3, <1>2 DEF Stored
  <2>4. CASE m # n /\ <<n, m>> \notin Supersedes
    BY <2>1, <2>4 DEF Stored
  <2>. QED
    BY <2>2, <2>3, <2>4
<1>. QED
  BY <1>1, <1>5

\* Every other step leaves the set of stored notes alone.
LEMMA OtherRows ==
  ASSUME TypeOK, NoteInv, [Next]_vars, \A r \in Slots : ~StoreNew(r)
  PROVE  SameStored
<1>1. ASSUME NEW r \in Slots, CastVote(r)
      PROVE  SameStored
  <2>1. \A n \in Notes : Overwritten(row[n], req[r].seen, Voted(r)).stored = row[n].stored
    BY LoweredStays
  <2>2. row' = [row EXCEPT ![req[r].note] = Overwritten(@, req[r].seen, Voted(r))]
    BY <1>1 DEF CastVote
  <2>. QED
    BY <2>1, <2>2 DEF SameStored, Stored, TypeOK
<1>2. ASSUME NEW r \in Slots, ConfirmVote(r)
      PROVE  SameStored
  <2>1. \A n \in Notes : Lowered(row[n], req[r].sats).stored = row[n].stored
    BY LoweredStays
  <2>. QED
    BY <1>2, <2>1 DEF ConfirmVote, SameStored, Stored, TypeOK
<1>3. CASE UNCHANGED row
  BY <1>3 DEF SameStored, Stored
<1>4. ASSUME NEW r \in Slots, Begin(r)
      PROVE  UNCHANGED row
  BY <1>4 DEF Begin, BeginSubmit, BeginVote, BeginPost, BeginPay, BeginConfirm,
              BeginConfirmVote, BeginGetPay, BeginOffer, database
<1>5. ASSUME NEW r \in Slots, Step(r), ~CastVote(r), ~ConfirmVote(r)
      PROVE  UNCHANGED row
  BY <1>5 DEF Step, Verify, Refuse, Consume, Replay, Challenge, StoreDuplicate, StoreNoEvent,
              VoteRowGone, VoteTargetMissing, Retire, Publish, PublishFails, Answer200,
              LockTimeout, InvoiceCreated, InvoiceFails, Attach, database
<1>6. ASSUME Environment
      PROVE  UNCHANGED row
  BY <1>6 DEF Environment, Settle, Discover, Expire, RefuseUpvote, OfferOnSocket, Cleanup,
              Crash, database
<1>7. CASE UNCHANGED vars
  BY <1>3, <1>7 DEF vars
<1>. QED
  BY <1>1, <1>2, <1>3, <1>4, <1>5, <1>6, <1>7 DEF Next

\* What is stored, or superseded by something stored, stays so.
LEMMA KeptStays ==
  ASSUME TypeOK, NoteInv, [Next]_vars
  PROVE  \A n \in Notes : Kept(n) => Kept(n)'
<1>1. CASE \A r \in Slots : ~StoreNew(r)
  <2>1. SameStored
    BY <1>1, OtherRows
  <2>. QED
    BY <2>1, SupersedesAssumption DEF SameStored, Kept, Superseded
<1>2. ASSUME NEW r \in Slots, StoreNew(r)
      PROVE  \A n \in Notes : Kept(n) => Kept(n)'
  <2>0. req[r].note \in Notes
    BY <1>2 DEF StoreNew, NoteInv
  <2>1. \A m \in Notes :
          Stored(m)' <=> m = req[r].note \/ (Stored(m) /\ <<req[r].note, m>> \notin Supersedes)
    BY <1>2, <2>0, StoreNewRows
  <2>2. \A m \in Notes : Stored(m) => Kept(m)'
    BY <2>0, <2>1 DEF Kept, Superseded
  <2>3. ASSUME NEW n \in Notes, NEW m \in Notes, <<m, n>> \in Supersedes, Stored(m)
        PROVE  Kept(n)'
    <3>1. CASE <<req[r].note, m>> \in Supersedes
      <4>1. <<req[r].note, n>> \in Supersedes
        BY <2>0, <2>3, <3>1, SupersedesAssumption
      <4>. QED
        BY <2>0, <2>1, <4>1 DEF Kept, Superseded
    <3>2. CASE <<req[r].note, m>> \notin Supersedes
      BY <2>1, <2>3, <3>2 DEF Kept, Superseded
    <3>. QED
      BY <3>1, <3>2
  <2>. QED
    BY <2>2, <2>3 DEF Kept, Superseded
<1>. QED
  BY <1>1, <1>2

LEMMA ReplaceableStep ==
  ASSUME TypeOK, NoteInv, OneReplaceable, [Next]_vars
  PROVE  OneReplaceable'
<1>1. CASE \A r \in Slots : ~StoreNew(r)
  <2>1. SameStored
    BY <1>1, OtherRows
  <2>. QED
    BY <2>1 DEF SameStored, OneReplaceable
<1>2. ASSUME NEW r \in Slots, StoreNew(r)
      PROVE  OneReplaceable'
  <2>0. req[r].note \in Notes
    BY <1>2 DEF StoreNew, NoteInv
  <2>1. /\ ~Kept(req[r].note)
        /\ \A m \in Notes :
             Stored(m)' <=> m = req[r].note \/ (Stored(m) /\ <<req[r].note, m>> \notin Supersedes)
    BY <1>2, <2>0, StoreNewRows
  <2>. QED
    BY <2>0, <2>1, SupersedesAssumption DEF OneReplaceable, Kept, Superseded
<1>. QED
  BY <1>1, <1>2

-----------------------------------------------------------------------------
(* The notes requests carry *)

\* A request that goes on or ends keeps its note.
LEMMA GotoNote ==
  ASSUME TypeOK, NEW r \in Slots, NEW step, Goto(r, step)
  PROVE  /\ req'[r].at = step
         /\ req'[r].note = req[r].note
         /\ req'[r].route = req[r].route
         /\ req'[r].seen = req[r].seen
         /\ \A x \in Slots \ {r} : req'[x] = req[x]
  BY DEF Goto, TypeOK, Requests

\* The state of a request that Step(r) leaves.
LEMMA StepNote ==
  ASSUME TypeOK, NEW r \in Slots, Step(r)
  PROVE  /\ \A x \in Slots \ {r} : req'[x] = req[x]
         /\ req'[r].at \in {"verify", "consume", "store", "retire", "publish", "answer"} =>
              /\ req[r].at \in {"verify", "consume", "store", "retire", "publish"}
              /\ req'[r].note = req[r].note
              /\ req'[r].route = req[r].route
              /\ req'[r].seen = req[r].seen
         /\ req'[r].at \in {"retire", "publish", "answer"} =>
              \/ req[r].at \in {"retire", "publish"}
              \/ StoreNew(r)
              \/ req[r].at = "store" /\ (Kept(req[r].note) \/ req[r].route = "vote")
         /\ req'[r].at \in {"verify", "consume", "store"} =>
              req[r].at \in {"verify", "consume"}
<1>1. CASE \/ Challenge(r) \/ StoreNoEvent(r) \/ VoteRowGone(r) \/ VoteTargetMissing(r)
           \/ PublishFails(r) \/ Answer200(r) \/ LockTimeout(r) \/ InvoiceFails(r) \/ Attach(r)
  <2>1. Close(r)
    BY <1>1 DEF Challenge, StoreNoEvent, VoteRowGone, VoteTargetMissing, PublishFails, Answer200,
                LockTimeout, InvoiceFails, Attach
  <2>. QED
    BY <2>1, CloseFacts, FreeFacts
<1>2. CASE Refuse(r) \/ Replay(r)
  <2>1. Goto(r, "challenge") \/ Close(r)
    BY <1>2 DEF Refuse, Replay
  <2>. QED
    BY <2>1, GotoNote, CloseFacts, FreeFacts
<1>3. CASE Verify(r)
  BY <1>3, GotoNote DEF Verify
<1>4. CASE Consume(r)
  BY <1>4, GotoNote DEF Consume
<1>5. CASE StoreNew(r)
  BY <1>5, GotoNote DEF StoreNew, AfterStore
<1>6. CASE StoreDuplicate(r)
  BY <1>6, GotoNote DEF StoreDuplicate, AfterStore
<1>7. CASE CastVote(r)
  BY <1>7, GotoNote DEF CastVote
<1>8. CASE ConfirmVote(r)
  BY <1>8, GotoNote DEF ConfirmVote, Kept
<1>9. CASE Retire(r)
  BY <1>9, GotoNote DEF Retire
<1>10. CASE Publish(r)
  BY <1>10, GotoNote DEF Publish
<1>11. CASE InvoiceCreated(r)
  <2>1. PICK h \in Invoices : req' = [req EXCEPT ![r].at = "attach", ![r].hash = h]
    BY <1>11 DEF InvoiceCreated
  <2>2. req'[r].at = "attach" /\ \A x \in Slots \ {r} : req'[x] = req[x]
    BY <2>1 DEF TypeOK, Requests
  <2>. QED
    BY <2>2
<1>. QED
  BY <1>1, <1>2, <1>3, <1>4, <1>5, <1>6, <1>7, <1>8, <1>9, <1>10, <1>11 DEF Step

LEMMA BeginNote ==
  ASSUME TypeOK, NoteInv, NEW r \in Slots, Begin(r)
  PROVE  /\ \A x \in Slots \ {r} : req'[x] = req[x]
         /\ req'[r].at \in {"verify", "price"}
         /\ req'[r].at = "verify" => /\ req'[r].note \in Notes
                                     /\ req'[r].route = "vote" => Stored(req'[r].note)
<1>. DEFINE Fresh(q) == q.at = "verify" => q.note \in Notes /\ (q.route = "vote" => Stored(q.note))
<1>o. ASSUME NEW q, Open(r, q)
      PROVE  req'[r] = q /\ \A x \in Slots \ {r} : req'[x] = req[x]
  BY <1>o DEF Open, TypeOK
<1>1. ASSUME NEW q, Open(r, q), q.at \in {"verify", "price"}, Fresh(q)
      PROVE  /\ \A x \in Slots \ {r} : req'[x] = req[x]
             /\ req'[r].at \in {"verify", "price"}
             /\ Fresh(req'[r])
  BY <1>1, <1>o
<1>. HIDE DEF Fresh
<1>2. ASSUME NEW n \in Notes, NEW h \in Invoices, NEW sats \in Amounts, BeginSubmit(r, n, h, sats)
      PROVE  \E q : Open(r, q) /\ q.at \in {"verify", "price"} /\ Fresh(q)
  <2>. DEFINE q == [Free EXCEPT !.at = "verify", !.route = "submit", !.note = n, !.hash = h,
                                !.sats = sats, !.credit = sats]
  <2>1. q.at = "verify" /\ q.note = n /\ q.route = "submit"
    BY DEF Free
  <2>2. Fresh(q)
    BY <2>1 DEF Fresh
  <2>. QED
    BY <1>2, <2>1, <2>2 DEF BeginSubmit
<1>3. ASSUME NEW n \in Notes, NEW h \in Invoices, BeginPost(r, n, h)
      PROVE  \E q : Open(r, q) /\ q.at \in {"verify", "price"} /\ Fresh(q)
  <2>. DEFINE q == [Free EXCEPT !.at = "verify", !.route = "post", !.note = n, !.hash = h,
                                !.sats = Price]
  <2>1. q.at = "verify" /\ q.note = n /\ q.route = "post"
    BY DEF Free
  <2>2. Fresh(q)
    BY <2>1 DEF Fresh
  <2>. QED
    BY <1>3, <2>1, <2>2 DEF BeginPost
<1>4. ASSUME NEW t \in Tokens, NEW h \in Invoices, BeginPay(r, t, h)
      PROVE  \E q : Open(r, q) /\ q.at \in {"verify", "price"} /\ Fresh(q)
  <2>. DEFINE q == [Free EXCEPT !.at = "verify", !.route = "pay", !.kind = pending[t].kind,
                                !.note = pending[t].note, !.hash = h, !.token = t,
                                !.sats = PriceOf(pending[t])]
  <2>1. q.at = "verify" /\ q.note = pending[t].note /\ q.route = "pay"
    BY DEF Free
  <2>2. Fresh(q)
    BY <1>4, <2>1 DEF Fresh, BeginPay, NoteInv
  <2>. QED
    BY <1>4, <2>1, <2>2 DEF BeginPay
<1>5. ASSUME NEW t \in Tokens, NEW h \in Invoices, BeginConfirm(r, t, h)
      PROVE  \E q : Open(r, q) /\ q.at \in {"verify", "price"} /\ Fresh(q)
  <2>. DEFINE q == [Free EXCEPT !.at = "verify", !.route = "confirm", !.kind = pending[t].kind,
                                !.note = pending[t].note, !.hash = h, !.token = t,
                                !.credit = PriceOf(pending[t])]
  <2>1. q.at = "verify" /\ q.note = pending[t].note /\ q.route = "confirm"
    BY DEF Free
  <2>2. Fresh(q)
    BY <1>5, <2>1 DEF Fresh, BeginConfirm, NoteInv
  <2>. QED
    BY <1>5, <2>1, <2>2 DEF BeginConfirm
<1>6. ASSUME NEW n \in Notes, NEW h \in Invoices, NEW sats \in Amounts, BeginVote(r, n, h, sats)
      PROVE  \E q : Open(r, q) /\ q.at \in {"verify", "price"} /\ Fresh(q)
  <2>. DEFINE q == [Free EXCEPT !.at = "verify", !.route = "vote", !.kind = "vote", !.note = n,
                                !.hash = h, !.sats = sats, !.seen = row[n]]
  <2>1. q.at = "verify" /\ q.note = n
    BY DEF Free
  <2>2. Fresh(q)
    BY <1>6, <2>1 DEF Fresh, BeginVote
  <2>. QED
    BY <1>6, <2>1, <2>2 DEF BeginVote
<1>7. ASSUME NEW t \in Tokens, NEW n \in Notes, NEW h \in Invoices, BeginConfirmVote(r, t, n, h)
      PROVE  \E q : Open(r, q) /\ q.at \in {"verify", "price"} /\ Fresh(q)
  <2>. DEFINE q == [Free EXCEPT !.at = "verify", !.route = "confirm_vote", !.kind = "vote",
                                !.note = n, !.hash = h, !.token = t,
                                !.sats = PriceOf(pending[t])]
  <2>1. q.at = "verify" /\ q.note = n /\ q.route = "confirm_vote"
    BY DEF Free
  <2>2. Fresh(q)
    BY <2>1 DEF Fresh
  <2>. QED
    BY <1>7, <2>1, <2>2 DEF BeginConfirmVote
<1>8. ASSUME NEW t \in Tokens, BeginGetPay(r, t)
      PROVE  \E q : Open(r, q) /\ q.at \in {"verify", "price"} /\ Fresh(q)
  <2>. DEFINE q == [Free EXCEPT !.at = "price", !.route = "get_pay", !.token = t, !.sats = Price]
  <2>1. q.at = "price"
    BY DEF Free
  <2>. QED
    BY <1>8, <2>1 DEF BeginGetPay, Fresh
<1>9. ASSUME NEW t \in Tokens, NEW kind, NEW n \in Notes, NEW sats, BeginOffer(r, t, kind, n, sats)
      PROVE  \E q : Open(r, q) /\ q.at \in {"verify", "price"} /\ Fresh(q)
  <2>. DEFINE q == [Free EXCEPT !.at = "price", !.route = "offer", !.token = t, !.note = n,
                                !.kind = kind, !.sats = IF sats = 0 THEN Price ELSE sats]
  <2>1. q.at = "price"
    BY DEF Free
  <2>. QED
    BY <1>9, <2>1 DEF BeginOffer, Fresh
<1>10. \E q : Open(r, q) /\ q.at \in {"verify", "price"} /\ Fresh(q)
  BY <1>2, <1>3, <1>4, <1>5, <1>6, <1>7, <1>8, <1>9 DEF Begin
<1>. QED
  BY <1>1, <1>10 DEF Fresh

\* A live pending row holds a note: rows are inserted with one and never given another.
LEMMA PendingNote ==
  ASSUME TypeOK, Carries, [Next]_vars,
         \A t \in Tokens : pending[t].state = "live" => pending[t].note \in Notes
  PROVE  \A t \in Tokens : pending'[t].state = "live" => pending'[t].note \in Notes
<1>. DEFINE Good == \A t \in Tokens : pending'[t].state = "live" => pending'[t].note \in Notes
<1>1. CASE UNCHANGED pending
  BY <1>1
<1>2. ASSUME NEW t, NEW s \in {"expired", "gone"}, pending' = [pending EXCEPT ![t].state = s]
      PROVE  Good
  BY <1>2 DEF TypeOK, PendingRows
<1>3. ASSUME NEW t \in Tokens, NEW kind, NEW n \in Notes, NEW sats, Insert(t, kind, n, sats)
      PROVE  Good
  BY <1>3 DEF Insert, TypeOK
<1>4. ASSUME NEW r \in Slots, Attach(r)
      PROVE  Good
  <2>1. CASE pending' = [pending EXCEPT ![req[r].token].hash = req[r].hash]
    BY <2>1 DEF TypeOK, PendingRows
  <2>. QED
    BY <1>1, <1>4, <2>1 DEF Attach
<1>5. CASE Cleanup
  <2>1. \A t \in Tokens : pending'[t] = pending[t] \/ pending'[t].state = "gone"
    BY <1>5 DEF Cleanup, TypeOK, PendingRows
  <2>. QED
    BY <2>1
<1>6. ASSUME NEW r \in Slots, Step(r), ~Attach(r)
      PROVE  Good
  <2>1. CASE ConfirmVote(r) \/ VoteTargetMissing(r) \/ Retire(r)
    BY <1>2, <2>1 DEF ConfirmVote, VoteTargetMissing, Retire
  <2>2. CASE ~(ConfirmVote(r) \/ VoteTargetMissing(r) \/ Retire(r))
    <3>1. UNCHANGED pending
      BY <1>6, <2>2 DEF Step, Verify, Refuse, Consume, Replay, Challenge, StoreNew,
              StoreDuplicate, StoreNoEvent, CastVote, VoteRowGone, Publish, PublishFails,
              Answer200, LockTimeout, InvoiceCreated, InvoiceFails, database
    <3>. QED
      BY <1>1, <3>1
  <2>. QED
    BY <2>1, <2>2
<1>7. ASSUME NEW r \in Slots, Begin(r)
      PROVE  Good
  <2>1. UNCHANGED pending \/ \E t \in Tokens, kind \in {"note", "vote"}, n \in Notes,
                                sats \in Amounts \cup {0} : Insert(t, kind, n, sats)
    BY <1>7 DEF Begin, BeginSubmit, BeginVote, BeginPost, BeginPay, BeginConfirm,
                BeginConfirmVote, BeginGetPay, BeginOffer, database
  <2>. QED
    BY <1>1, <1>3, <2>1
<1>8. CASE Environment
  <2>1. ASSUME NEW t \in Tokens, Expire(t) \/ RefuseUpvote(t)
        PROVE  Good
    BY <1>2, <2>1 DEF Expire, RefuseUpvote
  <2>2. ASSUME NEW t \in Tokens, NEW n \in Notes, OfferOnSocket(t, n)
        PROVE  Good
    BY <1>3, <2>2 DEF OfferOnSocket
  <2>3. ASSUME \/ \E h \in Invoices : Settle(h) \/ \E sats \in Amounts : Discover(h, sats)
               \/ Crash
        PROVE  Good
    BY <1>1, <2>3 DEF Settle, Discover, Crash, database
  <2>. QED
    BY <1>5, <1>8, <2>1, <2>2, <2>3 DEF Environment
<1>. QED
  BY <1>1, <1>4, <1>6, <1>7, <1>8 DEF Next, vars

-----------------------------------------------------------------------------
(* The invariant *)

LEMMA SInvInit == Init => SInv
<1>. SUFFICES ASSUME Init PROVE SInv
  OBVIOUS
<1>1. \A r \in Slots : req[r].at = "idle"
  BY FreeFacts DEF Init
<1>2. NoteInv
  <2>1. \A t \in Tokens : pending[t].state = "unused"
    BY DEF Init, NoPending
  <2>. QED
    BY <1>1, <2>1 DEF NoteInv
<1>3. OneReplaceable
  <2>1. \A n \in Notes : Stored(n) => n \in Seeded
    BY DEF Init, Stored, NoRow
  <2>. QED
    BY <2>1, SupersedesAssumption DEF OneReplaceable
<1>4. PublishedIsStored
  BY <1>1 DEF PublishedIsStored
<1>. QED
  BY <1>1, <1>2, <1>3, <1>4, IInvInit DEF SInv

LEMMA SInvStep == SInv /\ [Next]_vars => SInv'
<1>. SUFFICES ASSUME SInv, [Next]_vars PROVE SInv'
  OBVIOUS
<1>1. IInv' /\ TypeOK /\ Carries /\ NoteInv /\ OneReplaceable
  BY IInvStep DEF SInv, IInv
<1>2. OneReplaceable'
  BY <1>1, ReplaceableStep
<1>3. \A n \in Notes : Kept(n) => Kept(n)'
  BY <1>1, KeptStays
<1>4. \A t \in Tokens : pending'[t].state = "live" => pending'[t].note \in Notes
  BY <1>1, PendingNote DEF NoteInv
<1>. DEFINE Bound(q) == \/ q.at \in {"retire", "publish", "answer"}
                        \/ q.at \in {"verify", "consume", "store"} /\ q.route = "vote"
            Ok(x) ==
       /\ req'[x].at \in {"verify", "consume", "store", "retire", "publish", "answer"} =>
            req'[x].note \in Notes
       /\ Bound(req'[x]) => Kept(req[x].note)'
<1>b. ASSUME NEW x \in Slots, Bound(req[x])
      PROVE  Kept(req[x].note) /\ req[x].note \in Notes
  BY <1>b DEF SInv, NoteInv, PublishedIsStored
<1>k. ASSUME NEW x \in Slots, NEW n \in Notes, Kept(n), req'[x].note = n
      PROVE  Kept(req[x].note)'
  <2>1. Kept(n)'
    BY <1>3, <1>k
  <2>. QED
    BY <1>k, <2>1 DEF Kept, Stored, Superseded
<1>5. ASSUME NEW x \in Slots, req'[x] = req[x]
      PROVE  Ok(x)
  BY <1>1, <1>5, <1>b, <1>k DEF NoteInv
<1>6. \A x \in Slots : Ok(x)
  <2>1. ASSUME NEW r \in Slots, Begin(r)
        PROVE  \A x \in Slots : Ok(x)
    <3>1. Ok(r)
      <4>1. /\ req'[r].at \in {"verify", "price"}
            /\ req'[r].at = "verify" => /\ req'[r].note \in Notes
                                        /\ req'[r].route = "vote" => Stored(req'[r].note)
        BY <1>1, <2>1, BeginNote
      <4>2. ASSUME Bound(req'[r])
            PROVE  Kept(req[r].note)'
        <5>1. PICK n \in Notes : n = req'[r].note /\ Stored(n)
          BY <4>1, <4>2
        <5>. QED
          BY <1>k, <5>1 DEF Kept
      <4>. QED
        BY <4>1, <4>2
    <3>. QED
      BY <1>1, <1>5, <2>1, <3>1, BeginNote
  <2>2. ASSUME NEW r \in Slots, Step(r)
        PROVE  \A x \in Slots : Ok(x)
    <3>1. ASSUME Bound(req'[r])
          PROVE  Kept(req[r].note)'
      <4>1. PICK n \in Notes : n = req[r].note /\ n = req'[r].note
        BY <1>1, <2>2, <3>1, StepNote DEF NoteInv
      <4>2. CASE StoreNew(r)
        <5>1. Stored(n)'
          BY <1>1, <4>1, <4>2, StoreNewRows
        <5>. QED
          BY <4>1, <5>1 DEF Kept, Stored
      <4>3. CASE Bound(req[r]) \/ (req[r].at = "store" /\ Kept(req[r].note))
        BY <1>b, <1>k, <4>1, <4>3
      <4>4. \/ StoreNew(r) \/ Bound(req[r])
            \/ req[r].at = "store" /\ Kept(req[r].note)
        BY <1>1, <2>2, <3>1, StepNote
      <4>. QED
        BY <4>2, <4>3, <4>4
    <3>2. Ok(r)
      BY <1>1, <2>2, <3>1, StepNote DEF NoteInv
    <3>. QED
      BY <1>1, <1>5, <2>2, <3>2, StepNote
  <2>3. CASE Crash
    <3>1. \A x \in Slots : req'[x].at = "idle"
      BY <2>3, FreeFacts DEF Crash
    <3>. QED
      BY <3>1
  <2>4. CASE UNCHANGED req
    BY <1>5, <2>4
  <2>5. CASE Environment /\ ~Crash
    <3>1. UNCHANGED req
      BY <2>5 DEF Environment, Settle, Discover, Expire, RefuseUpvote, OfferOnSocket, Cleanup
    <3>. QED
      BY <2>4, <3>1
  <2>. QED
    BY <2>1, <2>2, <2>3, <2>4, <2>5 DEF Next, vars
<1>7. NoteInv'
  BY <1>4, <1>6 DEF NoteInv
<1>8. PublishedIsStored' /\ \A r \in Slots : req'[r].at = "retire" => Kept(req[r].note)'
  BY <1>6 DEF PublishedIsStored
<1>. QED
  BY <1>1, <1>2, <1>7, <1>8 DEF SInv

LEMMA SInvHolds == Spec => []SInv
  BY SInvInit, SInvStep, PTL DEF Spec

-----------------------------------------------------------------------------
(* The theorems *)

\* store_event on the paid routes: of the replaceable events of an author and kind at most
\* one is stored, whichever requests store them at the same time.
THEOREM OnlyLatest == Spec => []OneReplaceable
<1>1. SInv => OneReplaceable
  BY DEF SInv
<1>. QED
  BY <1>1, SInvHolds, PTL

\* A note that is broadcast, or that a request is answered 200 for, is committed, or a later
\* event of its author is in its place.
THEOREM Published == Spec => []PublishedIsStored
<1>1. SInv => PublishedIsStored
  BY DEF SInv
<1>. QED
  BY <1>1, SInvHolds, PTL

\* No step of any request, and no crash, takes a stored event away for an older one.
THEOREM Monotone == Spec => NeverReverts
<1>1. SInv /\ [Next]_vars => [\A n \in Notes : Kept(n) => Kept(n)']_vars
  BY KeptStays DEF SInv, IInv
<1>. QED
  BY <1>1, SInvHolds, PTL DEF Spec, NeverReverts

-----------------------------------------------------------------------------
(* What a request knows of its invoice and its token *)

\* Behind the gate no note is credited more than the price, and past the gate the price
\* is covered by the invoice.
CoverInv ==
  /\ GateCreditCovered
  /\ \A r \in Slots : req[r].route \in GateRoutes =>
       /\ req[r].at \in {"verify", "consume", "store"} => req[r].credit <= req[r].sats
       /\ req[r].at \in {"consume", "store"} => req[r].sats <= invoice[req[r].hash].amount

\* A request q on a token route holds a token that was offered, and its row in the pending
\* table p, which may be gone, held the note or the vote the request is about.
HoldsToken(q, p) ==
  q.route \in TokenRoutes =>
    /\ q.token \in Tokens
    /\ p[q.token].state # "unused"
    /\ q.route \in {"pay", "confirm"} => q.note = p[q.token].note
    /\ q.route = "confirm_vote" => p[q.token].kind = "vote"

Underway == {"verify", "consume", "store", "retire"}

TokenInv ==
  \A r \in Slots :
    /\ req[r].at \in Underway => HoldsToken(req[r], pending)
    /\ req[r].at = "retire" => req[r].route \in {"pay", "confirm"}

\* A request that goes on keeps everything but its step.
LEMMA GotoCarries ==
  ASSUME TypeOK, NEW r \in Slots, NEW step, Goto(r, step)
  PROVE  /\ req'[r] = [req[r] EXCEPT !.at = step]
         /\ \A x \in Slots \ {r} : req'[x] = req[x]
  BY DEF Goto, TypeOK

\* Where a step of a request leads: past the gate only if the invoice covers the price, and
\* to "retire" only on the routes of a pending note.
LEMMA StepCarries ==
  ASSUME TypeOK, NEW r \in Slots, Step(r)
  PROVE  /\ \A x \in Slots \ {r} : req'[x] = req[x]
         /\ req'[r].at \in Underway =>
              /\ req[r].at \in Underway
              /\ req'[r] = [req[r] EXCEPT !.at = req'[r].at]
         /\ req'[r].at # "verify"
         /\ req'[r].at = "consume" => req[r].at = "verify" /\ Covers(req[r].hash, req[r])
         /\ req'[r].at = "store" => req[r].at = "consume"
         /\ req'[r].at = "retire" => req[r].route \in {"pay", "confirm"}
<1>g. ASSUME NEW step, Goto(r, step)
      PROVE  req'[r].at = step
  BY <1>g, GotoFacts
<1>1. CASE \/ Challenge(r) \/ StoreNoEvent(r) \/ VoteRowGone(r) \/ VoteTargetMissing(r)
           \/ PublishFails(r) \/ Answer200(r) \/ LockTimeout(r) \/ InvoiceFails(r) \/ Attach(r)
  <2>1. Close(r)
    BY <1>1 DEF Challenge, StoreNoEvent, VoteRowGone, VoteTargetMissing, PublishFails, Answer200,
                LockTimeout, InvoiceFails, Attach
  <2>. QED
    BY <2>1, CloseFacts, FreeFacts DEF Underway
<1>2. CASE Refuse(r) \/ Replay(r)
  <2>1. Goto(r, "challenge") \/ Close(r)
    BY <1>2 DEF Refuse, Replay
  <2>2. CASE Goto(r, "challenge")
    BY <2>2, <1>g, GotoCarries DEF Underway
  <2>3. CASE Close(r)
    BY <2>3, CloseFacts, FreeFacts DEF Underway
  <2>. QED
    BY <2>1, <2>2, <2>3
<1>3. CASE Verify(r)
  <2>1. Goto(r, "consume") /\ req[r].at = "verify" /\ Covers(req[r].hash, req[r])
    BY <1>3 DEF Verify
  <2>. QED
    BY <2>1, <1>g, GotoCarries DEF Underway
<1>4. CASE Consume(r)
  <2>1. Goto(r, "store") /\ req[r].at = "consume"
    BY <1>4 DEF Consume
  <2>. QED
    BY <2>1, <1>g, GotoCarries DEF Underway
<1>5. CASE StoreNew(r) \/ StoreDuplicate(r)
  <2>1. Goto(r, AfterStore(r)) /\ req[r].at = "store"
    BY <1>5 DEF StoreNew, StoreDuplicate
  <2>2. CASE req[r].route \in {"pay", "confirm"}
    <3>1. Goto(r, "retire")
      BY <2>1, <2>2 DEF AfterStore
    <3>. QED
      BY <2>1, <2>2, <3>1, <1>g, GotoCarries DEF Underway
  <2>3. CASE req[r].route \notin {"pay", "confirm"}
    <3>1. Goto(r, "publish")
      BY <2>1, <2>3 DEF AfterStore
    <3>. QED
      BY <3>1, <1>g, GotoCarries DEF Underway
  <2>. QED
    BY <2>2, <2>3
<1>6. CASE CastVote(r) \/ ConfirmVote(r) \/ Retire(r) \/ Publish(r)
  <2>1. Goto(r, "answer") \/ Goto(r, "publish")
    BY <1>6 DEF CastVote, ConfirmVote, Retire, Publish
  <2>. QED
    BY <2>1, <1>g, GotoCarries DEF Underway
<1>7. CASE InvoiceCreated(r)
  <2>1. PICK h \in Invoices : req' = [req EXCEPT ![r].at = "attach", ![r].hash = h]
    BY <1>7 DEF InvoiceCreated
  <2>2. req'[r].at = "attach" /\ \A x \in Slots \ {r} : req'[x] = req[x]
    BY <2>1 DEF TypeOK, Requests
  <2>. QED
    BY <2>2 DEF Underway
<1>. QED
  BY <1>1, <1>2, <1>3, <1>4, <1>5, <1>6, <1>7 DEF Step

\* The step is the one field that changes when a request goes on.
LEMMA SameFields ==
  ASSUME TypeOK, NEW r \in Slots, req'[r] = [req[r] EXCEPT !.at = req'[r].at]
  PROVE  /\ req'[r].route = req[r].route /\ req'[r].note = req[r].note
         /\ req'[r].hash = req[r].hash /\ req'[r].token = req[r].token
         /\ req'[r].sats = req[r].sats /\ req'[r].credit = req[r].credit
  BY DEF TypeOK, Requests

\* A request that begins: its credit is no more than its price behind the gate, and a token
\* it brings is of a live row with what it is about.
Fresh(q) ==
  /\ q.at = "verify" \/ q.at = "price"
  /\ q.at = "verify" => /\ q.route \in GateRoutes => q.credit <= q.sats
                       /\ HoldsToken(q, pending)

LEMMA BeginCarries ==
  ASSUME TypeOK, NEW r \in Slots, Begin(r)
  PROVE  Fresh(req'[r]) /\ \A x \in Slots \ {r} : req'[x] = req[x]
<1>a. Price \in Nat /\ Amounts \subseteq Nat
  BY PriceAssumption, AmountsAssumption
<1>p. \A t \in Tokens : PriceOf(pending[t]) \in Nat
  BY <1>a DEF PriceOf, TypeOK, PendingRows
<1>o. ASSUME NEW q, Open(r, q)
      PROVE  req'[r] = q /\ \A x \in Slots \ {r} : req'[x] = req[x]
  BY <1>o DEF Open, TypeOK
<1>1. ASSUME NEW n \in Notes, NEW h \in Invoices, NEW sats \in Amounts, BeginSubmit(r, n, h, sats)
      PROVE  \E q : Open(r, q) /\ Fresh(q)
  <2>. DEFINE q == [Free EXCEPT !.at = "verify", !.route = "submit", !.note = n, !.hash = h,
                                !.sats = sats, !.credit = sats]
  <2>1. q.at = "verify" /\ q.route = "submit" /\ q.credit = sats /\ q.sats = sats
    BY DEF Free
  <2>2. Fresh(q)
    BY <1>a, <2>1 DEF Fresh, HoldsToken, TokenRoutes
  <2>. QED
    BY <1>1, <2>2 DEF BeginSubmit
<1>2. ASSUME NEW n \in Notes, NEW h \in Invoices, BeginPost(r, n, h)
      PROVE  \E q : Open(r, q) /\ Fresh(q)
  <2>. DEFINE q == [Free EXCEPT !.at = "verify", !.route = "post", !.note = n, !.hash = h,
                                !.sats = Price]
  <2>1. q.at = "verify" /\ q.route = "post" /\ q.credit = 0 /\ q.sats = Price
    BY DEF Free
  <2>2. Fresh(q)
    BY <1>a, <2>1 DEF Fresh, HoldsToken, TokenRoutes
  <2>. QED
    BY <1>2, <2>2 DEF BeginPost
<1>3. ASSUME NEW t \in Tokens, NEW h \in Invoices, BeginPay(r, t, h)
      PROVE  \E q : Open(r, q) /\ Fresh(q)
  <2>. DEFINE q == [Free EXCEPT !.at = "verify", !.route = "pay", !.kind = pending[t].kind,
                                !.note = pending[t].note, !.hash = h, !.token = t,
                                !.sats = PriceOf(pending[t])]
  <2>1. /\ q.at = "verify" /\ q.route = "pay" /\ q.credit = 0 /\ q.sats = PriceOf(pending[t])
        /\ q.token = t /\ q.note = pending[t].note
    BY DEF Free
  <2>2. pending[t].state = "live" /\ Open(r, q)
    BY <1>3 DEF BeginPay
  <2>3. HoldsToken(q, pending)
    BY <2>1, <2>2 DEF HoldsToken
  <2>4. Fresh(q)
    BY <1>p, <2>1, <2>3 DEF Fresh
  <2>. QED
    BY <2>2, <2>4
<1>4. ASSUME NEW t \in Tokens, NEW h \in Invoices, BeginConfirm(r, t, h)
      PROVE  \E q : Open(r, q) /\ Fresh(q)
  <2>. DEFINE q == [Free EXCEPT !.at = "verify", !.route = "confirm", !.kind = pending[t].kind,
                                !.note = pending[t].note, !.hash = h, !.token = t,
                                !.credit = PriceOf(pending[t])]
  <2>1. /\ q.at = "verify" /\ q.route = "confirm" /\ q.token = t /\ q.note = pending[t].note
    BY DEF Free
  <2>2. pending[t].state = "live" /\ Open(r, q)
    BY <1>4 DEF BeginConfirm
  <2>3. HoldsToken(q, pending)
    BY <2>1, <2>2 DEF HoldsToken
  <2>4. Fresh(q)
    BY <2>1, <2>3 DEF Fresh, GateRoutes
  <2>. QED
    BY <2>2, <2>4
<1>5. ASSUME NEW n \in Notes, NEW h \in Invoices, NEW sats \in Amounts, BeginVote(r, n, h, sats)
      PROVE  \E q : Open(r, q) /\ Fresh(q)
  <2>. DEFINE q == [Free EXCEPT !.at = "verify", !.route = "vote", !.kind = "vote", !.note = n,
                                !.hash = h, !.sats = sats, !.seen = row[n]]
  <2>1. q.at = "verify" /\ q.route = "vote" /\ q.credit = 0 /\ q.sats = sats
    BY DEF Free
  <2>2. Fresh(q)
    BY <1>a, <2>1 DEF Fresh, HoldsToken, TokenRoutes
  <2>. QED
    BY <1>5, <2>2 DEF BeginVote
<1>6. ASSUME NEW t \in Tokens, NEW n \in Notes, NEW h \in Invoices, BeginConfirmVote(r, t, n, h)
      PROVE  \E q : Open(r, q) /\ Fresh(q)
  <2>. DEFINE q == [Free EXCEPT !.at = "verify", !.route = "confirm_vote", !.kind = "vote",
                                !.note = n, !.hash = h, !.token = t,
                                !.sats = PriceOf(pending[t])]
  <2>1. q.at = "verify" /\ q.route = "confirm_vote" /\ q.token = t
    BY DEF Free
  <2>2. pending[t].state = "live" /\ pending[t].kind = "vote" /\ Open(r, q)
    BY <1>6 DEF BeginConfirmVote
  <2>3. HoldsToken(q, pending)
    BY <2>1, <2>2 DEF HoldsToken
  <2>4. Fresh(q)
    BY <2>1, <2>3 DEF Fresh, GateRoutes
  <2>. QED
    BY <2>2, <2>4
<1>7. ASSUME NEW t \in Tokens, BeginGetPay(r, t)
      PROVE  \E q : Open(r, q) /\ Fresh(q)
  <2>. DEFINE q == [Free EXCEPT !.at = "price", !.route = "get_pay", !.token = t, !.sats = Price]
  <2>1. q.at = "price"
    BY DEF Free
  <2>. QED
    BY <1>7, <2>1 DEF BeginGetPay, Fresh
<1>8. ASSUME NEW t \in Tokens, NEW kind, NEW n \in Notes, NEW sats, BeginOffer(r, t, kind, n, sats)
      PROVE  \E q : Open(r, q) /\ Fresh(q)
  <2>. DEFINE q == [Free EXCEPT !.at = "price", !.route = "offer", !.token = t, !.note = n,
                                !.kind = kind, !.sats = IF sats = 0 THEN Price ELSE sats]
  <2>1. q.at = "price"
    BY DEF Free
  <2>. QED
    BY <1>8, <2>1 DEF BeginOffer, Fresh
<1>9. PICK q : Open(r, q) /\ Fresh(q)
  BY <1>1, <1>2, <1>3, <1>4, <1>5, <1>6, <1>7, <1>8 DEF Begin
<1>. QED
  BY <1>9, <1>o

-----------------------------------------------------------------------------
(* Credit is covered *)

\* LNBits never changes the amount of an invoice it issued.
LEMMA AmountsStay ==
  ASSUME TypeOK, [Next]_vars
  PROVE  \A h \in Invoices : invoice'[h].amount >= invoice[h].amount
<1>. DEFINE Good == \A h \in Invoices : invoice'[h].amount >= invoice[h].amount
<1>1. CASE UNCHANGED invoice
  BY <1>1 DEF TypeOK
<1>2. ASSUME NEW h \in Invoices, NEW sats \in Nat, Issue(h, sats)
      PROVE  Good
  BY <1>2 DEF Issue, TypeOK
<1>3. ASSUME NEW h \in Invoices, Settle(h)
      PROVE  Good
  BY <1>3 DEF Settle, TypeOK
<1>4. ASSUME NEW r \in Slots, Step(r)
      PROVE  Good
  <2>1. req[r].sats \in Nat
    BY DEF TypeOK, Requests
  <2>2. CASE Challenge(r) \/ InvoiceCreated(r)
    <3>1. UNCHANGED invoice \/ \E h \in Invoices : Issue(h, req[r].sats)
      BY <2>2 DEF Challenge, InvoiceCreated
    <3>. QED
      BY <1>1, <1>2, <2>1, <3>1
  <2>3. CASE ~(Challenge(r) \/ InvoiceCreated(r))
    <3>1. UNCHANGED invoice
      BY <1>4, <2>3 DEF Step, Verify, Refuse, Consume, Replay, StoreNew, StoreDuplicate,
              StoreNoEvent, CastVote, VoteRowGone, ConfirmVote, VoteTargetMissing, Retire,
              Publish, PublishFails, Answer200, LockTimeout, InvoiceFails, Attach
    <3>. QED
      BY <1>1, <3>1
  <2>. QED
    BY <2>2, <2>3
<1>5. ASSUME NEW r \in Slots, Begin(r)
      PROVE  UNCHANGED invoice
  BY <1>5 DEF Begin, BeginSubmit, BeginVote, BeginPost, BeginPay, BeginConfirm,
              BeginConfirmVote, BeginGetPay, BeginOffer
<1>6. ASSUME NEW h \in Invoices, NEW sats \in Amounts, Discover(h, sats)
      PROVE  Good
  BY <1>2, <1>6, AmountsAssumption DEF Discover
<1>7. CASE Environment
  <2>1. CASE \/ \E t \in Tokens : Expire(t) \/ RefuseUpvote(t)
                                  \/ \E n \in Notes : OfferOnSocket(t, n)
             \/ Cleanup \/ Crash
    BY <1>1, <2>1 DEF Expire, RefuseUpvote, OfferOnSocket, Cleanup, Crash
  <2>. QED
    BY <1>3, <1>6, <1>7, <2>1 DEF Environment
<1>. QED
  BY <1>1, <1>4, <1>5, <1>7 DEF Next, vars

\* What is committed against an invoice is committed by a request at "store" that holds it.
LEMMA FundedStep ==
  ASSUME [Next]_vars
  PROVE  \/ UNCHANGED funded
         \/ \E r \in Slots : /\ Step(r)
                             /\ req[r].at = "store"
                             /\ UNCHANGED invoice
                             /\ \/ CommitWith(r, req[r].credit)
                                \/ CommitWith(r, 0)
<1>1. ASSUME NEW r \in Slots, Step(r), StoreNew(r) \/ CastVote(r) \/ ConfirmVote(r)
      PROVE  /\ req[r].at = "store"
             /\ UNCHANGED invoice
             /\ CommitWith(r, req[r].credit) \/ CommitWith(r, 0)
  BY <1>1 DEF StoreNew, CastVote, ConfirmVote
<1>2. ASSUME NEW r \in Slots, Step(r), ~(StoreNew(r) \/ CastVote(r) \/ ConfirmVote(r))
      PROVE  UNCHANGED funded
  BY <1>2 DEF Step, Verify, Refuse, Consume, Replay, Challenge, StoreDuplicate, StoreNoEvent,
              VoteRowGone, VoteTargetMissing, Retire, Publish, PublishFails, Answer200,
              LockTimeout, InvoiceCreated, InvoiceFails, Attach
<1>3. ASSUME NEW r \in Slots, Begin(r)
      PROVE  UNCHANGED funded
  BY <1>3 DEF Begin, BeginSubmit, BeginVote, BeginPost, BeginPay, BeginConfirm,
              BeginConfirmVote, BeginGetPay, BeginOffer
<1>4. CASE Environment
  BY <1>4 DEF Environment, Settle, Discover, Expire, RefuseUpvote, OfferOnSocket, Cleanup, Crash
<1>. QED
  BY <1>1, <1>2, <1>3, <1>4 DEF Next, vars

\* Any step of the program keeps the credit of the requests covered, and of those committed.
LEMMA CoverStep ==
  ASSUME IInv, CoverInv, [Next]_vars
  PROVE  CoverInv'
<1>t. TypeOK /\ Carries
  BY DEF IInv
<1>a. \A h \in Invoices : /\ invoice'[h].amount >= invoice[h].amount
                          /\ invoice[h].amount \in Nat /\ invoice'[h].amount \in Nat
  <2>1. TypeOK'
    BY IInvStep DEF IInv
  <2>. QED
    BY <1>t, <2>1, AmountsStay DEF TypeOK
<1>n. \A r \in Slots : req[r].sats \in Nat /\ req[r].credit \in Nat
  BY <1>t DEF TypeOK, Requests
<1>. DEFINE Ok(x) ==
       req'[x].route \in GateRoutes =>
         /\ req'[x].at \in {"verify", "consume", "store"} => req'[x].credit <= req'[x].sats
         /\ req'[x].at \in {"consume", "store"} => req'[x].sats <= invoice'[req'[x].hash].amount
<1>1. ASSUME NEW x \in Slots, req'[x] = req[x]
      PROVE  Ok(x)
  <2>1. req[x].at \in {"consume", "store"} => req[x].hash \in Invoices
    BY <1>t DEF Carries
  <2>. QED
    BY <1>1, <1>a, <1>n, <2>1 DEF CoverInv
<1>2. ASSUME NEW r \in Slots, Begin(r)
      PROVE  \A x \in Slots : Ok(x)
  <2>1. Fresh(req'[r]) /\ \A x \in Slots \ {r} : req'[x] = req[x]
    BY <1>2, <1>t, BeginCarries
  <2>2. Ok(r)
    BY <2>1 DEF Fresh
  <2>. QED
    BY <1>1, <2>1, <2>2
<1>3. ASSUME NEW r \in Slots, Step(r)
      PROVE  \A x \in Slots : Ok(x)
  <2>1. \A x \in Slots \ {r} : req'[x] = req[x]
    BY <1>t, <1>3, StepCarries
  <2>2. ASSUME req'[r].at \in {"verify", "consume", "store"}, req'[r].route \in GateRoutes
        PROVE  /\ req'[r].credit <= req'[r].sats
               /\ req'[r].sats <= invoice'[req'[r].hash].amount
    <3>1. /\ req[r].at \in {"verify", "consume"}
          /\ req'[r].at = "consume" => req[r].at = "verify" /\ Covers(req[r].hash, req[r])
          /\ req'[r].at = "store" => req[r].at = "consume"
          /\ req'[r].at # "verify"
          /\ req'[r] = [req[r] EXCEPT !.at = req'[r].at]
      BY <1>t, <1>3, <2>2, StepCarries DEF Underway
    <3>2. /\ req'[r].route = req[r].route /\ req'[r].hash = req[r].hash
          /\ req'[r].sats = req[r].sats /\ req'[r].credit = req[r].credit
      BY <1>t, <3>1, SameFields
    <3>3. req[r].hash \in Invoices
      BY <1>t, <3>1 DEF Carries
    <3>4. req[r].sats <= invoice[req[r].hash].amount
      BY <2>2, <3>1, <3>2 DEF CoverInv, Covers
    <3>5. req[r].credit <= req[r].sats
      BY <2>2, <3>1, <3>2 DEF CoverInv
    <3>. QED
      BY <1>a, <1>n, <3>2, <3>3, <3>4, <3>5
  <2>. QED
    BY <1>1, <2>1, <2>2
<1>4. ASSUME Environment \/ UNCHANGED vars
      PROVE  \A x \in Slots : Ok(x)
  <2>1. CASE UNCHANGED req
    BY <1>1, <2>1
  <2>2. CASE Crash
    <3>1. \A x \in Slots : req'[x].at = "idle"
      BY <2>2, FreeFacts DEF Crash
    <3>. QED
      BY <3>1
  <2>. QED
    BY <1>4, <2>1, <2>2 DEF Environment, Settle, Discover, Expire, RefuseUpvote, OfferOnSocket,
                            Cleanup, vars
<1>5. GateCreditCovered'
  <2>1. CASE UNCHANGED funded
    <3>1. ASSUME NEW h \in Invoices, NEW i \in DOMAIN funded[h], funded[h][i].route \in GateRoutes
          PROVE  funded[h][i].credit <= invoice'[h].amount
      <4>1. funded[h][i].credit <= invoice[h].amount
        BY <3>1 DEF CoverInv, GateCreditCovered
      <4>2. funded[h][i].credit \in Nat
        <5>1. funded[h] \in Seq(Effects)
          BY <1>t DEF TypeOK
        <5>2. funded[h][i] \in Effects
          BY <5>1
        <5>. QED
          BY <5>2 DEF Effects
      <4>. QED
        BY <1>a, <4>1, <4>2
    <3>. QED
      BY <2>1, <3>1 DEF GateCreditCovered
  <2>2. ASSUME NEW r \in Slots, NEW credit, req[r].at = "store", UNCHANGED invoice,
               CommitWith(r, credit), credit = 0 \/ credit = req[r].credit
        PROVE  GateCreditCovered'
    <3>1. req[r].hash \in Invoices
      BY <1>t, <2>2 DEF Carries
    <3>2. req[r].route \in GateRoutes => credit <= invoice[req[r].hash].amount
      <4>1. req[r].route \in GateRoutes =>
              req[r].credit <= req[r].sats /\ req[r].sats <= invoice[req[r].hash].amount
        BY <2>2 DEF CoverInv
      <4>. QED
        BY <1>a, <1>n, <2>2, <3>1, <4>1
    <3>. DEFINE e == [route |-> req[r].route, credit |-> credit]
    <3>3. funded' = [funded EXCEPT ![req[r].hash] = Append(@, e)]
      BY <2>2 DEF CommitWith
    <3>4. ASSUME NEW h \in Invoices, NEW i \in DOMAIN funded'[h],
                 funded'[h][i].route \in GateRoutes
          PROVE  funded'[h][i].credit <= invoice'[h].amount
      <4>0. funded[h] \in Seq(Effects)
        BY <1>t DEF TypeOK
      <4>1. CASE h = req[r].hash
        <5>1. funded'[h] = Append(funded[h], e)
          BY <1>t, <3>3, <4>1 DEF TypeOK
        <5>2. funded'[h][i] = e \/ (i \in DOMAIN funded[h] /\ funded'[h][i] = funded[h][i])
          BY <4>0, <5>1
        <5>3. CASE funded'[h][i] = e
          BY <2>2, <3>2, <3>4, <4>1, <5>3
        <5>4. CASE i \in DOMAIN funded[h] /\ funded'[h][i] = funded[h][i]
          BY <2>2, <3>4, <5>4 DEF CoverInv, GateCreditCovered
        <5>. QED
          BY <5>2, <5>3, <5>4
      <4>2. CASE h # req[r].hash
        <5>1. funded'[h] = funded[h]
          BY <1>t, <3>3, <4>2 DEF TypeOK
        <5>. QED
          BY <2>2, <3>4, <5>1 DEF CoverInv, GateCreditCovered
      <4>. QED
        BY <4>1, <4>2
    <3>. QED
      BY <3>4 DEF GateCreditCovered
  <2>. QED
    BY <2>1, <2>2, FundedStep
<1>. QED
  BY <1>2, <1>3, <1>4, <1>5 DEF CoverInv, Next

-----------------------------------------------------------------------------
(* Tokens and their rows *)

\* A pending row never changes what it is about, and its token is never offered again.
LEMMA PendingStays ==
  ASSUME TypeOK, [Next]_vars
  PROVE  \A t \in Tokens : pending[t].state # "unused" =>
           /\ pending'[t].state # "unused"
           /\ pending'[t].note = pending[t].note
           /\ pending'[t].kind = pending[t].kind
<1>. DEFINE Good == \A t \in Tokens : pending[t].state # "unused" =>
                      /\ pending'[t].state # "unused"
                      /\ pending'[t].note = pending[t].note
                      /\ pending'[t].kind = pending[t].kind
<1>1. CASE UNCHANGED pending
  BY <1>1
<1>2. ASSUME NEW t, NEW s \in {"expired", "gone"}, pending' = [pending EXCEPT ![t].state = s]
      PROVE  Good
  BY <1>2 DEF TypeOK, PendingRows
<1>3. ASSUME NEW t \in Tokens, NEW kind, NEW n \in Notes, NEW sats, Insert(t, kind, n, sats)
      PROVE  Good
  BY <1>3 DEF Insert, TypeOK
<1>4. ASSUME NEW r \in Slots, Attach(r)
      PROVE  Good
  <2>1. CASE pending' = [pending EXCEPT ![req[r].token].hash = req[r].hash]
    BY <2>1 DEF TypeOK, PendingRows
  <2>. QED
    BY <1>1, <1>4, <2>1 DEF Attach
<1>5. CASE Cleanup
  <2>1. ASSUME NEW t \in Tokens
        PROVE  /\ pending[t].state # "unused" => pending'[t].state # "unused"
               /\ pending'[t].note = pending[t].note
               /\ pending'[t].kind = pending[t].kind
    <3>1. pending[t] \in PendingRows
      BY DEF TypeOK
    <3>2. \/ pending'[t] = pending[t]
          \/ pending'[t] = [pending[t] EXCEPT !.state = "gone"]
      BY <1>5 DEF Cleanup
    <3>3. CASE pending'[t] = [pending[t] EXCEPT !.state = "gone"]
      BY <3>1, <3>3 DEF PendingRows
    <3>. QED
      BY <3>2, <3>3
  <2>. QED
    BY <2>1
<1>6. ASSUME NEW r \in Slots, Step(r), ~Attach(r)
      PROVE  Good
  <2>1. CASE ConfirmVote(r) \/ VoteTargetMissing(r) \/ Retire(r)
    BY <1>2, <2>1 DEF ConfirmVote, VoteTargetMissing, Retire
  <2>2. CASE ~(ConfirmVote(r) \/ VoteTargetMissing(r) \/ Retire(r))
    <3>1. UNCHANGED pending
      BY <1>6, <2>2 DEF Step, Verify, Refuse, Consume, Replay, Challenge, StoreNew,
              StoreDuplicate, StoreNoEvent, CastVote, VoteRowGone, Publish, PublishFails,
              Answer200, LockTimeout, InvoiceCreated, InvoiceFails, database
    <3>. QED
      BY <1>1, <3>1
  <2>. QED
    BY <2>1, <2>2
<1>7. ASSUME NEW r \in Slots, Begin(r)
      PROVE  Good
  <2>1. UNCHANGED pending \/ \E t \in Tokens, kind \in {"note", "vote"}, n \in Notes,
                                sats \in Amounts \cup {0} : Insert(t, kind, n, sats)
    BY <1>7 DEF Begin, BeginSubmit, BeginVote, BeginPost, BeginPay, BeginConfirm,
                BeginConfirmVote, BeginGetPay, BeginOffer, database
  <2>. QED
    BY <1>1, <1>3, <2>1
<1>8. CASE Environment
  <2>1. ASSUME NEW t \in Tokens, Expire(t) \/ RefuseUpvote(t)
        PROVE  Good
    BY <1>2, <2>1 DEF Expire, RefuseUpvote
  <2>2. ASSUME NEW t \in Tokens, NEW n \in Notes, OfferOnSocket(t, n)
        PROVE  Good
    BY <1>3, <2>2 DEF OfferOnSocket
  <2>3. ASSUME \/ \E h \in Invoices : Settle(h) \/ \E sats \in Amounts : Discover(h, sats)
               \/ Crash
        PROVE  Good
    BY <1>1, <2>3 DEF Settle, Discover, Crash, database
  <2>. QED
    BY <1>5, <1>8, <2>1, <2>2, <2>3 DEF Environment
<1>. QED
  BY <1>1, <1>4, <1>6, <1>7, <1>8 DEF Next, vars

\* So what a request knew of its token stays true, whoever deletes the row meanwhile.
LEMMA TokenStep ==
  ASSUME TypeOK, TokenInv, [Next]_vars
  PROVE  TokenInv'
<1>. DEFINE Ok(x) == /\ req'[x].at \in Underway => HoldsToken(req'[x], pending')
                     /\ req'[x].at = "retire" => req'[x].route \in {"pay", "confirm"}
<1>1. ASSUME NEW q, HoldsToken(q, pending)
      PROVE  HoldsToken(q, pending')
  BY <1>1, PendingStays DEF HoldsToken
<1>2. ASSUME NEW x \in Slots, req'[x] = req[x]
      PROVE  Ok(x)
  BY <1>1, <1>2 DEF TokenInv
<1>3. ASSUME NEW r \in Slots, Begin(r)
      PROVE  \A x \in Slots : Ok(x)
  <2>1. Fresh(req'[r]) /\ \A x \in Slots \ {r} : req'[x] = req[x]
    BY <1>3, BeginCarries
  <2>2. Ok(r)
    BY <1>1, <2>1 DEF Fresh, Underway
  <2>. QED
    BY <1>2, <2>1, <2>2
<1>4. ASSUME NEW r \in Slots, Step(r)
      PROVE  \A x \in Slots : Ok(x)
  <2>1. \A x \in Slots \ {r} : req'[x] = req[x]
    BY <1>4, StepCarries
  <2>2. ASSUME req'[r].at \in Underway
        PROVE  Ok(r)
    <3>1. /\ req[r].at \in Underway
          /\ req'[r] = [req[r] EXCEPT !.at = req'[r].at]
          /\ req'[r].at = "retire" => req[r].route \in {"pay", "confirm"}
      BY <1>4, <2>2, StepCarries
    <3>2. /\ req'[r].route = req[r].route /\ req'[r].note = req[r].note
          /\ req'[r].token = req[r].token
      BY <3>1, SameFields
    <3>3. HoldsToken(req[r], pending')
      BY <1>1, <3>1 DEF TokenInv
    <3>4. HoldsToken(req'[r], pending')
      BY <3>2, <3>3 DEF HoldsToken
    <3>. QED
      BY <3>1, <3>2, <3>4
  <2>3. Ok(r)
    BY <2>2 DEF Underway
  <2>. QED
    BY <1>2, <2>1, <2>3
<1>5. ASSUME Environment \/ UNCHANGED vars
      PROVE  \A x \in Slots : Ok(x)
  <2>1. CASE UNCHANGED req
    BY <1>2, <2>1
  <2>2. CASE Crash
    <3>1. \A x \in Slots : req'[x].at = "idle"
      BY <2>2, FreeFacts DEF Crash
    <3>. QED
      BY <3>1 DEF Underway
  <2>. QED
    BY <1>5, <2>1, <2>2 DEF Environment, Settle, Discover, Expire, RefuseUpvote, OfferOnSocket,
                            Cleanup, vars
<1>. QED
  BY <1>3, <1>4, <1>5 DEF TokenInv, Next

\* A payment that buys nothing is burned by a second payer of a token, or by a vote on a
\* note that left.
LEMMA BurnedStep ==
  ASSUME SInv, TokenInv, [Next]_vars, NEW h \in consumed' \ consumed, funded'[h] = <<>>
  PROVE  \E r \in Slots :
           /\ req[r].hash = h
           /\ req[r].route \in TokenRoutes
           /\ IF req[r].route = "confirm_vote" THEN ~Stored(req[r].note) ELSE Kept(req[r].note)
<1>t. TypeOK /\ Carries
  BY DEF SInv, IInv
<1>1. PICK r \in Slots : Step(r) /\ ~UNCHANGED consumed
  <2>1. ASSUME NEW r \in Slots, Begin(r)
        PROVE  UNCHANGED consumed
    BY <2>1 DEF Begin, BeginSubmit, BeginVote, BeginPost, BeginPay, BeginConfirm,
                BeginConfirmVote, BeginGetPay, BeginOffer, database
  <2>2. CASE Environment
    BY <2>2 DEF Environment, Settle, Discover, Expire, RefuseUpvote, OfferOnSocket, Cleanup,
                Crash, database
  <2>. QED
    BY <2>1, <2>2 DEF Next, vars
<1>2. CASE StoreNew(r) \/ CastVote(r) \/ ConfirmVote(r)
  <2>1. PICK credit : req[r].at = "store" /\ CommitWith(r, credit)
    BY <1>2 DEF StoreNew, CastVote, ConfirmVote
  <2>. DEFINE e == [route |-> req[r].route, credit |-> credit]
  <2>2. h = req[r].hash /\ h \in Invoices
    BY <1>t, <2>1 DEF CommitWith, Carries
  <2>3. funded'[h] = Append(funded[h], e) /\ funded[h] \in Seq(Effects)
    BY <1>t, <2>1, <2>2 DEF CommitWith, TypeOK
  <2>4. Len(funded'[h]) = Len(funded[h]) + 1 /\ Len(funded[h]) \in Nat
    BY <2>3
  <2>. QED
    BY <2>4
<1>3. CASE VoteTargetMissing(r)
  BY <1>3 DEF VoteTargetMissing, TokenRoutes
<1>4. CASE Retire(r)
  <2>1. h = req[r].hash /\ req[r].at = "retire"
    BY <1>4 DEF Retire
  <2>2. req[r].route \in {"pay", "confirm"} /\ Kept(req[r].note)
    BY <2>1 DEF TokenInv, SInv
  <2>. QED
    BY <2>1, <2>2 DEF TokenRoutes
<1>. QED
  BY <1>1, <1>2, <1>3, <1>4 DEF Step, Verify, Refuse, Consume, Replay, Challenge, StoreDuplicate,
     StoreNoEvent, VoteRowGone, Publish, PublishFails, Answer200, LockTimeout, InvoiceCreated,
     InvoiceFails, Attach, database

\* A row that goes while its note is live was retired after store_event, or refused.
LEMMA NotLostStep ==
  ASSUME SInv, TokenInv, [Next]_vars, NEW t \in Tokens, pending[t].state = "live",
         pending[t].kind = "note", pending'[t].state = "gone"
  PROVE  Kept(pending[t].note)' \/ RefuseUpvote(t)
<1>t. TypeOK /\ Carries /\ NoteInv
  BY DEF SInv, IInv
<1>n. PICK n \in Notes : n = pending[t].note /\ n = pending'[t].note
  BY <1>t, PendingStays DEF NoteInv
<1>1. ASSUME NEW u, NEW s, pending' = [pending EXCEPT ![u].state = s]
      PROVE  u = t
  BY <1>1, <1>t DEF TypeOK, PendingRows
<1>2. ASSUME NEW r \in Slots, Retire(r)
      PROVE  Kept(pending[t].note)'
  <2>1. req[r].at = "retire" /\ req[r].token = t
    BY <1>1, <1>2 DEF Retire
  <2>2. HoldsToken(req[r], pending) /\ req[r].route \in {"pay", "confirm"} /\ Kept(req[r].note)
    BY <2>1 DEF TokenInv, SInv, Underway
  <2>3. Kept(n)
    BY <1>n, <2>1, <2>2 DEF HoldsToken, TokenRoutes
  <2>4. Kept(n)'
    BY <1>t, <2>3, KeptStays
  <2>. QED
    BY <1>n, <2>4 DEF Kept, Stored, Superseded
<1>3. ASSUME NEW r \in Slots, ConfirmVote(r) \/ VoteTargetMissing(r)
      PROVE  FALSE
  <2>1. /\ req[r].at = "store" /\ req[r].route = "confirm_vote"
        /\ pending' = [pending EXCEPT ![req[r].token].state = "gone"]
    BY <1>3 DEF ConfirmVote, VoteTargetMissing
  <2>2. req[r].token = t
    BY <1>1, <2>1
  <2>3. HoldsToken(req[r], pending)
    BY <2>1 DEF TokenInv, Underway
  <2>. QED
    BY <2>1, <2>2, <2>3 DEF HoldsToken, TokenRoutes
<1>4. ASSUME NEW r \in Slots, Attach(r)
      PROVE  FALSE
  <2>1. CASE pending' = [pending EXCEPT ![req[r].token].hash = req[r].hash]
    BY <2>1, <1>t DEF TypeOK, PendingRows
  <2>. QED
    BY <1>4, <2>1 DEF Attach
<1>5. ASSUME NEW u \in Tokens, NEW kind, NEW m, NEW sats, Insert(u, kind, m, sats)
      PROVE  FALSE
  BY <1>5, <1>t DEF Insert, TypeOK
<1>6. CASE Cleanup
  BY <1>6 DEF Cleanup
<1>7. ASSUME NEW u \in Tokens, Expire(u)
      PROVE  FALSE
  BY <1>7, <1>t DEF Expire, TypeOK, PendingRows
<1>8. ASSUME NEW u \in Tokens, RefuseUpvote(u)
      PROVE  RefuseUpvote(t)
  BY <1>1, <1>8 DEF RefuseUpvote
<1>9. ASSUME NEW r \in Slots, Begin(r)
      PROVE  FALSE
  <2>1. UNCHANGED pending \/ \E u \in Tokens, kind \in {"note", "vote"}, m \in Notes,
                                sats \in Amounts \cup {0} : Insert(u, kind, m, sats)
    BY <1>9 DEF Begin, BeginSubmit, BeginVote, BeginPost, BeginPay, BeginConfirm,
                BeginConfirmVote, BeginGetPay, BeginOffer, database
  <2>. QED
    BY <1>5, <2>1
<1>10. ASSUME NEW r \in Slots, Step(r)
       PROVE  Kept(pending[t].note)'
  <2>1. CASE ~(ConfirmVote(r) \/ VoteTargetMissing(r) \/ Retire(r) \/ Attach(r))
    <3>1. UNCHANGED pending
      BY <1>10, <2>1 DEF Step, Verify, Refuse, Consume, Replay, Challenge, StoreNew,
              StoreDuplicate, StoreNoEvent, CastVote, VoteRowGone, Publish, PublishFails,
              Answer200, LockTimeout, InvoiceCreated, InvoiceFails, database
    <3>. QED
      BY <3>1
  <2>. QED
    BY <1>2, <1>3, <1>4, <2>1
<1>11. CASE UNCHANGED pending
  BY <1>11
<1>12. CASE Environment
  <2>1. ASSUME NEW u \in Tokens, NEW m \in Notes, OfferOnSocket(u, m)
        PROVE  FALSE
    BY <1>5, <2>1 DEF OfferOnSocket
  <2>2. CASE \/ \E h \in Invoices : Settle(h) \/ \E sats \in Amounts : Discover(h, sats)
             \/ Crash
    BY <1>11, <2>2 DEF Settle, Discover, Crash, database
  <2>. QED
    BY <1>6, <1>7, <1>8, <1>12, <2>1, <2>2 DEF Environment
<1>. QED
  BY <1>9, <1>10, <1>11, <1>12 DEF Next, vars

-----------------------------------------------------------------------------
(* The theorems about money and tokens *)

LEMMA CoverHolds == Spec => []CoverInv
<1>1. Init => CoverInv
  <2>. SUFFICES ASSUME Init PROVE CoverInv
    OBVIOUS
  <2>1. \A r \in Slots : req[r].at = "idle"
    BY FreeFacts DEF Init
  <2>2. \A h \in Invoices : funded[h] = <<>>
    BY DEF Init
  <2>. QED
    BY <2>1, <2>2 DEF CoverInv, GateCreditCovered
<1>2. IInv /\ CoverInv /\ [Next]_vars => CoverInv'
  BY CoverStep
<1>. QED
  BY <1>1, <1>2, IInvHolds, PTL DEF Spec

LEMMA TokenHolds == Spec => []TokenInv
<1>1. Init => TokenInv
  <2>. SUFFICES ASSUME Init PROVE TokenInv
    OBVIOUS
  <2>1. \A r \in Slots : req[r].at = "idle"
    BY FreeFacts DEF Init
  <2>. QED
    BY <2>1 DEF TokenInv, Underway
<1>2. TypeOK /\ TokenInv /\ [Next]_vars => TokenInv'
  BY TokenStep
<1>3. IInv => TypeOK
  BY DEF IInv
<1>. QED
  BY <1>1, <1>2, <1>3, IInvHolds, PTL DEF Spec

\* require_payment: behind it no note ever shows more sats than its invoice was worth.
THEOREM CreditCovered == Spec => []GateCreditCovered
<1>1. CoverInv => GateCreditCovered
  BY DEF CoverInv
<1>. QED
  BY <1>1, CoverHolds, PTL

\* On submit_event, relay_post, api_post and vote_event no crash, lock timeout or race uses an
\* invoice up for nothing; on the token routes only for a note that is there, or a vote's
\* target that is not.
THEOREM BurnedSeldom == Spec => BurnedOnlyByTokenRoutes
<1>. DEFINE Burned ==
       \A h \in consumed' \ consumed :
         funded'[h] = <<>> =>
           \E r \in Slots :
             /\ req[r].hash = h
             /\ req[r].route \in TokenRoutes
             /\ IF req[r].route = "confirm_vote" THEN ~Stored(req[r].note)
                                                 ELSE Kept(req[r].note)
<1>1. SInv /\ TokenInv /\ [Next]_vars => [Burned]_vars
  BY BurnedStep
<1>. QED
  BY <1>1, SInvHolds, TokenHolds, PTL DEF Spec, BurnedOnlyByTokenRoutes

\* pay_post, confirm_event and the cleanup task: a note on offer leaves the pending table
\* only expired, refused, or stored.
THEOREM OffersKept == Spec => OfferNotLost
<1>. DEFINE Stays ==
       \A t \in Tokens :
         pending[t].state = "live" /\ pending[t].kind = "note" /\ pending'[t].state = "gone"
           => Kept(pending[t].note)' \/ RefuseUpvote(t)
<1>1. SInv /\ TokenInv /\ [Next]_vars => [Stays]_vars
  BY NotLostStep
<1>. QED
  BY <1>1, SInvHolds, TokenHolds, PTL DEF Spec, OfferNotLost

=============================================================================
