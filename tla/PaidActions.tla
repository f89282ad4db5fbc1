---------------------------- MODULE PaidActions -----------------------------
(***************************************************************************)
(* The paid actions of clankfeed: every route that turns a settled         *)
(* Lightning invoice into a stored note or a downvote, and the pending     *)
(* table behind the routes that pay later.                                 *)
(*                                                                         *)
(* One Slot is one HTTP request in flight: an asyncio task with its own    *)
(* SQLAlchemy session.  A step of a slot runs from one await that lets     *)
(* other tasks in (an LNBits call, SQLite's write lock, a broadcast) to    *)
(* the next.  A slot that answers is free for another request, so a        *)
(* behaviour serves any number of requests.                                *)
(*                                                                         *)
(* Sessions: SELECTs run before the first write see the latest committed   *)
(* state and are not refreshed.  The first flush takes SQLite's only write *)
(* lock (writer); what it wrote is visible to nobody until the commit, and *)
(* a session closed without a commit rolls it back.  So while writer = r   *)
(* the pending write of r is exactly one row of consumed_payments, the one *)
(* for req[r].hash.                                                        *)
(***************************************************************************)
EXTENDS Naturals, Sequences

CONSTANTS
  Slots,      \* HTTP requests in flight at one time
  Notes,      \* ids of Nostr events
  Invoices,   \* payment hashes LNBits may hand out
  Tokens,     \* tokens of pending_events
  Price,      \* POST_PRICE_SATS
  Amounts,    \* amount_sats a client may ask for, none below Price
  Seeded,     \* notes already stored, each with a tally of Price
  Supersedes, \* pairs <<m, n>>: replaceable events of one author and kind, m the later
  Routes,     \* the routes clients use in this instance
  None        \* no note, invoice, token or lock holder

RouteNames == {"submit", "post", "pay", "confirm", "vote", "confirm_vote", "offer", "get_pay"}

ASSUME PriceAssumption == Price \in Nat \ {0}
ASSUME AmountsAssumption == Amounts \subseteq Nat /\ \A a \in Amounts : a >= Price
ASSUME SeededAssumption == Seeded \subseteq Notes
\* store_event orders the replaceable events of an author and kind by created_at, and those
\* of one second by id: a strict order, total on each author and kind.
ASSUME SupersedesAssumption ==
  /\ Supersedes \subseteq Notes \X Notes
  /\ \A n \in Notes : <<n, n>> \notin Supersedes
  /\ \A a, b, c \in Notes :
       /\ <<a, b>> \in Supersedes /\ <<b, c>> \in Supersedes => <<a, c>> \in Supersedes
       /\ \/ <<a, b>> \in Supersedes /\ <<a, c>> \in Supersedes
          \/ <<b, a>> \in Supersedes /\ <<c, a>> \in Supersedes
            => b = c \/ <<b, c>> \in Supersedes \/ <<c, b>> \in Supersedes
  /\ \A m, n \in Seeded : <<m, n>> \notin Supersedes
ASSUME RoutesAssumption == Routes \subseteq RouteNames
ASSUME NoneAssumption == None \notin Slots \cup Notes \cup Invoices \cup Tokens

VARIABLES
  invoice,    \* LNBits: amount of each invoice (0: not issued) and whether it settled
  consumed,   \* consumed_payments, committed
  row,        \* nostr_events, committed: the notes stored and their tallies
  pending,    \* pending_events, committed
  writer,     \* the session that holds the write lock, or None
  req,        \* the requests in flight
  told,       \* tokens some client has been given
  funded      \* history: the actions committed against each invoice

database == <<consumed, row, pending>>
vars == <<invoice, consumed, row, pending, writer, req, told, funded>>

-----------------------------------------------------------------------------
(* Data *)

Rows == [stored : BOOLEAN, clank : Nat, ext : Nat]
NoRow == [stored |-> FALSE, clank |-> 0, ext |-> 0]
Stored(n) == row[n].stored
Superseded(n) == \E m \in Notes : <<m, n>> \in Supersedes /\ Stored(m)
\* The note itself, or the later event of its author and kind that took its place.
Kept(n) == Stored(n) \/ Superseded(n)

PendingRows ==
  [state : {"unused", "live", "expired", "gone"}, kind : {"note", "vote"},
   note : Notes \cup {None}, sats : Nat, hash : Invoices \cup {None}]
NoPending == [state |-> "unused", kind |-> "note", note |-> None, sats |-> 0, hash |-> None]

Present(t) == pending[t].state \in {"live", "expired"}
\* `pending.amount_sats or settings.POST_PRICE_SATS`
PriceOf(p) == IF p.sats = 0 THEN Price ELSE p.sats

Steps == {"idle", "verify", "consume", "store", "retire", "publish", "answer", "challenge",
          "price", "attach"}

Requests ==
  [at : Steps, route : RouteNames \cup {None}, kind : {"note", "vote"},
   note : Notes \cup {None}, hash : Invoices \cup {None}, token : Tokens \cup {None},
   sats : Nat, credit : Nat, seen : Rows]

Free ==
  [at |-> "idle", route |-> None, kind |-> "note", note |-> None, hash |-> None,
   token |-> None, sats |-> 0, credit |-> 0, seen |-> NoRow]

Effects == [route : RouteNames, credit : Nat]

TokenRoutes == {"pay", "confirm", "confirm_vote"}
\* The routes behind require_payment, which checks the amount of the invoice.
GateRoutes == {"submit", "post", "pay", "vote"}

TypeOK ==
  /\ invoice \in [Invoices -> [amount : Nat, settled : BOOLEAN]]
  /\ consumed \subseteq Invoices
  /\ row \in [Notes -> Rows]
  /\ pending \in [Tokens -> PendingRows]
  /\ writer \in Slots \cup {None}
  /\ req \in [Slots -> Requests]
  /\ told \subseteq Tokens
  /\ funded \in [Invoices -> Seq(Effects)]

Init ==
  /\ invoice = [h \in Invoices |-> [amount |-> 0, settled |-> FALSE]]
  /\ consumed = {}
  /\ row = [n \in Notes |-> IF n \in Seeded THEN [stored |-> TRUE, clank |-> Price, ext |-> Price]
                                           ELSE NoRow]
  /\ pending = [t \in Tokens |-> NoPending]
  /\ writer = None
  /\ req = [r \in Slots |-> Free]
  /\ told = {}
  /\ funded = [h \in Invoices |-> <<>>]

-----------------------------------------------------------------------------
(* Requests, sessions and the wallet *)

\* The request of slot r runs on to its next await.
Goto(r, step) == req' = [req EXCEPT ![r].at = step]

\* Mutant of Close: the session is not closed, and its transaction stays open.
CloseLeaking(r) ==
  /\ req' = [req EXCEPT ![r] = Free]
  /\ UNCHANGED writer

\* The handler returns or raises and `async with async_session()` closes the
\* session: what it wrote and did not commit is rolled back.
Close(r) ==
  /\ req' = [req EXCEPT ![r] = Free]
  /\ writer' = IF writer = r THEN None ELSE writer

Open(r, q) ==
  /\ req[r].at = "idle"
  /\ q.route \in Routes
  /\ req' = [req EXCEPT ![r] = q]

\* LNBits hands out a payment hash it never used before.
Issue(h, sats) ==
  /\ invoice[h].amount = 0
  /\ invoice' = [invoice EXCEPT ![h].amount = sats]

\* The wallet of some payer settles an invoice; clankfeed is not told.
Settle(h) ==
  /\ invoice[h].amount > 0
  /\ ~invoice[h].settled
  /\ invoice' = [invoice EXCEPT ![h].settled = TRUE]
  /\ UNCHANGED <<database, writer, req, told, funded>>

\* A 402 with a fresh invoice that no request in flight waits for: the discovery
\* answers of submit_event, relay_post and the routes without a credential.
Discover(h, sats) ==
  /\ Issue(h, sats)
  /\ UNCHANGED <<database, writer, req, told, funded>>

-----------------------------------------------------------------------------
(* Requests that bring a credential: the first await *)

\* POST /api/v1/events and /api/v1/post with an Authorization header.
BeginSubmit(r, n, h, sats) ==
  /\ Open(r, [Free EXCEPT !.at = "verify", !.route = "submit", !.note = n, !.hash = h,
                          !.sats = sats, !.credit = sats])
  /\ UNCHANGED <<invoice, database, writer, told, funded>>

\* POST /api/post: one price, and store_event is left its default sats_clank=0.
BeginPost(r, n, h) ==
  /\ Open(r, [Free EXCEPT !.at = "verify", !.route = "post", !.note = n, !.hash = h,
                          !.sats = Price])
  /\ UNCHANGED <<invoice, database, writer, told, funded>>

\* POST /pay?token=...: store_event is left its default sats_clank=0.
BeginPay(r, t, h) ==
  /\ t \in told
  /\ pending[t].state = "live"
  /\ Open(r, [Free EXCEPT !.at = "verify", !.route = "pay", !.kind = pending[t].kind,
                          !.note = pending[t].note, !.hash = h, !.token = t,
                          !.sats = PriceOf(pending[t])])
  /\ UNCHANGED <<invoice, database, writer, told, funded>>

\* The hash in the body must be the one on the pending row, if that has one.
HashMatches(t, h) == pending[t].hash \in {None, h}

\* POST /api/v1/events/confirm
BeginConfirm(r, t, h) ==
  /\ t \in told
  /\ pending[t].state = "live"
  /\ HashMatches(t, h)
  /\ Open(r, [Free EXCEPT !.at = "verify", !.route = "confirm", !.kind = pending[t].kind,
                          !.note = pending[t].note, !.hash = h, !.token = t,
                          !.credit = PriceOf(pending[t])])
  /\ UNCHANGED <<invoice, database, writer, told, funded>>

\* POST /api/v1/events/{n}/vote: the row is read here and written after the payment.
BeginVote(r, n, h, sats) ==
  /\ Stored(n)
  /\ Open(r, [Free EXCEPT !.at = "verify", !.route = "vote", !.kind = "vote", !.note = n,
                          !.hash = h, !.sats = sats, !.seen = row[n]])
  /\ UNCHANGED <<invoice, database, writer, told, funded>>

\* POST /api/v1/events/{n}/vote/confirm, for a token that holds a downvote.  The note
\* voted on is the one of the path, whatever the pending row says.
BeginConfirmVote(r, t, n, h) ==
  /\ t \in told
  /\ pending[t].state = "live"
  /\ pending[t].kind = "vote"
  /\ HashMatches(t, h)
  /\ Open(r, [Free EXCEPT !.at = "verify", !.route = "confirm_vote", !.kind = "vote",
                          !.note = n, !.hash = h, !.token = t, !.sats = PriceOf(pending[t])])
  /\ UNCHANGED <<invoice, database, writer, told, funded>>

\* The same route with the token of a note: `direction` defaults to 1, which is
\* refused with 410 after the pending row is deleted and the deletion committed.
RefuseUpvote(t) ==
  /\ "confirm_vote" \in Routes
  /\ t \in told
  /\ pending[t].state = "live"
  /\ pending[t].kind = "note"
  /\ writer = None
  /\ pending' = [pending EXCEPT ![t].state = "gone"]
  /\ UNCHANGED <<invoice, consumed, row, writer, req, told, funded>>

-----------------------------------------------------------------------------
(* The payment gate *)

\* Mutant of Covers: the settled amount is not compared with the price.
CoversAnyPrice(h, q) == TRUE

\* require_payment compares the amount of the invoice with the price; the confirm
\* routes only ask whether the invoice is paid.
Covers(h, q) == q.route \in GateRoutes => invoice[h].amount >= q.sats

\* Mutant of Verify: the paid flag of LNBits is not looked at.
VerifyUnsettled(r) ==
  /\ req[r].at = "verify"
  /\ Covers(req[r].hash, req[r])
  /\ Goto(r, "consume")
  /\ UNCHANGED <<invoice, database, writer, told, funded>>

\* The proof of payment holds: the preimage of an MPP credential, or LNBits' word.
Verify(r) ==
  LET h == req[r].hash IN
  /\ req[r].at = "verify"
  /\ invoice[h].settled
  /\ Covers(h, req[r])
  /\ Goto(r, "consume")
  /\ UNCHANGED <<invoice, database, writer, told, funded>>

\* It does not, or LNBits is not reached.  The gate asks for a new invoice, the
\* confirm routes answer 402 "Payment not yet received".
Refuse(r) ==
  /\ req[r].at = "verify"
  /\ IF req[r].route \in GateRoutes THEN Goto(r, "challenge") /\ UNCHANGED writer ELSE Close(r)
  /\ UNCHANGED <<invoice, database, told, funded>>

\* Mutant of Consume: the hash is looked up before, not constrained by the primary key.
ConsumeAgain(r) ==
  /\ req[r].at = "consume"
  /\ writer = None
  /\ writer' = r
  /\ Goto(r, "store")
  /\ UNCHANGED <<invoice, database, told, funded>>

\* Mutant of Consume: commit instead of flush.
ConsumeCommitted(r) ==
  /\ req[r].at = "consume"
  /\ writer = None
  /\ req[r].hash \notin consumed
  /\ consumed' = consumed \cup {req[r].hash}
  /\ writer' = r
  /\ Goto(r, "store")
  /\ UNCHANGED <<invoice, row, pending, told, funded>>

\* Mutant of Consume: the note is broadcast before it is stored.
ConsumeThenPublish(r) ==
  /\ req[r].at = "consume"
  /\ writer = None
  /\ req[r].hash \notin consumed
  /\ writer' = r
  /\ Goto(r, "publish")
  /\ UNCHANGED <<invoice, database, told, funded>>

\* check_and_consume_payment: the INSERT is flushed, which takes the write lock and
\* keeps it; nothing is committed.
Consume(r) ==
  /\ req[r].at = "consume"
  /\ writer = None
  /\ req[r].hash \notin consumed
  /\ writer' = r
  /\ Goto(r, "store")
  /\ UNCHANGED <<invoice, database, told, funded>>

\* IntegrityError on the primary key: rollback, then 402.
Replay(r) ==
  /\ req[r].at = "consume"
  /\ writer = None
  /\ req[r].hash \in consumed
  /\ IF req[r].route \in GateRoutes THEN Goto(r, "challenge") /\ UNCHANGED writer ELSE Close(r)
  /\ UNCHANGED <<invoice, database, told, funded>>

\* The invoice of the 402 is created before it is raised; 502 when LNBits fails.
Challenge(r) ==
  /\ req[r].at = "challenge"
  /\ \/ \E h \in Invoices : Issue(h, req[r].sats)
     \/ UNCHANGED invoice
  /\ Close(r)
  /\ UNCHANGED <<database, told, funded>>

-----------------------------------------------------------------------------
(* The paid action and its commit *)

\* The commit of the session that holds the lock, with the action it paid for.
CommitWith(r, credit) ==
  LET h == req[r].hash IN
  /\ consumed' = consumed \cup {h}
  /\ funded' = [funded EXCEPT ![h] =
       Append(@, [route |-> req[r].route, credit |-> credit])]
  /\ writer' = None

AfterStore(r) == IF req[r].route \in {"pay", "confirm"} THEN "retire" ELSE "publish"

\* Mutant of StoreNew: the event stored last wins, whatever its date.
StoreLastArrived(r) ==
  LET n == req[r].note IN
  /\ req[r].at = "store"
  /\ req[r].kind = "note"
  /\ ~Stored(n)
  /\ row' = [m \in Notes |->
       IF m = n THEN [stored |-> TRUE, clank |-> req[r].credit, ext |-> 0]
       ELSE IF <<n, m>> \in Supersedes \/ <<m, n>> \in Supersedes THEN NoRow
       ELSE row[m]]
  /\ CommitWith(r, req[r].credit)
  /\ Goto(r, AfterStore(r))
  /\ UNCHANGED <<invoice, pending, told>>

\* store_event for a note that is not there yet: insert, in place of an older replaceable
\* event of its author and kind, and commit.
StoreNew(r) ==
  LET n == req[r].note IN
  /\ req[r].at = "store"
  /\ req[r].kind = "note"
  /\ ~Kept(n)
  /\ row' = [m \in Notes |->
       IF m = n THEN [stored |-> TRUE, clank |-> req[r].credit, ext |-> 0]
       ELSE IF <<n, m>> \in Supersedes THEN NoRow
       ELSE row[m]]
  /\ CommitWith(r, req[r].credit)
  /\ Goto(r, AfterStore(r))
  /\ UNCHANGED <<invoice, pending, told>>

\* store_event for a note that is there, or superseded: it returns without a commit, and the
\* session still holds the lock.  (Its other early returns are for a row that appeared
\* since it looked: the lock excludes them.)
StoreDuplicate(r) ==
  /\ req[r].at = "store"
  /\ req[r].kind = "note"
  /\ Kept(req[r].note)
  /\ Goto(r, AfterStore(r))
  /\ UNCHANGED <<invoice, database, writer, told, funded>>

\* A vote's token brought to /pay or /events/confirm: the row holds no event, store_event
\* raises KeyError and the request ends in 500.
StoreNoEvent(r) ==
  /\ req[r].at = "store"
  /\ req[r].route \in {"pay", "confirm"}
  /\ req[r].kind = "vote"
  /\ Close(r)
  /\ UNCHANGED <<invoice, database, told, funded>>

\* Mutant of FlooredMinus: no floor at 0.
PlainMinus(a, b) == a - b

FlooredMinus(a, b) == IF a > b THEN a - b ELSE 0

\* _apply_vote_delta, direction -1
Lowered(tally, sats) ==
  [tally EXCEPT !.clank = FlooredMinus(@, sats), !.ext = FlooredMinus(@, sats)]

\* SQLAlchemy's UPDATE names the tallies that differ from the ones read.
Overwritten(tally, seen, lowered) ==
  [tally EXCEPT !.clank = IF lowered.clank = seen.clank THEN @ ELSE lowered.clank,
                !.ext = IF lowered.ext = seen.ext THEN @ ELSE lowered.ext]

Voted(r) == Lowered(req[r].seen, req[r].sats)

\* vote_event: the Vote row and the tallies computed from the row read at the start.  Tallies
\* that were 0 stay so: there is no UPDATE, and nobody notices that the row is gone.
CastVote(r) ==
  /\ req[r].at = "store"
  /\ req[r].route = "vote"
  /\ Stored(req[r].note) \/ Voted(r) = req[r].seen
  /\ row' = [row EXCEPT ![req[r].note] = Overwritten(@, req[r].seen, Voted(r))]
  /\ CommitWith(r, 0)
  /\ Goto(r, "answer")
  /\ UNCHANGED <<invoice, pending, told>>

\* The row voted on was superseded since it was read: the UPDATE matches nothing
\* (StaleDataError), 500.
VoteRowGone(r) ==
  /\ req[r].at = "store"
  /\ req[r].route = "vote"
  /\ ~Stored(req[r].note) /\ Voted(r) # req[r].seen
  /\ Close(r)
  /\ UNCHANGED <<invoice, database, told, funded>>

\* confirm_vote: the row is read under the lock; the pending row goes in the same commit.
ConfirmVote(r) ==
  LET n == req[r].note IN
  /\ req[r].at = "store"
  /\ req[r].route = "confirm_vote"
  /\ Stored(n)
  /\ row' = [row EXCEPT ![n] = Lowered(@, req[r].sats)]
  /\ pending' = [pending EXCEPT ![req[r].token].state = "gone"]
  /\ CommitWith(r, 0)
  /\ Goto(r, "answer")
  /\ UNCHANGED <<invoice, told>>

\* The voted note is not here: the pending row is deleted and the payment committed
\* as consumed, and the answer is 404.
VoteTargetMissing(r) ==
  /\ req[r].at = "store"
  /\ req[r].route = "confirm_vote"
  /\ ~Stored(req[r].note)
  /\ pending' = [pending EXCEPT ![req[r].token].state = "gone"]
  /\ consumed' = consumed \cup {req[r].hash}
  /\ Close(r)
  /\ UNCHANGED <<invoice, row, told, funded>>

\* pay_post and confirm_event delete the pending row after store_event and commit:
\* a second transaction, or the same one when store_event returned early.
Retire(r) ==
  /\ req[r].at = "retire"
  /\ writer \in {None, r}
  /\ pending' = [pending EXCEPT ![req[r].token].state = "gone"]
  /\ consumed' = IF writer = r THEN consumed \cup {req[r].hash} ELSE consumed
  /\ writer' = None
  /\ Goto(r, "publish")
  /\ UNCHANGED <<invoice, row, told, funded>>

Publish(r) ==
  /\ req[r].at = "publish"
  /\ Goto(r, "answer")
  /\ UNCHANGED <<invoice, database, writer, told, funded>>

\* broadcast_event iterates the connection set across awaits and raises RuntimeError
\* when it changed: 500, and the session closes.
PublishFails(r) ==
  /\ req[r].at = "publish"
  /\ Close(r)
  /\ UNCHANGED <<invoice, database, told, funded>>

Answer200(r) ==
  /\ req[r].at = "answer"
  /\ Close(r)
  /\ UNCHANGED <<invoice, database, told, funded>>

\* SQLite gives up waiting for the lock after 30 s ("database is locked"): 500.
LockTimeout(r) ==
  /\ req[r].at \in {"consume", "retire", "attach"}
  /\ writer \notin {None, r}
  /\ Close(r)
  /\ UNCHANGED <<invoice, database, told, funded>>

-----------------------------------------------------------------------------
(* The pending table *)

Insert(t, kind, n, sats) ==
  /\ pending[t].state = "unused"
  /\ writer = None
  /\ pending' = [pending EXCEPT ![t] =
       [state |-> "live", kind |-> kind, note |-> n, sats |-> sats, hash |-> None]]

\* A Nostr EVENT on the WebSocket: a pending row without amount or invoice, and an OK
\* message with the token.
OfferOnSocket(t, n) ==
  /\ "offer" \in Routes
  /\ Insert(t, "note", n, 0)
  /\ told' = told \cup {t}
  /\ UNCHANGED <<invoice, consumed, row, writer, req, funded>>

\* A note or a downvote without a usable credential: the pending row is committed, then
\* LNBits is asked for an invoice.  POST /api/post stores no amount (sats = 0).
BeginOffer(r, t, kind, n, sats) ==
  /\ kind = "vote" => sats # 0 /\ Stored(n)
  /\ Insert(t, kind, n, sats)
  /\ Open(r, [Free EXCEPT !.at = "price", !.route = "offer", !.token = t, !.note = n,
                          !.kind = kind, !.sats = IF sats = 0 THEN Price ELSE sats])
  /\ UNCHANGED <<invoice, consumed, row, writer, told, funded>>

\* GET /pay?token=...: always an invoice of POST_PRICE_SATS.
BeginGetPay(r, t) ==
  /\ t \in told
  /\ pending[t].state = "live"
  /\ Open(r, [Free EXCEPT !.at = "price", !.route = "get_pay", !.token = t, !.sats = Price])
  /\ UNCHANGED <<invoice, database, writer, told, funded>>

InvoiceCreated(r) ==
  /\ req[r].at = "price"
  /\ \E h \in Invoices :
       /\ Issue(h, req[r].sats)
       /\ req' = [req EXCEPT ![r].at = "attach", ![r].hash = h]
  /\ UNCHANGED <<database, writer, told, funded>>

\* create_invoice raises 502; a row just offered stays, its token known to nobody.
InvoiceFails(r) ==
  /\ req[r].at = "price"
  /\ Close(r)
  /\ UNCHANGED <<invoice, database, told, funded>>

\* The hash goes on the row, replacing the one of an earlier invoice, and the token and
\* the invoice go to the client.  A row deleted meanwhile makes the UPDATE match nothing
\* (StaleDataError): 500.
Attach(r) ==
  LET t == req[r].token IN
  /\ req[r].at = "attach"
  /\ writer = None
  /\ IF Present(t)
       THEN /\ pending' = [pending EXCEPT ![t].hash = req[r].hash]
            /\ told' = told \cup {t}
       ELSE UNCHANGED <<pending, told>>
  /\ Close(r)
  /\ UNCHANGED <<invoice, consumed, row, funded>>

\* PENDING_EVENT_TTL passes.
Expire(t) ==
  /\ pending[t].state = "live"
  /\ pending' = [pending EXCEPT ![t].state = "expired"]
  /\ UNCHANGED <<invoice, consumed, row, writer, req, told, funded>>

\* Mutant of Cleanup: the comparison with expires_at the wrong way round.
CleanupLive ==
  /\ writer = None
  /\ \E t \in Tokens : pending[t].state = "live"
  /\ pending' = [t \in Tokens |->
       IF pending[t].state = "live" THEN [pending[t] EXCEPT !.state = "gone"] ELSE pending[t]]
  /\ UNCHANGED <<invoice, consumed, row, writer, req, told, funded>>

\* The background task deletes every expired row.
Cleanup ==
  /\ writer = None
  /\ \E t \in Tokens : pending[t].state = "expired"
  /\ pending' = [t \in Tokens |->
       IF pending[t].state = "expired" THEN [pending[t] EXCEPT !.state = "gone"] ELSE pending[t]]
  /\ UNCHANGED <<invoice, consumed, row, writer, req, told, funded>>

\* The process dies: every request ends unanswered and SQLite drops the open transaction.
Crash ==
  /\ \E r \in Slots : req[r].at # "idle"
  /\ req' = [r \in Slots |-> Free]
  /\ writer' = None
  /\ UNCHANGED <<invoice, database, told, funded>>

-----------------------------------------------------------------------------

\* What a request does next, once it has begun.
Step(r) ==
  \/ Verify(r) \/ Refuse(r) \/ Consume(r) \/ Replay(r) \/ Challenge(r)
  \/ StoreNew(r) \/ StoreDuplicate(r) \/ StoreNoEvent(r)
  \/ CastVote(r) \/ VoteRowGone(r) \/ ConfirmVote(r) \/ VoteTargetMissing(r)
  \/ Retire(r) \/ Publish(r) \/ PublishFails(r) \/ Answer200(r) \/ LockTimeout(r)
  \/ InvoiceCreated(r) \/ InvoiceFails(r) \/ Attach(r)

\* A client brings a request to a free slot.  A client knows only invoices that were issued.
Begin(r) ==
  \/ \E h \in Invoices :
       /\ invoice[h].amount > 0
       /\ \/ \E n \in Notes :
               \/ \E sats \in Amounts : BeginSubmit(r, n, h, sats) \/ BeginVote(r, n, h, sats)
               \/ BeginPost(r, n, h)
          \/ \E t \in Tokens :
               \/ BeginPay(r, t, h)
               \/ BeginConfirm(r, t, h)
               \/ \E n \in Notes : BeginConfirmVote(r, t, n, h)
  \/ \E t \in Tokens :
       \/ BeginGetPay(r, t)
       \/ \E kind \in {"note", "vote"}, n \in Notes, sats \in Amounts \cup {0} :
            BeginOffer(r, t, kind, n, sats)

Environment ==
  \/ \E h \in Invoices : Settle(h) \/ \E sats \in Amounts : Discover(h, sats)
  \/ \E t \in Tokens : Expire(t) \/ RefuseUpvote(t) \/ \E n \in Notes : OfferOnSocket(t, n)
  \/ Cleanup
  \/ Crash

Next == Environment \/ \E r \in Slots : Begin(r) \/ Step(r)

Spec == Init /\ [][Next]_vars

-----------------------------------------------------------------------------
(* Properties *)

\* An invoice pays for at most one committed action, over all routes, retries, crashes
\* and concurrent requests; the action is committed together with the record that the
\* invoice is used up, and only for an invoice that settled (check_and_consume_payment).
OneActionPerInvoice ==
  \A h \in Invoices :
    /\ Len(funded[h]) <= 1
    /\ funded[h] # <<>> => h \in consumed
    /\ h \in consumed => invoice[h].settled

\* A payment is used up without buying anything only on the token routes, and there only
\* when the note is stored or superseded already (a second payer of one token) or the voted
\* note is gone; on submit_event, relay_post, api_post and vote_event a crash, a lock timeout
\* or an early return of store_event never costs the payer the invoice.
BurnedOnlyByTokenRoutes ==
  [][\A h \in consumed' \ consumed :
       funded'[h] = <<>> =>
         \E r \in Slots :
           /\ req[r].hash = h
           /\ req[r].route \in TokenRoutes
           /\ IF req[r].route = "confirm_vote" THEN ~Stored(req[r].note)
                                               ELSE Kept(req[r].note)]_vars

\* What subscribers are sent and what a client is told 200 for is in the database and
\* committed, or a later event in its place is: no crash, lock timeout or rollback leaves
\* a broadcast note that queries will not return.
PublishedIsStored ==
  \A r \in Slots : req[r].at \in {"publish", "answer"} => Kept(req[r].note)

\* app/relay.py:268: of the replaceable events of an author and kind only the latest is kept,
\* whichever requests store them at the same time on the paid routes.  (GET /profile and the
\* ingest store them without the lock: EventStore.)
OneReplaceable ==
  \A m, n \in Notes : <<m, n>> \in Supersedes => ~(Stored(m) /\ Stored(n))

\* A stored event leaves the relay for a later one of its author and kind only: a slow payer
\* of an old profile never undoes the newer one.
NeverReverts ==
  [][\A n \in Notes : Kept(n) => Kept(n)']_vars

\* Behind require_payment a note never shows more sats_clank than its invoice was worth.
GateCreditCovered ==
  \A h \in Invoices : \A i \in DOMAIN funded[h] :
    funded[h][i].route \in GateRoutes => funded[h][i].credit <= invoice[h].amount

\* A pending note leaves the table only when it expired, when it is stored or superseded, or
\* when its token is taken to the vote route: the order of store_event and db.delete, with a
\* crash or a lock timeout between the two, never loses a note somebody may have paid for.
OfferNotLost ==
  [][\A t \in Tokens :
       pending[t].state = "live" /\ pending[t].kind = "note" /\ pending'[t].state = "gone"
         => Kept(pending[t].note)' \/ RefuseUpvote(t)]_vars

\* README.md:156 "`sats_clank` - money paid to clankfeed": a note's tally at storage is
\* no more than what was paid for it.
ClankIsMoneyPaid ==
  \A h \in Invoices : \A i \in DOMAIN funded[h] : funded[h][i].credit <= invoice[h].amount

-----------------------------------------------------------------------------
(* What the proof of OneActionPerInvoice adds to it *)

\* What a request carries at each step: a route, an invoice, a token.
Carries ==
  \A r \in Slots :
    /\ req[r].at # "idle" => req[r].route \in RouteNames
    /\ req[r].at \in {"verify", "consume", "store", "retire", "publish", "answer"} =>
         req[r].hash \in Invoices
    /\ req[r].at \in {"price", "attach"} => req[r].token \in Tokens

\* The write lock of check_and_consume_payment: a request at "store" holds it; its holder
\* carries a settled invoice that is not yet consumed, so the uncommitted row it wrote is
\* the only one for that invoice.
LockInv ==
  \A r \in Slots :
    /\ req[r].at \in {"consume", "store"} => invoice[req[r].hash].settled
    /\ req[r].at = "store" => writer = r
    /\ writer = r =>
         /\ req[r].at \in {"store", "retire", "publish", "answer"}
         /\ req[r].hash \notin consumed
         /\ invoice[req[r].hash].settled

\* LNBits settles only invoices it issued.
SettledIsIssued == \A h \in Invoices : invoice[h].settled => invoice[h].amount > 0

-----------------------------------------------------------------------------
(* The promise *)

Stage ==
  [h \in Invoices |-> IF h \in consumed THEN "used"
                      ELSE IF invoice[h].settled THEN "paid"
                      ELSE IF invoice[h].amount > 0 THEN "open" ELSE "unissued"]

Promise == INSTANCE PaymentPromise WITH stage <- Stage,
                                        bought <- [h \in Invoices |-> Len(funded[h])]

\* PaidActions implements PaymentPromise: each invoice goes unissued, open, paid, used, one
\* at a time, and a paid action is committed in the step that uses its invoice up.
KeepsPromise == Promise!Spec

=============================================================================
