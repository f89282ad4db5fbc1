# A verification of clankfeed

clankfeed is a paid Nostr relay: notes are stored once a Lightning invoice for them is
settled, notes are ranked by the sats behind them, and zap receipts from other relays move
the ranking. This directory holds TLA+ modules translated from `src/app`, the TLC
configurations that check them on small instances, and proofs for all instances.

## Inventory

The program is one asyncio process (uvicorn, FastAPI), one SQLite file in WAL mode through
SQLAlchemy's async sessions, and an LNBits wallet reached over HTTP. Handlers interleave at
every `await`; SQLite admits one writing transaction at a time.

| Component | State it keeps | Operations | Correct when |
|---|---|---|---|
| Payment gate (`payment.py`, `l402.py`, `mpp.py`, `tempo_pay.py`, `stripe_pay.py`) | none of its own; challenges are bound by an HMAC | `require_payment`, `require_l402`, the verification of a credential of each of four protocols, the 402 challenges | a payment that covers the price opens it once, what is charged is honoured, every request is answered |
| Payment ledger (`lightning.py`) | `consumed_payments`; invoices at LNBits | `create_invoice`, `check_payment_status`, `check_and_consume_payment` | an invoice pays for at most one action, and the record of its use commits with that action |
| Posting routes (`api_v1.py`, `payment.py`) | `nostr_events`, `pending_events` | `submit_event`, `relay_post`, `api_post`, `pay_get`, `pay_post`, `confirm_event` | what is answered 200 and broadcast is stored; a pending note is not lost |
| Votes (`api_v1.py`) | `votes`, the tallies on `nostr_events` | `vote_event`, `confirm_vote` | every paid downvote lowers the tallies once, never below 0 |
| Pending events (`relay.py`, `main.py`) | `pending_events` | `store_pending_event`, expiry, `_cleanup_expired_pending` | a row lives until it is paid for or expires |
| Event store (`relay.py`) | `nostr_events` | `store_event` | ids are unique; of replaceable events only the latest is kept |
| Zaps and ranking (`zaps.py`, `relay.py`) | tallies, `votes`, LNURL caches | `verify_zap_receipt`, `verify_zap_receipt_signer`, `apply_zap_receipt` | a receipt is credited once, and no credit is lost |
| WebSocket relay (`relay.py`, `main.py`) | the connection set, subscriptions, rate windows | EVENT, REQ, CLOSE, AUTH, `broadcast_event` | a subscriber misses no stored event; closed connections leave the set |
| Ingest (`ingest.py`) | per-relay targets, slots and parked receipts; the miss cache of profiles; the hydration times of threads | `_relay_loop`, `_handle_target`, `_handle_receipt`, `fetch_and_store_kind0`, `fetch_and_store_replies` | receipts are verified against the stored target before they count; what the relays have is stored in the end |
| Outbox (`outbox.py`) | background tasks | `schedule_outbox` | only paid local notes go out |
| Queries (`relay.py`, `api_v1.py`) | none | REQ filters, the read API, `get_replies`, `reply_counts`, `get_profile` | a page lacks only what newer replies crowd out; counts and pages agree; answers do not go back |
| Migration (`database.py`) | the schema, a flag in memory | `init_db` | runs at every boot, from databases of every age; loses no tally, backfills once |
| Exchange rates (`rates.py`) | rate cache | sats to dollars | not modelled |
| Nostr, NIP-98, sessions | NIP-98 replay set | signatures, hashes | library-like; no concurrency of its own |
| Web client (`static`) | in the browser | wallet dialogs | not modelled |

They interact through the database and through calls: every paid route calls
`require_payment` (or polls LNBits itself), which flushes a row of `consumed_payments` into
the route's own session; `store_event` or the vote code commits that session; then
`broadcast_event` writes to every subscriber. The WebSocket handler, the ingest loops and
the cleanup task write the same tables from sessions of their own.

What is hard here: the consumption is flushed in one function and committed (or not) in
another; the session holding it owns SQLite's only write lock across later awaits; rows read
before a payment are written after it; two of the routes commit twice; a crash may fall
between any two of these steps. The complete list, with the lines, is under "hazards" in
`PROJECT.json`.

## Modules

| Module | Models |
|---|---|
| `PaymentPromise` | the abstract promise about one invoice: unissued, open, paid, used; spent on one action or burned |
| `PaidActions` | all Lightning-paid routes, the gate, the write lock, the pending table, cleanup and crashes |
| `PaidActionsProofs` | theorems about `PaidActions`: invoices, the lock, the refinement |
| `StoredProofs` | theorems about `PaidActions`: which notes are stored and stay, what invoices credit and burn, what becomes of offers |
| `ZapLedger` | zap receipts from clients and external relays, votes and posts on the tallies of notes; the parking of receipts and the batches of the ingest loops |
| `ZapLedgerProofs` | theorems about `ZapLedger`: receipts and their votes, the lock |
| `ZapTalliesProofs` | theorems about `ZapLedger`: the tallies, and the sums they are compared with |
| `EventStore` | `store_event` from all its callers, with and without the write lock, for the replaceable events of one author |
| `ProfileFetch` | `EventStore` composed with the two callers that ask external relays for a profile, and the miss cache they share |
| `ProfileFetchProofs` | theorems about `EventStore`: success, the latest version, the paid routes; about `ProfileFetch`: it implements `EventStore`, answers move on |
| `RelayConnections` | the registry of WebSocket connections and its limit, subscriptions, the replay after a REQ, and the broadcasts of all tasks |
| `RelayConnectionsProofs` | theorems about `RelayConnections`: who stays registered, the limit; gaps, what causes a loss, what leaks |
| `OriginColumn` | `init_db` on databases of every age, with crashes, and the notes it migrates, with the posts, votes and zaps on them |
| `Threads` | threads of replies on the notes of `OriginColumn`: hydration from external relays, pages, totals, batch counts, the feed |
| `ThreadsProofs` | theorems about `OriginColumn`: tallies, the backfill, posted notes; about `Threads`: it implements `OriginColumn`, pages and batch counts |
| `PaymentGate` | `require_payment` with its four protocols: challenges and their expiry, verification, the charge, consumption, the refusals; the confirm routes with method tempo; the spellings of a hash |
| `PaymentGateProofs` | theorems about `PaymentGate`: a key buys once; for invoices and tokens it implements `PaymentPromise`; charges are honoured |
| `MCPaidActions`, `MCPaidProfiles`, `MCPaidReplay`, `MCZapLedger`, `MCEventStore`, `MCProfileFetch`, `MCRelay`, `MCFeed` | instances for TLC: symmetry, orders of versions, amounts, filters, eras, threads |

The models meet at these points. `PaymentGate` (for invoices and tokens) and `PaidActions` both
implement `PaymentPromise`: the first has every method of payment in front of an action that commits
or fails, the second has every paid route behind the Lightning method. `PaidActions` stores notes
in one step because its callers hold the write lock; `EventStore` shows what the same function
does when they do not, and that the paid callers stay safe (`PaidNeverSplits`); `ProfileFetch`
is proved to implement it, so whatever is fetched, `EventStore`'s theorems hold. `ZapLedger`
takes the paid routes as single steps on a tally (`Post`, `ConfirmVote`) or as a read and a late
write (`ReadVote`, `CastVote`), as the code of each route does it. `Threads` extends
`OriginColumn` and is proved to implement it: a hydrated reply is an `Ingest` there, and the feed is
a set of its rows.

### PaidActions and the code

A *slot* is one HTTP request being served: an asyncio task with its own session. Its `at`
names the await it is suspended in, so an action is the code between two awaits:

| `at` | suspended in |
|---|---|
| `verify` | LNBits' answer, or the preimage check, in `require_payment` or `check_payment_status` |
| `consume` | the flush in `check_and_consume_payment`, waiting for the write lock |
| `challenge` | `create_invoice` of a fresh 402 |
| `store` | `store_event`, or the commit of a vote |
| `retire` | the commit after `db.delete(pending)` |
| `publish` | `broadcast_event` |
| `answer` | the response |
| `price`, `attach` | `create_invoice` for an offer, and the commit of its hash to the pending row |

`consumed`, `row` and `pending` are the *committed* tables. `writer` is the session that
holds SQLite's write lock; its one uncommitted write is the `consumed_payments` row of
`req[writer].hash`. SELECTs before the first write run outside a transaction (the sqlite3
driver begins one at the first INSERT, UPDATE or DELETE), so they see the latest committed
state; rows once loaded are not refreshed, which `req[r].seen` models for `vote_event`. Its UPDATE names the tallies that change
(`Overwritten`), so a vote on a note with both at 0 has no UPDATE and is committed even if the note
was superseded meanwhile (`CastVote`); otherwise that is an error (`VoteRowGone`).
`Close` is the end of `async with async_session()`: a transaction still open is rolled back.

`Supersedes` stands for `store_event`'s order of replaceable events (kind 0 and 3, 10000 to
19999): by `created_at`, then by id. The store actions are only taken under the write lock,
where the `IntegrityError` branch of `store_event` is unreachable.

`funded` is a history variable: the actions committed against each invoice. LNBits is
external and modelled by how the code uses it: it hands out hashes never used before,
settles what it issued, and may fail to answer at any call.

Abstracted in `PaidActions`: the macaroon, HMAC and base64 encodings (a credential is the hash it proves),
what is in a note, rate limits, the free mode without any payment method. Tempo and Stripe payments,
and the confirm routes with method tempo, are in `PaymentGate`, where what they pay for is one step.

### ZapLedger and the code

A *task* is a client (a WebSocket connection, which handles one message at a time, or a vote
request) or the ingest loop of one external relay. Its `at`:

| `at` | suspended in |
|---|---|
| `check` | the lookup of the receipt's id (`relay.py:496`, `ingest.py:400`) |
| `load` | the lookup of the target's row |
| `signer` | the LNURL request that names the signer (`verify_zap_receipt_signer`) |
| `profile` | the commit of an author's profile that the ingest loop fetched |
| `apply` | the flush and commit in `apply_zap_receipt` |
| `answer` | the OK and the broadcast, for a client's duplicate |
| `note` | the commit of a target that arrived from its relay |
| `pay` | a vote, between the read of the row and the commit |
| `down` | an ingest loop without a connection |

`mem` is the copy of the target's row in the task's session and `base` the values it was
loaded with: `database.py:16` sets `expire_on_commit=False`, so a copy is not refreshed, and
SQLAlchemy's UPDATE names only the columns that differ (`Overwritten`). `dirty` are `Vote`
rows that are flushed and not committed. They arise in one place: `apply_zap_receipt` adds
the credit to the session and calls `store_event`, whose lookup flushes it (autoflush) and
which returns early, without a commit, for a receipt stored meanwhile. A connection's session
closes right after and rolls back; a batch of the ingest loop goes on with the same session,
under the write lock, and its next commit carries the duplicate's vote and credit along
(`Duplicate`, `OnlyBatchesRepeatVotes`). `StoreProfile` is such a commit too, and the rollback
of a lost race in it (`ProfileRace`) expires the loaded target, so that the next touch of it
raises and the connection drops.

A receipt is credited for one target (`TargetOf`), is the relay's (`FeeLegs`) or the author's,
and has passed `verify_zap_receipt`, which only computes. `profiles` are the targets whose
author's `lud16` is stored. LNURL is an answer, yes or no. `past` is a history variable: a
target is `voted` once a vote touched it, and `raced` once a commit wrote a copy over a row
that had changed since it was loaded.

External: what SQLAlchemy writes and which session SQLite lets write. Abstracted: how a receipt
is verified, the backoff of the loops, what is fetched besides notes and profiles.

### EventStore and the code

The versions are events of one author and one replaceable kind; `Supersedes` is the order of
`relay.py:286`, by `created_at` and then by id. `get` and `select` are the two SELECTs of
`store_event`, `commit` its flush and commit: an INSERT and the DELETE of the one row that was
read. A paid route flushed its consumption before, so `writer` is the task already when it
reads; the WebSocket relay, `get_profile` and the ingest loops take the lock at `commit`.
A unique id that was stored meanwhile is the `IntegrityError` branch (`InsertRace`).

### ProfileFetch and the code

A request is a writer of `EventStore` that first waits in `asking` for the external relays:
`GET /profile` (`api_v1.py`, caller "profile") or the look-up of an author's `lud16` by an ingest
loop (caller "ingest"). `fetch_and_store_kind0` takes the first relay that answers and cancels
the others, so one version of `outside` is fetched (`Fetched`) or none (`FetchFails`), and the
entry of `_kind0_miss_cache` is dropped or set in the same step that the fetch ends in: two
fetches of one author may be in flight, and end in any order. `miss` counts the entry's TTL down
in ticks. `asking[w].seen` is the row that `GET /profile` read before it asked: with `?refresh=1`
and a failed fetch the answer is this row, not what was stored meanwhile. Two rows for one author
(the violated `OnlyLatestKept`) make `scalar_one_or_none` raise, which `AtMostOne` guards.

### RelayConnections and the code

A *socket* is a WebSocket connection with the task of its handler, one connection after
another; a *route* is an HTTP request. `conn[c].at` is where the handler of `c` is:

| `at` | suspended in |
|---|---|
| `accept` | `ws.accept()`, after the check of `MAX_CONNECTIONS` |
| `greet` | the send of the AUTH challenge, registered already |
| `open` | `receive_text` (or, while `pub[c]` is not idle, the handling of an EVENT) |
| `query` | `query_events`, the subscription registered already |
| `replay` | the sends of stored events and EOSE |

`pub[p]` is what task `p` publishes: `store` (the commit of `store_event`), `stored` (the OK
to a client), `send` (`conn.send` to `target` in `broadcast_event`). What happens between two
sends of a broadcast is decided by CPython's set iterator, which compares the *size* of the set
with the one it began with: another size raises (`SizeChanged`); the same size with other
members goes on in a table that may have been rebuilt, so anyone may be visited or not
(`Shuffled`); the same set goes on to the next match (`Sent`). A step of `NextMatch` passes any
number of connections that do not match at that moment, since the order of a set is arbitrary.

`alive` is whether sends to the client succeed; a client that leaves and a connection closed by
`allow_message` look the same to everybody else. `got`, `owed`, `whole` and `lost` are history:
what a present client was sent, who was subscribed when a broadcast began and still is, whether
the iteration was undisturbed, and which events' last broadcast was not. `raced` is history too:
another handshake was under way when `len(connections)` was compared with `MAX_CONNECTIONS`.

A filter is a pair: the events it matches, in SQL as in memory, and the events `_matches_filter`
raises at. `_handle_req` does not check the types in a filter, and comparing an event's
`created_at` with a `since` that is a string raises. The call is
outside the `try` of `broadcast_event`, so such a filter ends the broadcasts of others
(`FilterRaises`); in SQL the same comparison is legal, so its own REQ may succeed (`Query`) or
raise at a stored event (`QueryRaises`).

Abstracted: `limit`, and the hiding of unzapped external notes (`Threads` has it); refused
messages, AUTH and `/health`, which change nothing here; the receipts and notes that ingest
stores, which are never broadcast.

### OriginColumn and the code

`boot` is the next step of `init_db`: `create_all`, the two renames, the two tallies, the column
`origin`, the backfill. SQLite commits DDL on its own under the sqlite3 driver, so a crash may
leave any prefix of these (`Crash`), and the next boot finds what the last one left. `justAdded`
is `origin_just_added`: it is in memory, which is why a crash before the backfill loses it.
`init_db` lists the columns once per block of statements; nothing else changes them meanwhile, so
looking at each step is the same. `Eras` are the columns that the code's own comments and
conditions expect of an old database.
A tally is in the row whatever its column is called; adding a column makes it 0 (`Emptied`), so
`TalliesSurvive` says that an addition never comes where the old name still holds it.
`Post`, `Ingest`, `Zap` and `Vote` are `store_event` and the tally updates of the program once it
is up: a note posted here can look exactly like an ingested one (`clank` voted down to 0, `ext`
zapped above), and only the flag keeps a later boot from taking it for one. `posted` and
`ingested` are history.

### Threads and the code

A request for a thread (`get_replies`) is at `ask` while `fetch_and_store_replies` waits for the
relays, at `store` while replies are stored one commit each, then at `list` and `count`, which are
two queries. `fresh[p]` is the thread's entry in `_replies_hydrate_at`, in ticks; it is set when
all is stored, also when no relay answered, and not when a store raised. `due` is history: what
was stored when the request came and what the relays gave it. A batch of `reply_counts` is a
sequence, since its SQL `CASE` assigns a reply to the first note of the batch that it tags.
`Feed` is the rule FEED-1 of `query_events`, which a thread skips.

### PaymentGate and the code

`money` is what the payers did: an invoice settled, a transaction sent and final, a shared payment
token (SPT) minted for at most an amount. `fresh` are the challenges that have not expired: for a
Lightning challenge the invoice it is bound to, for Tempo's and Stripe's the amount. None is
stored; an HMAC binds its fields. A request's `at` names the await it is in:

| `at` | suspended in |
|---|---|
| `verify` | LNBits (L402), the RPC of the chain (Tempo), the PaymentIntent (Stripe) |
| `consume` | the flush in `check_and_consume_payment`, waiting for the write lock |
| `act` | the route behind the gate, which holds the lock |

`sum` is what the payment has to cover. L402 asks LNBits whether the invoice covers the *route's*
price, and MPP compares its challenge's amount with it (`PresentMpp`); for Tempo and Stripe it is
the amount of the *challenge*, which the gate does not compare with the route's price.
Verifying a token charges it (`Charge`), so what fails between that and the commit costs the payer:
a lost answer, a lock's timeout, a failed action, a crash. `mishaps` is the history of these, and of
payments of any kind that a token route took for a note that was stored already, or for a vote on a
note that was not there (`Burn`).

`confirm_event` and `confirm_vote` with method tempo verify a transaction without a challenge
(`ConfirmTempo`) and answer a refusal without a new one (`Denied`); from the consumption on they are
like the routes behind the gate.

A key of `consumed_payments` (`Keys`) is a payment's hash *as it is spelled*. For a transaction that
is the text in the credential or the body, hexadecimal digits of either case, which the RPC of the
chain reads as one hash: a transaction has as many keys as `Spellings`. An invoice has one. Its hash
is in a macaroon or a challenge that this program signed, in the spelling of LNBits; on the confirm
routes LNBits, which is external, looks up the text it is given and knows its own spelling only.
A PaymentIntent's id comes from Stripe.

## Runs

| Run | Shows |
|---|---|
| `paid_tokens` | posting and token routes, two requests at once: one action per invoice, the lock invariant, published notes are stored, credits are covered, only the token routes can burn a payment, offers are not lost, and `PaymentPromise` is implemented |
| `paid_profiles` | two versions of a profile through every posting and voting route: the later, once stored, stays; tallies are naturals; invoices keep their promise |
| `paid_replay` (violated) | one invoice is answered 200 twice |
| `paid_tally` (violated) | a note's `sats_clank` exceeds what was paid |
| `zaps` | two clients and an ingest loop, two receipts for one note, votes and a post: nothing is counted twice, a receipt and its vote go together, and a tally is exact unless a late write or a vote touched it |
| `zap_face_value` (violated) | two receipts verified at once: one zap is lost |
| `profile_fetch` | two requests of all kinds, two versions of a profile elsewhere, one restart: success means stored, the latest version stays, a paid route adds no second row, every store ends, answers move on, and a profile that a relay has is stored in the end in spite of the miss cache |
| `latest_kept` (violated) | two unlocked callers leave two rows for one author |
| `relay` | two connections and a route, a stored and an ephemeral event, a filter for all events and one that raises: what a subscriber has not been sent is on its way unless a broadcast was cut short; a broadcast is cut short only for three causes; an undisturbed one reaches all; nobody present leaves the registry; connections beyond the limit raced in their handshake; only a failed greeting stays in the registry |
| `feed` | databases of five ages, two boots, a note with a reply and a reply to both, two relays: no tally is lost by a boot, posted notes stay in the feed, the backfill finds what it has to unless a crash came before it, a page of a thread lacks only what newer replies crowd out, batch counts agree with it up to shared replies, and a reply that the relays keep is stored in the end |
| `gate` | an invoice, a transaction and a token, two requests at a time: each buys once and after the money moved, the invoice and the token keep `PaymentPromise`, a charge is honoured unless its request failed; under fairness, who presents an invoice or a transaction again and again gets its action, and every request is answered |
| `gate_spellings` (violated) | one transaction buys under each spelling of its hash |

Bounds of the `PaidActions` runs: two slots (the lock has one holder and one waiter; a third waiter only repeats the
second), two invoices (one replayed, one to replace it on a pending row), one token with two
payers, two notes (one seeded, one not; or two versions of a profile), prices 1 and 2 (the
minimum and one above it). A slot serves any number of requests one after another, so a
behaviour is not bounded in length. Slots, invoices and tokens are symmetric; no temporal
property other than a safety one is checked under symmetry.

Bounds of `zaps`: two clients and one loop are three tasks, one to hold the lock, one to wait
for it, and one to change the row meanwhile; from a database's point of view the single
receipts of a second relay are a client's (they differ in `FetchProfile` and in parking, which
are a relay's own). Two receipts, of one leg and of both amounts 1 and 2 against a vote of 2,
so that the floor is met. `MaxParked` is 2: one relay sends a receipt twice, or both, for a
note it has not sent. One target: targets share nothing but the lock and `MAX_PENDING_TARGETS`,
whose full case (the receipt is forgotten) therefore does not occur here; the proofs cover it.
`profile_fetch`: two versions are enough for every race of answers; the tick count of the miss
cache is 2, so that an entry is renewed before it expires. Restarts are bounded by 1 since a
restart only forgets.
`latest_kept` has three versions, since with two a replacement of a replacement does not occur.
`relay`: two connections and a route are enough for each disturbance: one leaves while another
is still to be visited (`SizeChanged`), one leaves and one joins (`Shuffled`), a publisher that
is its own subscriber, two broadcasts at once of which one removes the other's publisher
(`MaxPublishing` is 2: a third adds no kind of disturbance). One subscription id: a second only
adds to what a connection matches. `MaxConnections` is 1, so that the second connection is
refused unless their handshakes race.
`feed`: `PageLimit` and `FetchLimit` are 1, so that both bind with two replies; one request
thread is enough, since requests share only the rows, the entry and the notes of relays, which
`Elsewhere`, `Elapse` and the loops of one request change under it as well; two boots are a boot
that dies and one that takes it up. Tallies are 0 and 1. The votes, zaps and old rows are of one
note (`Credited`, `Old`), since rows do not touch each other; the proofs have any number.
`gate`: one price: amounts at, below it (`Sums` is 0 and 1); the comparison with another route's price is
the same comparison. One payment of each kind, since payments share only the lock, and two
requests contend for each. `gate` has one spelling, for the time that liveness takes to check. What
another one adds is a second key of the same transaction: `gate_spellings` has two, and
`KeysOnce` is proved for any set of them.

Sizes: `paid_profiles` has 949 thousand states, `zaps` and `paid_tokens` are of the same order,
`relay` 1.3 million (under symmetry), `feed` 372 thousand, `profile_fetch` 140 thousand, `gate`
66 thousand.

Fairness. asyncio runs every task that can run, and every await ends: httpx after 10 s
(`lightning.py`), SQLite's lock after 30 s (`database.py:14`), the external relays after the
timeouts of `ingest.py`. So the steps of a request that wait for nobody are weakly fair
(`Serve`, `Step`, `Proceed`), and so is the clock of a cache (`Tick`, `Elapse`). What can be refused by
others is strongly fair only where it is tried again and again: of the fetches made for ever one
reaches a relay (`ProfileFetch`, `Threads`), of the stores tried for ever one gets the lock, of the
proofs of one payment presented for ever one is verified and consumed (`PaymentGate`, for
`RetryIsHonoured` only). These are assumptions on the relays, LNBits and the chain, which the
properties name. Clients, payers, expiry, restarts and crashes are not fair; `PaidActions`,
`ZapLedger`, `RelayConnections` and `OriginColumn` assume no fairness at all.

### What the violated runs show

`paid_replay`: `store_event` returns at `relay.py:277` for a note that is stored already.
Its callers `submit_event`, `relay_post` and `api_post` do not commit, so the consumption is
rolled back although the client got 200 and subscribers got the note again. The same invoice
then opens the gate a second time. `PaidOnce` still holds: at most one of the answers has an
action committed against the invoice.

`paid_tally`: `pay_get` invoices `POST_PRICE_SATS` whatever the pending row asks for and
attaches that invoice to the row; `confirm_event` credits the row's `amount_sats`.
`GateCreditCovered` states the part that holds: behind `require_payment` the settled amount
covers the credit. (`pay_post` and `api_post` err the other way: they store a paid note with
`sats_clank = 0`.)

`zap_face_value`: both receipt handlers load the target, await the LNURL request, and write
`target.sats_ext + amount` from what they loaded. The second commit overwrites the first.
Both receipts are stored, so neither is ever credited again. `ExactUnlessRaced` states that
this late write and the floor of votes are the only two sources of inexact tallies, and
`NoInflation` that their error is always downward.

`latest_kept`: two unlocked callers read that no version is stored (or the same old one), and
both insert. From then on `scalar_one_or_none` raises `MultipleResultsFound` for this author in
`store_event`, `get_profile` and `get_author_lud16`, and nothing in the code deletes the
second row. `LatestStays` holds nevertheless.

`gate_spellings`: `extract_tempo_tx_hash` and the confirm routes hand the transaction's hash to
`check_and_consume_payment` as the client wrote it, and the primary key compares texts. What holds is
`KeyTakenOnce`: each spelling buys once. `tempo_pay.py` compares every other
hexadecimal value in lower case; the hash is the one they leave as it comes.

### What else differs from a comment or an expectation

These have no run of their own; the models contain the first two, the others are outside them.

- `broadcast_event` says at `relay.py:76` that it sends an event to all connections with matching
  subscriptions. Any connection that joins or leaves while it awaits a send makes
  the iteration raise. Those it had not come to get nothing, and the caller fails: an HTTP route
  answers 500 for a note that is stored and paid for, and the handler of a publishing connection
  closes that connection. An ill-typed filter does the same whatever joins or leaves
  (`LossHasCause` lists the causes; `WholeReachesAll` is the docstring without them). For a stored
  event the gap lasts until the next REQ; an ephemeral one (the NIP-47 responses) is gone. `NoGap`
  states that a cut-short broadcast is the only source of gaps (besides a publisher that leaves
  before its OK is sent, after which there is no broadcast at all).
- `reply_counts`: the comment at `relay.py:171` says that thread and counts must agree. A reply
  that tags two notes of a batch is counted for the first only. `CountsAgreeUnlessShared` says
  exactly that.
- `query_events` prefilters `#e` in SQL by the tag's text with nothing after the id
  (`relay.py:204`). A reply whose e-tag has a relay hint or a marker passes the live filter and is
  missing from the replay of a REQ; `get_replies` finds it.
- `confirm_event`, for a note paid in dollars, holds the write lock while it asks for the exchange
  rate (`rates.py`), since the consumption is flushed before.
- `confirm_event` with method tempo verifies that the transaction covers `TEMPO_PRICE_USD`
  (`api_v1.py:487`) and credits the row's own `amount_usd` (`api_v1.py:511`), which may be larger;
  `confirm_vote` verifies the row's.
- A negative `limit` of a REQ is not clamped, and `authed_pubkeys` is never read.

## Proofs

`PaidActionsProofs` proves, for any number of slots, notes, invoices and tokens, any price
and any set of routes (from the assumptions on constants named in `PaidActions`):

- `TypeCorrect`: `Spec => []TypeOK`
- `PaidOnce`: `Spec => []OneActionPerInvoice`
- `LockHeld`: `Spec => []LockInv`
- `Implements`: `Spec => KeepsPromise`

`OneActionPerInvoice` is not inductive: a request at `store` commits without looking again,
so one has to know that its invoice settled and is not consumed yet. That is `LockInv`: the
holder of the lock carries a settled, unconsumed invoice, and a request at `store` is the
holder. It is kept because the lock excludes every other commit until the holder commits or
closes. `Carries` says which fields a request has at each step, `SettledIsIssued` that a
fresh hash cannot be one in use. The inductive invariant is

    IInv == TypeOK /\ Carries /\ LockInv /\ OneActionPerInvoice /\ SettledIsIssued

with one lemma for each way an action can touch it: `CloseInv`, `GotoInv`, `CommitInv`,
`BurnInv`, `IssueInv`, `OpenInv`, `QuietInv`. For the refinement every step is shown to be a
`PaymentPromise` step of one invoice (`IssueKept`, `SettleKept`, `CommitKept`, `BurnKept`)
or to leave the mapped variables alone (`StutterKept`).

`StoredProofs` builds on these, for any strict order `Supersedes`:

- `OnlyLatest`: `Spec => []OneReplaceable` (of two versions at most one is stored; no run checks it)
- `Published`: `Spec => []PublishedIsStored`
- `Monotone`: `Spec => NeverReverts`

The invariant here is `SInv`: `IInv`, the two properties themselves, `NoteInv` (what a
request knows of the note it carries) and that a note whose pending row is being deleted is
kept. `StoreNewRows` says what one `StoreNew` does to the set of stored notes and `OtherRows`
that nothing else changes it. From these `KeptStays`: a note that is stored or superseded by
a stored one stays so, because when its superseder is itself replaced, the replacement
supersedes both (this is where the transitivity of `Supersedes` is needed).

The same module has the theorems about money and tokens:

- `CreditCovered`: `Spec => []GateCreditCovered`
- `BurnedSeldom`: `Spec => BurnedOnlyByTokenRoutes`
- `OffersKept`: `Spec => OfferNotLost`

`CoverInv` follows a request through the gate: what it will credit is at most its price, its
price at most the amount of the invoice it presents, and an amount does not change once issued
(`AmountsStay`). `TokenInv` says what a request on a token route knows of its pending row: the
note and the kind stay those of the row, also when another request or the cleanup deletes it
(`PendingStays`), so a burn on these routes and a deletion can only be the ones the properties
allow.

The first half of `ProfileFetchProofs` is about `EventStore`, and proves, for any number of tasks and
versions and any strict total order:

- `TypeCorrect`: `Spec => []TypeOK`
- `Success`: `Spec => []SuccessIsKept`
- `Latest`: `Spec => LatestStays`
- `PaidSafe`: `Spec => PaidNeverSplits`

The invariant says of a task at `commit` that the row it is to delete is one its event
supersedes, and of a paid task that it holds the lock and that the stored rows are still those
it read. `Latest` then follows from the transitivity of the order as in `StoredProofs`.

`ZapLedgerProofs` proves, for any number of clients, relays, receipts and notes, any amounts
and limits:

- `TypeCorrect`: `Spec => []TypeOK`
- `VoteWithReceipt`: `Spec => []StoredWithItsVote`
- `LockRarely`: `Spec => []LockOnlyOfDuplicates`
- `RepeatsAreBatches`: `Spec => OnlyBatchesRepeatVotes`

`StoredWithItsVote` is not inductive: a commit also adds votes for what its session has
flushed before, so these must be receipts that are stored. `Fits` says so for every session,
and in which steps a session can have such votes at all; with it the write lock can only be
held by a running handler. `IInv == TypeOK /\ StoredWithItsVote /\ SessionInv` is kept by
every step: `SessionStep`, `GoOnInv` and `FailInv` treat the actions that move, finish or break
a session, `CommitTypes` and `CommitVotes` those that commit.

`ZapTalliesProofs` builds on these and proves, for the same constants:

- `NotInflated`: `Spec => []NoInflation`
- `ExactUntilRaced`: `Spec => []ExactUnlessRaced`

Neither is inductive: a tally is written from a copy of the row that a session read any number of
steps before. What makes a late write harmless upward is which receipts such a copy can stand for.
So `TallyInv` says of every session (`Good`, `Kept`) that the copy it holds is covered by the
receipts stored for its target, without the one it is about to apply (`Held`), and that the values
it was loaded with are covered by those that are not `dirty`; a write then adds the sats of one
receipt to what is covered without it (`CoversRaised`). It says of the rows (`RowFits`) that they
are covered, and exact while nothing raced. For `ExactUnlessRaced` a commit that carries a
duplicate along (`Duplicate`) must count as raced: the values that a session with something dirty
was loaded with are short of a stored receipt, so an exact row is not the row it read
(`DirtyIsLate`), and the commit finds it changed.

The sum over the stored receipts is a fold in an order that nothing fixes, and that one receipt
more adds its sats (`SumWithout`, `SumMonotone`) is a fact about every finite set. The library's
induction rules for it take a predicate as a parameter; the proofs use instead that strict
inclusion is well founded on the subsets of a finite set, so among sets that refute a claim there
is a smallest one (`Smallest`). With that the fold's function exists, is unique, and steps as
expected (`IterExists`, `IterUnique`, `SumNonempty`).

The second half of `ProfileFetchProofs` proves, for any number of requests and versions and any TTL:

- `FetchTypeCorrect`: `FetchSpec => []FetchTypeOK`
- `FetchImplementsStore`: `FetchSpec => Spec`, the specification of `EventStore`
- `FetchKeepsProfiles`: `FetchSpec => []SuccessIsKept /\ LatestStays /\ PaidNeverSplits`
- `ProfileMovesOn`: `FetchSpec => AnswersMoveOn`

Every step of a fetch is a step of `EventStore` or leaves its variables alone, so `EventStore`'s
theorems carry over, which `FetchKeepsProfiles` states of the composition. For `AnswersMoveOn` one
has to know that what was shown, and what a request has seen, is stored or superseded by what is
stored (`ShownKept`, `SeenKept`), which `LatestStays` keeps true; a row read again is therefore
not older.

`RelayConnectionsProofs` proves, for any number of sockets, routes, events, filters and
subscriptions and any limits:

- `RelayTypeCorrect`: `Spec => []TypeOK`
- `LiveStay`: `Spec => []LiveStayRegistered`
- `LimitHolds`: `Spec => []LimitUnlessRaced`
- `GapFree`: `Spec => []NoGap`
- `WholeReaches`: `Spec => WholeReachesAll`
- `LossCaused`: `Spec => LossHasCause`
- `GreetingsLeak`: `Spec => OnlyGreetingsLeak`

`LiveStayRegistered` needs that what a broadcast is about to remove (`dead`) is gone for good
(`DeadAreGone`), since a socket is not used again while a broadcast holds it. `LimitUnlessRaced`
counts the connections in the handshake too: it grows only by one that began alone, and then
nobody else is in the handshake and the check has just counted everybody. A registration only
moves a connection within the counted set (`HandshakeIsOutside`). The steps that open nothing,
greet nobody and remove only dead connections keep all of it (`Calm`).

`NoGap` is not inductive. An event may be broadcast twice, and when a broadcast that was not
disturbed ends, the event is no longer lost, although its first broadcast left gaps. So the
invariant `RInv` says of every undisturbed broadcast that each matching subscriber has been sent
the event, will be by its own replay, or is still to be visited (`Covered`), and the same of those
it owes an event that is not stored (`OwedInv`). `TasksInv` ties the fields of a task to its step,
and `Early` says that a connection has no subscription before its first REQ. Each step of a
broadcast then either advances (`Advances`), starts or stores, or stops with a cause (`Stops`,
`Cause`), and each step of a handler moves connections without taking from a live one what it
was sent (`Moved`).

`ThreadsProofs` proves about `OriginColumn`, for any set of notes, any ages, tallies and number of
boots:

- `DbTypeCorrect`: `DbSpec => []DbTypeOK`
- `PostedStay`: `DbSpec => []PostedHereIsShown`
- `Backfilled`: `DbSpec => []BackfilledUnlessCrashed`
- `TalliesKept`: `DbSpec => TalliesSurvive`

They share one invariant, which says what the columns mean for the rows (`TalliesHaveColumns`: a
tally without a column is 0), how far a boot at each step has come (`Migrated`), that the flag of
the backfill is only up before anything is posted (`JustAdded`, `PostedHere`), and where
the notes that are to be found stand (`Found`).

About `Threads` it proves, for any number of requests and relays and any limits:

- `FeedImplementsDb`: `FeedSpec => DbSpec`
- `FeedKeepsNotes`: `FeedSpec => []PostedHereIsShown /\ []BackfilledUnlessCrashed /\ TalliesSurvive`
- `FeedTypeCorrect`: `FeedSpec => []FeedTypeOK`
- `PagesShowWhatIsDue`: `FeedSpec => []AnswerShowsWhatIsDue`
- `CountsAgree`: `FeedSpec => []CountsAgreeUnlessShared`

A request's page is judged several steps after its `due` was taken, so `FeedInv` says from the start
(`Answers`) that what is due is stored and is a reply to the parent. It stays so because no step
unstores a note (`StoredStays`), whatever is ingested, posted or migrated meanwhile and whoever
crashes. Then the page is right when it is taken (`PageShows`): the newest of a finite set are all
newer than the rest (`NewestIsNewer`), and as many as the limit if any are left out
(`NewestFull`). Later replies raise the total only. `CountsAgree` holds in every state by the shape
of the query: the note that the `CASE` picks is the first of the batch that a reply tags
(`FirstParentIs`), so what is counted for a note are its replies less those of the notes before it
(`CountedFor`).

`PaymentGateProofs` proves, for any number of payments and requests, any prices and amounts:

- `GateTypeCorrect`: `GateSpec => []GateTypeOK`
- `KeysOnce`: `GateSpec => []KeyTakenOnce`
- `ChargesHonoured`: `GateSpec => []ChargeIsHonoured`
- `GateImplements`: `GateSpec => KeepsPromise`

They hold for any set of spellings too. A request goes on to consume only with a payment that was
made, and money that was paid stays paid over any await (`Carries`); the holder of the lock has a
key that is not consumed, so its commit is the key's first (`SpendInv`); what is consumed has bought
or is a mishap (`Taken`). The refinement is for invoices and tokens, which have one key each
(`PlainKey`): every step issues, settles, spends or burns one of them, or leaves them alone, as
whatever happens to a transaction does (`TempoKept`). For transactions there is no such theorem:
`gate_spellings` refutes it.

Every invariant that a run checks is proved, and every safety property of steps. Only
model-checked: the liveness properties (`EveryStoreEnds`, `EventuallyProfiled`,
`EventuallyThreaded`, `RetryIsHonoured`, `EveryRequestEnds`), which are out of the prover's reach,
and the violations.

## Plan

Done: the modules above. What could follow, in this order:

1. The split of a zap's amount and the LNURL cache of `zaps.py`, the sliding window of
   `allow_message` and the tag prefilter of `query_events`, as operators checked against
   reference definitions.
2. The backoff of the ingest loops; the rate cache of `rates.py` and the lock that
   `confirm_event` holds across it; the replay set of NIP-98.

## Not modelled

- `outbox.py`: a note is sent to each external relay once, with a timeout and no retry, and no
  state is kept. What it delivers is `PublishOutside`.
- `rates.py` (the cache and the conversion of sats to dollars): amounts and prices are in one
  currency.
- The computations of `verify_zap_receipt`, LNURL and its cache: a receipt of the models has
  passed them or not.
- The sorts and value filters of `read_events`, the SQL prefilter of tags: queries that change no
  state.
- `allow_message`, slowapi and other middleware: a client over the limit is one that is lost.
- NIP-98, sessions, signatures and encodings: no await between check and use.
- The columns `init_db` adds to the other two tables, which come in the same way, and the
  encryption of legacy account keys; `accounts.py`, which no router includes.
- The free mode without a payment method; the web client; wording and layout of responses.
