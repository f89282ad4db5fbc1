----------------------------- MODULE PaymentGate ----------------------------
(***************************************************************************)
(* require_payment with its four protocols: L402 and MPP for Lightning     *)
(* invoices, Tempo transactions, and Stripe's shared payment tokens (SPT). *)
(* A request proves a payment, consumes it, does what was paid for and     *)
(* commits; PaidActions has the routes behind the gate, here an action is  *)
(* one that commits or fails.  The confirm routes take a transaction       *)
(* without the gate and consume it in the same way.                        *)
(*                                                                         *)
(* Prices and amounts are in one currency.  Challenges are not stored: an  *)
(* HMAC binds their fields and their expiry.                               *)
(***************************************************************************)
EXTENDS Naturals

CONSTANTS
  Lightning,  \* invoices that LNBits may hand out
  Tempo,      \* transactions on the Tempo chain
  Stripe,     \* SPTs, each with the PaymentIntent made from it
  Requests,
  Prices,     \* of the routes
  Spellings,  \* ways to write the hash of a transaction that the chain reads as the same hash
  Plain,      \* the one in which invoices and PaymentIntents have theirs
  Sums,       \* bound: the amounts of transactions and SPTs
  None

Payments == Lightning \cup Tempo \cup Stripe
Canonical == Lightning \cup Stripe

\* consumed_payments has the hash as the request spells it.
Keys == (Canonical \X {Plain}) \cup (Tempo \X Spellings)

ASSUME MethodsAssumption ==
  /\ Lightning \cap Tempo = {} /\ (Lightning \cup Tempo) \cap Stripe = {}
  /\ None \notin Payments \cup Requests
ASSUME SpellingsAssumption == Plain \in Spellings
ASSUME PricesAssumption == Prices \subseteq Nat \ {0} /\ Sums \subseteq Nat

VARIABLES
  money,    \* what the payers did, and how much they paid or may be charged
  fresh,    \* the challenges that have not expired
  consumed, \* consumed_payments, committed
  writer,   \* the session that holds the write lock, or None
  req,      \* the requests in flight
  bought,   \* history: the actions committed against each key
  mishaps   \* history: SPTs whose request failed while it had them, payments taken for nothing

gateVars == <<money, fresh, consumed, writer, req, bought, mishaps>>

\* A Lightning challenge is bound to an invoice, and so to its amount.  Tempo's and Stripe's are
\* bound to an amount, and one 402 has both: they are one element here, the amount.
Challenges == Lightning \cup Prices

\* sum is what the payment has to cover: the route's price, or the amount of the challenge.
\* Without the gate a request is a confirm route's.
Calls ==
  [at : {"idle", "verify", "consume", "act"}, pays : Payments \cup {None}, spelled : Spellings,
   sum : Prices \cup {0}, gate : BOOLEAN]

NoCall == [at |-> "idle", pays |-> None, spelled |-> Plain, sum |-> 0, gate |-> TRUE]

KeyOf(call) == <<call.pays, call.spelled>>

GateInit ==
  /\ money = [p \in Payments |-> [state |-> "unissued", sats |-> 0]]
  /\ fresh = {}
  /\ consumed = {}
  /\ writer = None
  /\ req = [r \in Requests |-> NoCall]
  /\ bought = [k \in Keys |-> 0]
  /\ mishaps = {}

-----------------------------------------------------------------------------
(* Payers *)

Paid(p) == money[p].state = "paid"

\* A transaction is sent, an SPT is minted for at most an amount.
Prepare(p, sats) ==
  /\ p \in Tempo \cup Stripe /\ money[p].state = "unissued"
  /\ money' = [money EXCEPT ![p] = [state |-> "open", sats |-> sats]]
  /\ UNCHANGED <<fresh, consumed, writer, req, bought, mishaps>>

\* An invoice is settled, a transaction is final.
Settle(p) ==
  /\ p \notin Stripe /\ money[p].state = "open"
  /\ money' = [money EXCEPT ![p].state = "paid"]
  /\ UNCHANGED <<fresh, consumed, writer, req, bought, mishaps>>

Expire(c) ==
  /\ c \in fresh
  /\ fresh' = fresh \ {c}
  /\ UNCHANGED <<money, consumed, writer, req, bought, mishaps>>

-----------------------------------------------------------------------------
(* 402 *)

Close(r) ==
  /\ req' = [req EXCEPT ![r] = NoCall]
  /\ writer' = IF writer = r THEN None ELSE writer

\* A 402 with a new invoice: for L402 only, or for every method.
Invoice(price, unified) ==
  \E p \in Lightning :
    /\ money[p].state = "unissued"
    /\ money' = [money EXCEPT ![p] = [state |-> "open", sats |-> price]]
    /\ fresh' = IF unified THEN fresh \cup {p, price} ELSE fresh

\* Mutant of Challenge: create_invoice waits for LNBits as long as it takes.
ChallengeWaiting == \E price \in Prices, unified \in BOOLEAN : Invoice(price, unified)

\* The 402 of some route.  require_l402 offers L402 only, _raise_unified_402 every method, and
\* both fail with 502 when LNBits does.
Challenge ==
  \/ \E price \in Prices, unified \in BOOLEAN : Invoice(price, unified)
  \/ UNCHANGED <<money, fresh>>

\* payment_required_challenge, for a request without a credential: when LNBits fails, the 402
\* has the methods that are left.
ChallengeAnyway ==
  \E price \in Prices :
    \/ Invoice(price, TRUE)
    \/ (fresh' = fresh \cup {price} /\ UNCHANGED money)

\* A request without a credential, or with one that is refused at sight: forged, expired, without
\* the preimage, or of too low an amount.  Nothing else waits for its answer.
Discover ==
  /\ Challenge \/ ChallengeAnyway
  /\ UNCHANGED <<consumed, writer, req, bought, mishaps>>

-----------------------------------------------------------------------------
(* A request comes *)

Open(r, call) ==
  /\ req[r].at = "idle"
  /\ req' = [req EXCEPT ![r] = call]
  /\ UNCHANGED <<money, fresh, consumed, writer, bought, mishaps>>

\* The preimage matches the macaroon, which has no expiry; LNBits is asked for the amount.
PresentL402(r, p, price) ==
  /\ p \in Lightning /\ Paid(p)
  /\ Open(r, [NoCall EXCEPT !.at = "verify", !.pays = p, !.sum = price])

\* The preimage matches the challenge, which has the amount: nobody is asked.
PresentMpp(r, p, price) ==
  /\ p \in Lightning /\ Paid(p) /\ p \in fresh /\ money[p].sats >= price
  /\ Open(r, [NoCall EXCEPT !.at = "consume", !.pays = p])

\* What is verified is the amount of the challenge.  extract_tempo_tx_hash hands on the hash as the
\* credential spells it.
PresentTempo(r, p, spelled, asked) ==
  /\ p \in Tempo /\ asked \in fresh
  /\ Open(r, [NoCall EXCEPT !.at = "verify", !.pays = p, !.spelled = spelled, !.sum = asked])

\* confirm_event and confirm_vote with method tempo: the hash is in the body, and no challenge is
\* asked for.
ConfirmTempo(r, p, spelled, price) ==
  /\ p \in Tempo
  /\ Open(r, [NoCall EXCEPT !.at = "verify", !.pays = p, !.spelled = spelled, !.sum = price,
                            !.gate = FALSE])

PresentStripe(r, p, asked) ==
  /\ p \in Stripe /\ asked \in fresh
  /\ Open(r, [NoCall EXCEPT !.at = "verify", !.pays = p, !.sum = asked])

-----------------------------------------------------------------------------
(* The payment is verified *)

\* With a payment of the method that covers the sum.
Verifying(r, method) ==
  /\ req[r].at = "verify" /\ req[r].pays \in method
  /\ money[req[r].pays].sats >= req[r].sum

Proven(r) == req' = [req EXCEPT ![r].at = "consume", ![r].sum = 0]

\* check_payment_status of l402.py: paid, and enough.
Settled(r) ==
  /\ Verifying(r, Lightning)
  /\ Proven(r)
  /\ UNCHANGED <<money, fresh, consumed, writer, bought, mishaps>>

\* Mutant of OnChain: a transaction that is not final is taken.
OnChainEarly(r) ==
  /\ Verifying(r, Tempo)
  /\ Proven(r)
  /\ UNCHANGED <<money, fresh, consumed, writer, bought, mishaps>>

\* The receipt says that the transaction succeeded; the first transfer to us decides.
OnChain(r) ==
  /\ Verifying(r, Tempo) /\ Paid(req[r].pays)
  /\ Proven(r)
  /\ UNCHANGED <<money, fresh, consumed, writer, bought, mishaps>>

Chargeable(r) == Verifying(r, Stripe) /\ ~Paid(req[r].pays)

Charged(r) == money' = [money EXCEPT ![req[r].pays] = [state |-> "paid", sats |-> req[r].sum]]

\* Mutant of Charge: the expiry of the challenge is checked again after the charge.
ChargeThenCheck(r) ==
  /\ Chargeable(r) /\ Charged(r)
  /\ IF req[r].sum \in fresh THEN Proven(r) ELSE Close(r)
  /\ UNCHANGED <<fresh, consumed, writer, bought, mishaps>>

\* The PaymentIntent is created and confirmed: verifying a token charges it.
Charge(r) ==
  /\ Chargeable(r) /\ Charged(r)
  /\ Proven(r)
  /\ UNCHANGED <<fresh, consumed, writer, bought, mishaps>>

\* The token is charged, Stripe's answer does not arrive, and the request is refused.
ChargeLost(r) ==
  /\ Chargeable(r) /\ Charged(r)
  /\ Close(r)
  /\ mishaps' = mishaps \cup ({req[r].pays} \cap Stripe)
  /\ UNCHANGED <<fresh, consumed, writer, bought>>

\* The gate answers with a new challenge, the confirm routes with a 402 that has none.
Denied(r) == IF req[r].gate THEN Challenge ELSE UNCHANGED <<money, fresh>>

\* Not paid, not enough, used up, or LNBits, the chain or Stripe is not reached.
Refuse(r) ==
  /\ req[r].at = "verify"
  /\ Denied(r) /\ Close(r)
  /\ UNCHANGED <<consumed, bought, mishaps>>

-----------------------------------------------------------------------------
(* The payment is consumed, or a new one is asked for *)

\* Mutant of Consume: the hash is not the primary key.
ConsumeAgain(r) ==
  /\ req[r].at = "consume" /\ writer = None
  /\ writer' = r
  /\ req' = [req EXCEPT ![r].at = "act"]
  /\ UNCHANGED <<money, fresh, consumed, bought, mishaps>>

\* The INSERT is flushed under the write lock.
Consume(r) ==
  /\ req[r].at = "consume" /\ writer = None /\ KeyOf(req[r]) \notin consumed
  /\ writer' = r
  /\ req' = [req EXCEPT ![r].at = "act"]
  /\ UNCHANGED <<money, fresh, consumed, bought, mishaps>>

Replay(r) ==
  /\ req[r].at = "consume" /\ writer = None /\ KeyOf(req[r]) \in consumed
  /\ Denied(r) /\ Close(r)
  /\ UNCHANGED <<consumed, bought, mishaps>>

LockTimeout(r) ==
  /\ req[r].at = "consume" /\ writer # None
  /\ Close(r)
  /\ mishaps' = mishaps \cup ({req[r].pays} \cap Stripe)
  /\ UNCHANGED <<money, fresh, consumed, bought>>

Commit(r) ==
  /\ req[r].at = "act"
  /\ consumed' = consumed \cup {KeyOf(req[r])}
  /\ bought' = [bought EXCEPT ![KeyOf(req[r])] = @ + 1]
  /\ Close(r)
  /\ UNCHANGED <<money, fresh, mishaps>>

\* A route that pays for a pending row finds the note stored, or the note to vote on gone, and
\* commits the row's deletion, and the consumption with it.
Burn(r) ==
  /\ req[r].at = "act"
  /\ consumed' = consumed \cup {KeyOf(req[r])}
  /\ mishaps' = mishaps \cup {req[r].pays}
  /\ Close(r)
  /\ UNCHANGED <<money, fresh, bought>>

\* Mutant of ActFails: the consumption was committed on its own.
ActFailsCommitted(r) ==
  /\ req[r].at = "act"
  /\ consumed' = consumed \cup {KeyOf(req[r])}
  /\ mishaps' = mishaps \cup ({req[r].pays} \cap Stripe)
  /\ Close(r)
  /\ UNCHANGED <<money, fresh, bought>>

\* The route raises, or returns without a commit: the consumption is rolled back.
ActFails(r) ==
  /\ req[r].at = "act"
  /\ mishaps' = mishaps \cup ({req[r].pays} \cap Stripe)
  /\ Close(r)
  /\ UNCHANGED <<money, fresh, consumed, bought>>

Crash ==
  /\ req' = [r \in Requests |-> NoCall]
  /\ writer' = None
  /\ mishaps' = mishaps \cup ({req[r].pays : r \in Requests} \cap Stripe)
  /\ UNCHANGED <<money, fresh, consumed, bought>>

-----------------------------------------------------------------------------

Present(r) ==
  \E p \in Payments, sum \in Prices :
    \/ PresentL402(r, p, sum) \/ PresentMpp(r, p, sum) \/ PresentStripe(r, p, sum)
    \/ \E spelled \in Spellings : PresentTempo(r, p, spelled, sum) \/ ConfirmTempo(r, p, spelled, sum)

Proceed(r) ==
  \/ Settled(r) \/ OnChain(r) \/ Charge(r) \/ ChargeLost(r) \/ Refuse(r)
  \/ Consume(r) \/ Replay(r) \/ LockTimeout(r)
  \/ Commit(r) \/ Burn(r) \/ ActFails(r)

GateNext ==
  \/ \E r \in Requests : Present(r) \/ Proceed(r)
  \/ \E p \in Payments : Settle(p) \/ \E sats \in Sums : Prepare(p, sats)
  \/ \E c \in fresh : Expire(c)
  \/ Discover \/ Crash

GateSpec == GateInit /\ [][GateNext]_gateVars

Has(r, p) == req[r].pays = p

\* A request goes on: every await has a timeout.  For a payment that is presented again and again
\* LNBits or the chain answers sooner or later, and the lock and the commit are there.
FairGateSpec ==
  /\ GateSpec
  /\ \A r \in Requests : WF_gateVars(Proceed(r))
  /\ \A p \in Lightning \cup Tempo :
       /\ SF_gateVars(\E r \in Requests : Has(r, p) /\ (Settled(r) \/ OnChain(r)))
       /\ SF_gateVars(\E r \in Requests : Has(r, p) /\ Consume(r))
       /\ SF_gateVars(\E r \in Requests : Has(r, p) /\ Commit(r))

-----------------------------------------------------------------------------
(* Properties *)

Plainly(p) == <<p, Plain>>

Stage == [p \in Canonical |-> IF Plainly(p) \in consumed THEN "used" ELSE money[p].state]

\* An invoice or a token, whatever proves it, is what PaymentPromise says of an invoice: it is
\* taken once, for at most one action, and never before the money has moved.
Promise ==
  INSTANCE PaymentPromise WITH
    Invoices <- Canonical,
    stage <- Stage,
    bought <- [p \in Canonical |-> bought[Plainly(p)]]

KeepsPromise == Promise!Spec

\* Whatever consumes it (the gate's four protocols, the confirm routes), a hash as it is spelled
\* buys one action, recorded with it, and only after the money has moved.
KeyTakenOnce ==
  \A k \in Keys :
    /\ bought[k] <= 1
    /\ bought[k] = 1 => k \in consumed
    /\ k \in consumed => Paid(k[1])

\* tests/test_integration.py:311 "Same payment ID can't be used twice via Payment auth.": of a
\* transaction, that it buys under one spelling only.
TransactionTakenOnce ==
  \A p \in Tempo : \A s, t \in Spellings :
    bought[<<p, s>>] > 0 /\ bought[<<p, t>>] > 0 => s = t

\* An SPT is charged while it is verified, before it is consumed, and cannot be charged again.
\* Unless the request failed after that (Stripe's answer lost, a lock's timeout, a failed action,
\* a crash) or had nothing to do, the charge has bought an action or its request is about to buy
\* one: no check of the gate comes after the charge.
ChargeIsHonoured ==
  \A p \in Stripe :
    Paid(p) /\ p \notin mishaps =>
      \/ bought[Plainly(p)] = 1
      \/ \E r \in Requests : Has(r, p) /\ req[r].at \in {"consume", "act"}

PresentsEnough(r, p) ==
  \E sum \in Prices :
    /\ Paid(p) /\ sum <= money[p].sats
    /\ \/ PresentL402(r, p, sum)
       \/ \E spelled \in Spellings : PresentTempo(r, p, spelled, sum) \/ ConfirmTempo(r, p, spelled, sum)

\* Lightning and Tempo payers lose nothing to expired challenges, crashes, timeouts and failed
\* actions: who goes on presenting a payment that is high enough gets what it pays for, unless
\* there is nothing left to do for it.
RetryIsHonoured ==
  \A p \in Lightning \cup Tempo :
    []<><<\E r \in Requests : PresentsEnough(r, p)>>_gateVars =>
      <>(p \in mishaps \/ \E k \in Keys : k[1] = p /\ bought[k] = 1)

\* Every request is answered, however the others hold the lock and whether or not LNBits, the chain
\* and Stripe are reached.
EveryRequestEnds == \A r \in Requests : []<>(req[r].at = "idle")

=============================================================================
