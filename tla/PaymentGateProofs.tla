-------------------------- MODULE PaymentGateProofs --------------------------
(***************************************************************************)
(* The gate of PaymentGate, for any number of payments and requests, any   *)
(* prices and amounts, and any ways to write a hash: every key of          *)
(* consumed_payments buys once, invoices and tokens keep PaymentPromise,   *)
(* and what is charged is honoured.                                        *)
(*                                                                         *)
(* A request that goes on to consume carries a payment that was made: the  *)
(* money is never given back, so this stays true over any await.           *)
(***************************************************************************)
EXTENDS PaymentGate, TLAPS

Money == [state : {"unissued", "open", "paid"}, sats : Nat]

GateTypeOK ==
  /\ money \in [Payments -> Money]
  /\ consumed \subseteq Keys
  /\ writer \in Requests \cup {None}
  /\ req \in [Requests -> Calls]
  /\ bought \in [Keys -> Nat]

\* What a request knows of its payment.
Carries ==
  \A r \in Requests :
    /\ req[r].at # "idle" => req[r].pays \in Payments /\ KeyOf(req[r]) \in Keys
    /\ req[r].at = "verify" => req[r].sum \in Prices
    /\ req[r].at = "verify" /\ req[r].pays \in Lightning => Paid(req[r].pays)
    /\ req[r].at \in {"consume", "act"} => Paid(req[r].pays)
    /\ req[r].at = "act" => writer = r /\ KeyOf(req[r]) \notin consumed

Taken ==
  /\ KeyTakenOnce
  /\ \A k \in consumed : bought[k] = 1 \/ k[1] \in mishaps
  /\ \A p \in Payments : money[p].state = "unissued" => money[p].sats = 0

GInv == GateTypeOK /\ Carries /\ Taken /\ ChargeIsHonoured

-----------------------------------------------------------------------------
(* How a step touches the money and the requests *)

LEMMA NoCallOK == NoCall \in Calls /\ NoCall.at = "idle" /\ NoCall.pays = None
BY SpellingsAssumption DEF NoCall, Calls

\* The key of an invoice or a token is its hash as it was handed out, and no other payment's.
LEMMA PlainKey ==
  /\ \A p \in Canonical : Plainly(p) \in Keys
  /\ \A k \in Keys : k[1] \in Payments /\ (k[1] \in Canonical => k = Plainly(k[1]))
BY MethodsAssumption DEF Plainly, Keys, Canonical, Payments

\* Money that changes for one payment, to another state that is not paid before.
LEMMA MoneyOne ==
  ASSUME GInv, NEW p \in Payments, NEW m \in Money, ~Paid(p),
         money' = [money EXCEPT ![p] = m], m.state # "unissued"
  PROVE  /\ money' \in [Payments -> Money]
         /\ money'[p] = m
         /\ \A x \in Payments : x # p => money'[x] = money[x]
         /\ \A x \in Payments : Paid(x) => money'[x].state = "paid"
         /\ \A x \in Payments : money'[x].state = "unissued" => money'[x].sats = 0
<1>1. money \in [Payments -> Money]
  BY DEF GInv, GateTypeOK
<1>2. money' \in [Payments -> Money] /\ money'[p] = m
  BY <1>1
<1>3. \A x \in Payments : x # p => money'[x] = money[x]
  BY <1>1
<1> QED BY <1>2, <1>3 DEF Paid, GInv, Taken

\* The 402s issue at most one invoice.
LEMMA ChallengeForm ==
  ASSUME Challenge \/ ChallengeAnyway
  PROVE  \/ money' = money
         \/ \E p \in Lightning, price \in Prices :
              /\ money[p].state = "unissued"
              /\ money' = [money EXCEPT ![p] = [state |-> "open", sats |-> price]]
BY DEF Challenge, ChallengeAnyway, Invoice

\* Steps that change the money and no request: payers, and the 402s.
LEMMA MoneyForm ==
  ASSUME GInv,
         \/ money' = money
         \/ \E p \in Lightning, price \in Prices :
              /\ money[p].state = "unissued"
              /\ money' = [money EXCEPT ![p] = [state |-> "open", sats |-> price]]
         \/ \E p \in Tempo \cup Stripe, sats \in Sums :
              /\ money[p].state = "unissued"
              /\ money' = [money EXCEPT ![p] = [state |-> "open", sats |-> sats]]
         \/ \E p \in Payments \ Stripe :
              /\ money[p].state = "open"
              /\ money' = [money EXCEPT ![p].state = "paid"]
  PROVE  /\ money' \in [Payments -> Money]
         /\ \A p \in Payments : Paid(p) => money'[p].state = "paid"
         /\ \A p \in Stripe : money'[p].state = "paid" => Paid(p)
         /\ \A p \in Payments : money'[p].state = "unissued" => money'[p].sats = 0
<1>0. money \in [Payments -> Money]
  BY DEF GInv, GateTypeOK
<1>1. ASSUME NEW p \in Payments, NEW sats \in Nat, money[p].state = "unissued",
             money' = [money EXCEPT ![p] = [state |-> "open", sats |-> sats]]
      PROVE  /\ money' \in [Payments -> Money]
             /\ \A x \in Payments : Paid(x) => money'[x].state = "paid"
             /\ \A x \in Payments : money'[x].state = "paid" => Paid(x)
             /\ \A x \in Payments : money'[x].state = "unissued" => money'[x].sats = 0
  <2>1. PICK m \in Money : m = [state |-> "open", sats |-> sats]
    BY DEF Money
  <2>2. m.state = "open" /\ ~Paid(p) /\ money' = [money EXCEPT ![p] = m]
    BY <1>1, <2>1 DEF Paid
  <2> QED BY <2>2, MoneyOne DEF Paid
<1>2. ASSUME NEW p \in Payments \ Stripe, money[p].state = "open",
             money' = [money EXCEPT ![p].state = "paid"]
      PROVE  /\ money' \in [Payments -> Money]
             /\ \A x \in Payments : Paid(x) => money'[x].state = "paid"
             /\ \A x \in Stripe : money'[x].state = "paid" => Paid(x)
             /\ \A x \in Payments : money'[x].state = "unissued" => money'[x].sats = 0
  <2>1. PICK m : m = [money[p] EXCEPT !.state = "paid"]
    OBVIOUS
  <2>2. m \in Money /\ m.state = "paid"
    BY <1>0, <2>1 DEF Money
  <2>3. ~Paid(p) /\ money' = [money EXCEPT ![p] = m]
    BY <1>2, <2>1 DEF Paid
  <2> QED BY <1>2, <2>2, <2>3, MoneyOne DEF Paid, Payments
<1>3. CASE money' = money
  BY <1>0, <1>3 DEF Paid, GInv, Taken, Payments
<1>4. Prices \subseteq Nat /\ Sums \subseteq Nat /\ Lightning \subseteq Payments
      /\ Tempo \cup Stripe \subseteq Payments
  BY PricesAssumption DEF Payments
<1> QED BY <1>1, <1>2, <1>3, <1>4

-----------------------------------------------------------------------------
(* The invariant *)

\* Nothing is consumed, and what was paid stays so.
LEMMA TakenStays ==
  ASSUME GInv, consumed' = consumed, bought' = bought, mishaps \subseteq mishaps',
         \A p \in Payments : Paid(p) => money'[p].state = "paid",
         \A p \in Payments : money'[p].state = "unissued" => money'[p].sats = 0
  PROVE  Taken'
<1>1. KeyTakenOnce'
  BY PlainKey DEF GInv, Taken, KeyTakenOnce, Paid
<1> QED BY <1>1 DEF GInv, Taken

\* No request moves.
LEMMA PayersInv ==
  ASSUME GInv, UNCHANGED <<consumed, writer, req, bought, mishaps>>,
         \/ money' = money
         \/ \E p \in Lightning, price \in Prices :
              /\ money[p].state = "unissued"
              /\ money' = [money EXCEPT ![p] = [state |-> "open", sats |-> price]]
         \/ \E p \in Tempo \cup Stripe, sats \in Sums :
              /\ money[p].state = "unissued"
              /\ money' = [money EXCEPT ![p] = [state |-> "open", sats |-> sats]]
         \/ \E p \in Payments \ Stripe :
              /\ money[p].state = "open"
              /\ money' = [money EXCEPT ![p].state = "paid"]
  PROVE  GInv'
<1>1. /\ money' \in [Payments -> Money]
      /\ \A p \in Payments : Paid(p) => money'[p].state = "paid"
      /\ \A p \in Stripe : money'[p].state = "paid" => Paid(p)
      /\ \A p \in Payments : money'[p].state = "unissued" => money'[p].sats = 0
  BY MoneyForm
<1>2. GateTypeOK'
  BY <1>1 DEF GInv, GateTypeOK
<1>3. Carries'
  BY <1>1 DEF GInv, Carries, Paid
<1>4. Taken'
  BY <1>1, TakenStays
<1>5. ChargeIsHonoured'
  BY <1>1 DEF GInv, ChargeIsHonoured, Paid, Has
<1> QED BY <1>2, <1>3, <1>4, <1>5 DEF GInv

\* The request ends, and the session is closed.
LEMMA CloseInv ==
  ASSUME GInv, NEW r \in Requests, Close(r), bought' = bought, consumed' = consumed,
         mishaps \subseteq mishaps',
         req[r].at \in {"consume", "act"} /\ req[r].pays \in Stripe =>
           req[r].pays \in mishaps' \/ bought[Plainly(req[r].pays)] = 1,
         Challenge \/ money' = money
  PROVE  GInv'
<1>1. /\ money' \in [Payments -> Money]
      /\ \A p \in Payments : Paid(p) => money'[p].state = "paid"
      /\ \A p \in Stripe : money'[p].state = "paid" => Paid(p)
      /\ \A p \in Payments : money'[p].state = "unissued" => money'[p].sats = 0
  BY MoneyForm, ChallengeForm
<1>2. req' = [req EXCEPT ![r] = NoCall] /\ writer' = IF writer = r THEN None ELSE writer
  BY DEF Close
<1>3. req' \in [Requests -> Calls] /\ req'[r] = NoCall /\ \A q \in Requests : q # r => req'[q] = req[q]
  BY <1>2, NoCallOK DEF GInv, GateTypeOK
<1>4. GateTypeOK'
  BY <1>1, <1>2, <1>3 DEF GInv, GateTypeOK
<1>5. Carries'
  <2>1. ASSUME NEW q \in Requests, q # r, req[q].at = "act"
        PROVE  writer' = q
    BY <1>2, <2>1 DEF GInv, Carries
  <2> QED BY <1>1, <1>3, <2>1, NoCallOK DEF GInv, Carries, Paid
<1>6. Taken'
  BY <1>1, TakenStays
<1>7. ChargeIsHonoured'
  <2>1. SUFFICES ASSUME NEW p \in Stripe, money'[p].state = "paid", p \notin mishaps',
                        bought[Plainly(p)] # 1
                 PROVE  \E q \in Requests : req'[q].pays = p /\ req'[q].at \in {"consume", "act"}
    BY DEF ChargeIsHonoured, Paid, Has
  <2>2. PICK q \in Requests : req[q].pays = p /\ req[q].at \in {"consume", "act"}
    BY <1>1, <2>1 DEF GInv, ChargeIsHonoured, Has
  <2>3. q # r
    BY <2>1, <2>2
  <2> QED BY <1>3, <2>2, <2>3
<1> QED BY <1>4, <1>5, <1>6, <1>7 DEF GInv

\* A request goes from one step to another, with a payment that is good for it.
LEMMA GoInv ==
  ASSUME GInv, NEW r \in Requests, NEW call \in Calls, req' = [req EXCEPT ![r] = call],
         UNCHANGED <<money, consumed, bought, mishaps>>,
         writer' \in Requests \cup {None},
         \A q \in Requests : q # r /\ writer = q => writer' = q,
         call.at # "idle", call.pays \in Payments, KeyOf(call) \in Keys,
         call.at = "verify" => call.sum \in Prices,
         call.at = "verify" /\ call.pays \in Lightning => Paid(call.pays),
         call.at \in {"consume", "act"} => Paid(call.pays),
         call.at = "act" => writer' = r /\ KeyOf(call) \notin consumed,
         req[r].at \in {"consume", "act"} => call.pays = req[r].pays /\ call.at \in {"consume", "act"}
  PROVE  GInv'
<1>1. req' \in [Requests -> Calls] /\ req'[r] = call /\ \A q \in Requests : q # r => req'[q] = req[q]
  BY DEF GInv, GateTypeOK
<1>2. GateTypeOK'
  BY <1>1 DEF GInv, GateTypeOK
<1>3. Carries'
  BY <1>1 DEF GInv, Carries, Paid
<1>4. Taken'
  BY TakenStays DEF GInv, Taken, Paid
<1>5. ChargeIsHonoured'
  BY <1>1 DEF GInv, ChargeIsHonoured, Paid, Has
<1> QED BY <1>2, <1>3, <1>4, <1>5 DEF GInv

\* A payment that is proven is carried on to be consumed.
LEMMA ProvenForm ==
  ASSUME GInv, NEW r \in Requests, Proven(r)
  PROVE  \E call \in Calls :
           /\ req' = [req EXCEPT ![r] = call]
           /\ call.at = "consume" /\ call.pays = req[r].pays /\ KeyOf(call) = KeyOf(req[r])
<1>1. PICK call : call = [req[r] EXCEPT !.at = "consume", !.sum = 0]
  OBVIOUS
<1>2. req[r] \in Calls
  BY DEF GInv, GateTypeOK
<1>3. call \in Calls /\ call.at = "consume" /\ call.pays = req[r].pays /\ KeyOf(call) = KeyOf(req[r])
  BY <1>1, <1>2 DEF Calls, KeyOf
<1>4. req' = [req EXCEPT ![r] = call]
  BY <1>1 DEF Proven
<1> QED BY <1>3, <1>4

\* The token is charged; its request goes on, or has failed with it.
LEMMA ChargeInv ==
  ASSUME GInv, NEW r \in Requests, Charge(r) \/ ChargeLost(r)
  PROVE  GInv'
<1>1. /\ req[r].pays \in Stripe /\ req[r].sum \in Nat /\ ~Paid(req[r].pays) /\ req[r].at = "verify"
      /\ money' = [money EXCEPT ![req[r].pays] = [state |-> "paid", sats |-> req[r].sum]]
      /\ consumed' = consumed /\ bought' = bought /\ KeyOf(req[r]) \in Keys
  BY PricesAssumption
  DEF Charge, ChargeLost, Chargeable, Charged, Verifying, GInv, GateTypeOK, Calls, Carries
<1>2. PICK p \in Payments, m \in Money : p = req[r].pays /\ m = [state |-> "paid", sats |-> req[r].sum]
  BY <1>1 DEF Money, Payments
<1>3. /\ money' \in [Payments -> Money]
      /\ money'[p] = m
      /\ \A x \in Payments : x # p => money'[x] = money[x]
      /\ \A x \in Payments : Paid(x) => money'[x].state = "paid"
      /\ \A x \in Payments : money'[x].state = "unissued" => money'[x].sats = 0
  BY <1>1, <1>2, MoneyOne
<1>4. PICK call \in Calls : /\ req' = [req EXCEPT ![r] = call]
                            /\ \/ call.at = "idle"
                               \/ call.at = "consume" /\ call.pays = p /\ KeyOf(call) = KeyOf(req[r])
                            /\ Charge(r) => call.at = "consume"
  <2>1. CASE Charge(r)
    BY <1>2, <2>1, ProvenForm DEF Charge
  <2>2. CASE ChargeLost(r) /\ ~Charge(r)
    BY <2>2, NoCallOK DEF ChargeLost, Close
  <2> QED BY <2>1, <2>2
<1>5. req' \in [Requests -> Calls] /\ req'[r] = call /\ \A q \in Requests : q # r => req'[q] = req[q]
  BY <1>4 DEF GInv, GateTypeOK
<1>6. writer' \in Requests \cup {None} /\ \A q \in Requests : q # r /\ writer = q => writer' = q
  BY DEF Charge, ChargeLost, Close, GInv, GateTypeOK
<1>m. mishaps \subseteq mishaps' /\ (Charge(r) \/ p \in mishaps')
  BY <1>1, <1>2 DEF Charge, ChargeLost
<1>7. GateTypeOK'
  BY <1>1, <1>3, <1>5, <1>6 DEF GInv, GateTypeOK
<1>8. Carries'
  <2>1. m.state = "paid"
    BY <1>2
  <2> QED BY <1>1, <1>2, <1>3, <1>4, <1>5, <1>6, <2>1 DEF GInv, Carries, Paid
<1>9. Taken'
  BY <1>1, <1>3, <1>m, TakenStays
<1>10. ChargeIsHonoured'
  <2>1. SUFFICES ASSUME NEW x \in Stripe, money'[x].state = "paid", x \notin mishaps',
                        bought[Plainly(x)] # 1
                 PROVE  \E q \in Requests : req'[q].pays = x /\ req'[q].at \in {"consume", "act"}
    BY <1>1 DEF ChargeIsHonoured, Paid, Has
  <2>3. CASE x = p
    BY <1>4, <1>5, <1>m, <2>1, <2>3
  <2>4. CASE x # p
    <3>1. Paid(x)
      BY <1>3, <2>1, <2>4 DEF Paid, Payments
    <3>2. PICK q \in Requests : req[q].pays = x /\ req[q].at \in {"consume", "act"}
      BY <1>m, <2>1, <3>1 DEF GInv, ChargeIsHonoured, Has
    <3> QED BY <1>1, <1>5, <3>2
  <2> QED BY <2>3, <2>4
<1> QED BY <1>7, <1>8, <1>9, <1>10 DEF GInv

\* The lock's holder commits its consumption: no other request is past it.
LEMMA SpendInv ==
  ASSUME GInv, NEW r \in Requests, Commit(r) \/ Burn(r)
  PROVE  GInv'
<1>. DEFINE k == KeyOf(req[r])
<1>1. /\ req[r].pays \in Payments /\ Paid(req[r].pays) /\ writer = r
      /\ k \in Keys /\ k \notin consumed /\ k[1] = req[r].pays
      /\ \A q \in Requests : q # r => req[q].at # "act"
  BY DEF Commit, Burn, GInv, Carries, KeyOf
<1>2. /\ consumed' = consumed \cup {k} /\ money' = money /\ mishaps \subseteq mishaps'
      /\ writer' \in Requests \cup {None}
  BY <1>1 DEF Commit, Burn, Close, GInv, GateTypeOK
<1>3. req' \in [Requests -> Calls] /\ req'[r] = NoCall /\ \A q \in Requests : q # r => req'[q] = req[q]
  BY NoCallOK DEF Commit, Burn, Close, GInv, GateTypeOK
<1>4. \A x \in Keys : bought[x] \in Nat /\ bought[x] <= 1 /\ (bought[x] = 1 => x \in consumed)
  BY DEF GInv, GateTypeOK, Taken, KeyTakenOnce
<1>5. bought[k] = 0
  BY <1>1, <1>4
<1>6. /\ bought' \in [Keys -> Nat] /\ \A x \in Keys : x # k => bought'[x] = bought[x]
      /\ bought'[k] = 1 \/ (bought'[k] = 0 /\ req[r].pays \in mishaps')
  BY <1>1, <1>5 DEF Commit, Burn, GInv, GateTypeOK
<1>. HIDE DEF k
<1>7. GateTypeOK'
  BY <1>1, <1>2, <1>3, <1>6 DEF GInv, GateTypeOK
<1>8. Carries'
  BY <1>1, <1>2, <1>3, NoCallOK DEF GInv, Carries, Paid
<1>9. Taken'
  <2>1. KeyTakenOnce'
    BY <1>1, <1>2, <1>6 DEF GInv, Taken, KeyTakenOnce, Paid
  <2>2. \A x \in consumed' : bought'[x] = 1 \/ x[1] \in mishaps'
    BY <1>1, <1>2, <1>6 DEF GInv, GateTypeOK, Taken
  <2> QED BY <1>2, <2>1, <2>2 DEF GInv, Taken
<1>10. ChargeIsHonoured'
  <2>1. SUFFICES ASSUME NEW p \in Stripe, Paid(p), p \notin mishaps', bought'[Plainly(p)] # 1
                 PROVE  \E q \in Requests : req'[q].pays = p /\ req'[q].at \in {"consume", "act"}
    BY <1>2 DEF ChargeIsHonoured, Paid, Has
  <2>2. p \in Canonical /\ Plainly(p) \in Keys
    BY PlainKey DEF Canonical
  <2>3. bought[Plainly(p)] # 1
    BY <1>1, <1>4, <1>6, <2>1, <2>2
  <2>4. PICK q \in Requests : req[q].pays = p /\ req[q].at \in {"consume", "act"}
    BY <1>2, <2>1, <2>3 DEF GInv, ChargeIsHonoured, Has
  <2>5. req[r].pays = p => k = Plainly(p)
    BY <1>1, <2>2, PlainKey
  <2>6. q # r
    BY <1>6, <2>1, <2>4, <2>5
  <2> QED BY <1>3, <2>4, <2>6
<1> QED BY <1>7, <1>8, <1>9, <1>10 DEF GInv

LEMMA CrashInv ==
  ASSUME GInv, Crash
  PROVE  GInv'
<1>1. req' \in [Requests -> Calls] /\ \A q \in Requests : req'[q] = NoCall
  BY NoCallOK DEF Crash
<1>2. GateTypeOK'
  BY <1>1 DEF Crash, GInv, GateTypeOK
<1>3. Carries'
  BY <1>1, NoCallOK DEF Carries
<1>4. Taken'
  BY TakenStays DEF Crash, GInv, Taken, Paid
<1>5. ChargeIsHonoured'
  BY DEF Crash, GInv, ChargeIsHonoured, Paid, Has
<1> QED BY <1>2, <1>3, <1>4, <1>5 DEF GInv

LEMMA PresentInv ==
  ASSUME GInv, NEW r \in Requests, Present(r)
  PROVE  GInv'
<1>1. PICK p \in Payments, price \in Prices, spelled \in Spellings :
        \/ PresentL402(r, p, price) \/ PresentMpp(r, p, price)
        \/ PresentTempo(r, p, spelled, price) \/ ConfirmTempo(r, p, spelled, price)
        \/ PresentStripe(r, p, price)
  BY SpellingsAssumption DEF Present
<1>2. ASSUME NEW call \in Calls, Open(r, call), call.at \in {"verify", "consume"},
             call.pays \in Payments, KeyOf(call) \in Keys,
             call.at = "verify" => call.sum \in Prices,
             call.pays \in Lightning \/ call.at = "consume" => Paid(call.pays)
      PROVE  GInv'
  <2>1. /\ req' = [req EXCEPT ![r] = call] /\ req[r].at = "idle"
        /\ UNCHANGED <<money, consumed, writer, bought, mishaps>>
    BY <1>2 DEF Open
  <2>2. writer' \in Requests \cup {None} /\ writer' = writer
    BY <2>1 DEF GInv, GateTypeOK
  <2> QED BY <1>2, <2>1, <2>2, GoInv
<1>3. /\ p \in Tempo \cup Stripe => p \notin Lightning
      /\ p \in Lightning \cup Stripe => <<p, Plain>> \in Keys
      /\ p \in Tempo => <<p, spelled>> \in Keys
  BY MethodsAssumption DEF Keys, Canonical
<1>4. CASE PresentL402(r, p, price) \/ PresentStripe(r, p, price)
  <2>1. PICK call : call = [NoCall EXCEPT !.at = "verify", !.pays = p, !.sum = price]
    OBVIOUS
  <2>2. call \in Calls /\ call.at = "verify" /\ call.pays = p /\ call.sum = price
        /\ KeyOf(call) = <<p, Plain>>
    BY <2>1, SpellingsAssumption DEF NoCall, Calls, KeyOf
  <2> QED BY <1>2, <1>3, <1>4, <2>1, <2>2 DEF PresentL402, PresentStripe
<1>5. CASE PresentMpp(r, p, price)
  <2>1. PICK call : call = [NoCall EXCEPT !.at = "consume", !.pays = p]
    OBVIOUS
  <2>2. call \in Calls /\ call.at = "consume" /\ call.pays = p /\ KeyOf(call) = <<p, Plain>>
    BY <2>1, SpellingsAssumption DEF NoCall, Calls, KeyOf
  <2> QED BY <1>2, <1>3, <1>5, <2>1, <2>2 DEF PresentMpp
<1>6. CASE PresentTempo(r, p, spelled, price)
  <2>1. PICK call : call = [NoCall EXCEPT !.at = "verify", !.pays = p, !.spelled = spelled,
                                          !.sum = price]
    OBVIOUS
  <2>2. call \in Calls /\ call.at = "verify" /\ call.pays = p /\ call.sum = price
        /\ KeyOf(call) = <<p, spelled>>
    BY <2>1 DEF NoCall, Calls, KeyOf
  <2> QED BY <1>2, <1>3, <1>6, <2>1, <2>2 DEF PresentTempo
<1>7. CASE ConfirmTempo(r, p, spelled, price)
  <2>1. PICK call : call = [NoCall EXCEPT !.at = "verify", !.pays = p, !.spelled = spelled,
                                          !.sum = price, !.gate = FALSE]
    OBVIOUS
  <2>2. call \in Calls /\ call.at = "verify" /\ call.pays = p /\ call.sum = price
        /\ KeyOf(call) = <<p, spelled>>
    BY <2>1 DEF NoCall, Calls, KeyOf
  <2> QED BY <1>2, <1>3, <1>7, <2>1, <2>2 DEF ConfirmTempo
<1> QED BY <1>1, <1>4, <1>5, <1>6, <1>7

LEMMA ProceedInv ==
  ASSUME GInv, NEW r \in Requests, Proceed(r)
  PROVE  GInv'
<1>0. req[r] \in Calls /\ writer \in Requests \cup {None}
  BY DEF GInv, GateTypeOK
<1>1. CASE Settled(r) \/ OnChain(r)
  <2>1. PICK call \in Calls :
          /\ req' = [req EXCEPT ![r] = call]
          /\ call.at = "consume" /\ call.pays = req[r].pays /\ KeyOf(call) = KeyOf(req[r])
    BY <1>1, ProvenForm DEF Settled, OnChain
  <2>2. /\ req[r].at = "verify" /\ req[r].pays \in Payments /\ Paid(req[r].pays)
        /\ KeyOf(req[r]) \in Keys
    BY <1>1 DEF Settled, OnChain, Verifying, GInv, Carries
  <2>3. UNCHANGED <<money, consumed, writer, bought, mishaps>>
    BY <1>1 DEF Settled, OnChain
  <2> QED BY <1>0, <2>1, <2>2, <2>3, GoInv
<1>2. CASE Consume(r)
  <2>1. PICK call : call = [req[r] EXCEPT !.at = "act"]
    OBVIOUS
  <2>2. call \in Calls /\ call.at = "act" /\ call.pays = req[r].pays /\ KeyOf(call) = KeyOf(req[r])
    BY <1>0, <2>1 DEF Calls, KeyOf
  <2>3. /\ req' = [req EXCEPT ![r] = call] /\ writer = None /\ writer' = r
        /\ req[r].at = "consume" /\ KeyOf(req[r]) \notin consumed
        /\ UNCHANGED <<money, consumed, bought, mishaps>>
    BY <1>2, <2>1 DEF Consume
  <2>4. req[r].pays \in Payments /\ Paid(req[r].pays) /\ KeyOf(req[r]) \in Keys
    BY <2>3 DEF GInv, Carries
  <2>5. None \notin Requests
    BY MethodsAssumption
  <2> QED BY <2>2, <2>3, <2>4, <2>5, GoInv
<1>3. CASE Refuse(r) \/ Replay(r) \/ LockTimeout(r) \/ ActFails(r)
  <2>1. /\ Close(r) /\ bought' = bought /\ consumed' = consumed /\ mishaps \subseteq mishaps'
        /\ Challenge \/ money' = money
    BY <1>3 DEF Refuse, Replay, LockTimeout, ActFails, Denied
  <2>2. ASSUME req[r].at \in {"consume", "act"}, req[r].pays \in Stripe
        PROVE  req[r].pays \in mishaps' \/ bought[Plainly(req[r].pays)] = 1
    <3>1. CASE Replay(r)
      <4>1. KeyOf(req[r]) \in consumed /\ KeyOf(req[r])[1] = req[r].pays /\ KeyOf(req[r]) \in Keys
        BY <2>2, <3>1 DEF Replay, KeyOf, GInv, Carries
      <4>2. KeyOf(req[r]) = Plainly(req[r].pays)
        BY <2>2, <4>1, PlainKey DEF Canonical
      <4> QED BY <2>1, <4>1, <4>2 DEF GInv, Taken
    <3>2. CASE LockTimeout(r) \/ ActFails(r)
      BY <2>2, <3>2 DEF LockTimeout, ActFails
    <3> QED BY <1>3, <2>2, <3>1, <3>2 DEF Refuse
  <2> QED BY <2>1, <2>2, CloseInv
<1> QED BY <1>1, <1>2, <1>3, ChargeInv, SpendInv DEF Proceed

LEMMA StepInv ==
  ASSUME GInv, [GateNext]_gateVars
  PROVE  GInv'
<1>1. CASE UNCHANGED gateVars
  BY <1>1, PayersInv DEF gateVars
<1>2. ASSUME NEW p \in Payments, Settle(p) PROVE GInv'
  BY <1>2, PayersInv DEF Settle
<1>3. ASSUME NEW p \in Payments, NEW sats \in Sums, Prepare(p, sats) PROVE GInv'
  BY <1>3, PayersInv DEF Prepare
<1>4. ASSUME NEW c \in fresh, Expire(c) PROVE GInv'
  BY <1>4, PayersInv DEF Expire
<1>5. CASE Discover
  <2>1. UNCHANGED <<consumed, writer, req, bought, mishaps>> /\ (Challenge \/ ChallengeAnyway)
    BY <1>5 DEF Discover
  <2> QED BY <2>1, ChallengeForm, PayersInv
<1>6. CASE \E r \in Requests : Present(r) \/ Proceed(r)
  BY <1>6, PresentInv, ProceedInv
<1> QED BY <1>1, <1>2, <1>3, <1>4, <1>5, <1>6, CrashInv DEF GateNext

LEMMA InitInv ==
  ASSUME GateInit
  PROVE  GInv
<1>1. GateTypeOK
  <2>1. money \in [Payments -> Money]
    BY DEF GateInit, Money
  <2>2. req \in [Requests -> Calls]
    BY NoCallOK DEF GateInit
  <2> QED BY <2>1, <2>2 DEF GateInit, GateTypeOK
<1>2. Carries
  BY NoCallOK DEF GateInit, Carries
<1>3. Taken
  BY DEF GateInit, Taken, KeyTakenOnce
<1>4. ChargeIsHonoured
  BY DEF GateInit, ChargeIsHonoured, Paid, Payments
<1> QED BY <1>1, <1>2, <1>3, <1>4 DEF GInv

LEMMA Always == GateSpec => []GInv
BY InitInv, StepInv, PTL DEF GateSpec

-----------------------------------------------------------------------------
(* PaymentPromise *)

Bought == [p \in Canonical |-> bought[Plainly(p)]]

PromiseStep == Promise!Next \/ UNCHANGED <<Stage, Bought>>

LEMMA StutterKept ==
  ASSUME UNCHANGED <<money, consumed, bought>>
  PROVE  PromiseStep
BY DEF PromiseStep, Stage, Bought

LEMMA MoveKept ==
  ASSUME NEW p \in Canonical, NEW to, Stage'[p] = to,
         \A x \in Canonical : x # p => Stage'[x] = Stage[x]
  PROVE  Stage' = [Stage EXCEPT ![p] = to]
<1>1. Stage = [x \in Canonical |-> Stage[x]] /\ Stage' = [x \in Canonical |-> Stage'[x]]
  BY DEF Stage
<1> QED BY <1>1

\* What happens to a transaction is nothing to the invoices and tokens.
LEMMA TempoKept ==
  ASSUME NEW p \in Payments \ Canonical, \A x \in Payments \ {p} : money'[x] = money[x],
         \A k \in Keys : k[1] # p => (k \in consumed' <=> k \in consumed) /\ bought'[k] = bought[k]
  PROVE  PromiseStep
<1>1. \A x \in Canonical : x # p /\ x \in Payments /\ Plainly(x) \in Keys /\ Plainly(x)[1] = x
  BY PlainKey DEF Plainly, Canonical, Payments
<1>2. Stage' = Stage
  BY <1>1 DEF Stage
<1>3. Bought' = Bought
  BY <1>1 DEF Bought
<1> QED BY <1>2, <1>3 DEF PromiseStep

\* Money that moves for one payment: it is issued, or settled.
LEMMA MoneyKept ==
  ASSUME GInv, NEW p \in Payments, NEW m \in Money, money' = [money EXCEPT ![p] = m],
         \/ money[p].state = "unissued" /\ m.state = "open"
         \/ money[p].state = "open" /\ m.state = "paid",
         UNCHANGED <<consumed, bought>>
  PROVE  PromiseStep
<1>1. money'[p] = m /\ \A x \in Payments : x # p => money'[x] = money[x]
  BY DEF GInv, GateTypeOK
<1>2. CASE p \notin Canonical
  BY <1>1, <1>2, TempoKept
<1>. SUFFICES ASSUME p \in Canonical PROVE PromiseStep
  BY <1>2
<1>3. Plainly(p) \in Keys /\ Plainly(p) \notin consumed /\ Bought' = Bought
  BY PlainKey DEF GInv, Taken, KeyTakenOnce, Paid, Bought, Plainly
<1>4. \A x \in Canonical : x # p => Stage'[x] = Stage[x]
  BY <1>1 DEF Stage, Canonical, Payments
<1>5. CASE money[p].state = "unissued" /\ m.state = "open"
  <2>1. Stage[p] = "unissued" /\ Stage'[p] = "open"
    BY <1>1, <1>3, <1>5 DEF Stage
  <2>2. Promise!Issue(p)
    BY <1>3, <1>4, <2>1, MoveKept DEF Promise!Issue, Promise!Move, Bought
  <2> QED BY <2>2 DEF PromiseStep, Promise!Next
<1>6. CASE money[p].state = "open" /\ m.state = "paid"
  <2>1. Stage[p] = "open" /\ Stage'[p] = "paid"
    BY <1>1, <1>3, <1>6 DEF Stage
  <2>2. Promise!Settle(p)
    BY <1>3, <1>4, <2>1, MoveKept DEF Promise!Settle, Promise!Move, Bought
  <2> QED BY <2>2 DEF PromiseStep, Promise!Next
<1> QED BY <1>5, <1>6

LEMMA IssueKept ==
  ASSUME GInv, NEW p \in Payments, NEW sats \in Nat, money[p].state = "unissued",
         money' = [money EXCEPT ![p] = [state |-> "open", sats |-> sats]],
         UNCHANGED <<consumed, bought>>
  PROVE  PromiseStep
<1>1. PICK m \in Money : m = [state |-> "open", sats |-> sats]
  BY DEF Money
<1>2. m.state = "open" /\ money' = [money EXCEPT ![p] = m]
  BY <1>1
<1> QED BY <1>2, MoneyKept

LEMMA ChallengeKept ==
  ASSUME GInv, Challenge \/ ChallengeAnyway, UNCHANGED <<consumed, bought>>
  PROVE  PromiseStep
<1>1. Prices \subseteq Nat /\ Lightning \subseteq Payments
  BY PricesAssumption DEF Payments
<1>2. CASE money' = money
  BY <1>2, StutterKept
<1> QED BY <1>1, <1>2, ChallengeForm, IssueKept

LEMMA SettleKept ==
  ASSUME GInv, NEW p \in Payments, Settle(p)
  PROVE  PromiseStep
<1>1. PICK m : m = [money[p] EXCEPT !.state = "paid"]
  OBVIOUS
<1>2. m \in Money /\ m.state = "paid"
  BY <1>1 DEF GInv, GateTypeOK, Money
<1>3. money' = [money EXCEPT ![p] = m] /\ money[p].state = "open" /\ UNCHANGED <<consumed, bought>>
  BY <1>1 DEF Settle
<1> QED BY <1>2, <1>3, MoneyKept

\* A token that covers the sum is not one that was never minted.
LEMMA ChargeKept ==
  ASSUME GInv, NEW r \in Requests, Charge(r) \/ ChargeLost(r)
  PROVE  PromiseStep
<1>1. /\ req[r].pays \in Payments /\ req[r].sum \in Nat \ {0}
      /\ money[req[r].pays].sats >= req[r].sum /\ ~Paid(req[r].pays)
      /\ money' = [money EXCEPT ![req[r].pays] = [state |-> "paid", sats |-> req[r].sum]]
      /\ UNCHANGED <<consumed, bought>>
  BY PricesAssumption
  DEF Charge, ChargeLost, Chargeable, Charged, Verifying, GInv, Carries, Payments
<1>2. money[req[r].pays].state = "open"
  BY <1>1 DEF GInv, GateTypeOK, Taken, Money, Paid
<1>3. PICK m \in Money : m = [state |-> "paid", sats |-> req[r].sum]
  BY <1>1 DEF Money
<1>4. m.state = "paid" /\ money' = [money EXCEPT ![req[r].pays] = m]
  BY <1>1, <1>3
<1> QED BY <1>1, <1>2, <1>4, MoneyKept

\* The consumption is committed, with the action or without.
LEMMA SpendKept ==
  ASSUME GInv, NEW r \in Requests, Commit(r) \/ Burn(r)
  PROVE  PromiseStep
<1>1. PICK p \in Payments : p = req[r].pays /\ Paid(p)
  BY DEF Commit, Burn, GInv, Carries
<1>2. PICK k \in Keys : k = KeyOf(req[r]) /\ k[1] = p /\ k \notin consumed
  BY <1>1 DEF Commit, Burn, GInv, Carries, KeyOf
<1>3. /\ consumed' = consumed \cup {k} /\ money' = money
      /\ bought' = [bought EXCEPT ![k] = @ + 1] \/ bought' = bought
  BY <1>2 DEF Commit, Burn
<1>4. \A x \in Keys : x # k => (x \in consumed' <=> x \in consumed) /\ bought'[x] = bought[x]
  BY <1>3 DEF GInv, GateTypeOK
<1>5. CASE p \notin Canonical
  BY <1>2, <1>3, <1>4, <1>5, TempoKept
<1>. SUFFICES ASSUME p \in Canonical PROVE PromiseStep
  BY <1>5
<1>6. k = Plainly(p) /\ \A x \in Canonical : x # p => Plainly(x) \in Keys /\ Plainly(x) # k
  BY <1>2, PlainKey DEF Plainly
<1>7. Stage[p] = "paid" /\ Stage'[p] = "used" /\ \A x \in Canonical : x # p => Stage'[x] = Stage[x]
  BY <1>1, <1>2, <1>3, <1>4, <1>6 DEF Stage, Paid
<1>8. Stage' = [Stage EXCEPT ![p] = "used"]
  BY <1>7, MoveKept
<1>9. CASE bought' = bought
  <2>1. Promise!Burn(p)
    BY <1>7, <1>8, <1>9 DEF Promise!Burn, Promise!Move
  <2> QED BY <2>1 DEF PromiseStep, Promise!Next
<1>10. CASE bought' = [bought EXCEPT ![k] = @ + 1]
  <2>1. Bought'[p] = Bought[p] + 1 /\ \A x \in Canonical : x # p => Bought'[x] = Bought[x]
    BY <1>4, <1>6, <1>10 DEF Bought, GInv, GateTypeOK
  <2>2. Bought' = [Bought EXCEPT ![p] = @ + 1]
    <3>1. Bought = [x \in Canonical |-> Bought[x]] /\ Bought' = [x \in Canonical |-> Bought'[x]]
      BY DEF Bought
    <3> QED BY <2>1, <3>1
  <2>3. Promise!Spend(p)
    BY <1>7, <1>8, <2>2 DEF Promise!Spend, Promise!Move, Bought
  <2> QED BY <2>3 DEF PromiseStep, Promise!Next
<1> QED BY <1>3, <1>9, <1>10

LEMMA ProceedKept ==
  ASSUME GInv, NEW r \in Requests, Present(r) \/ Proceed(r)
  PROVE  PromiseStep
<1>1. CASE Present(r)
  BY <1>1, StutterKept DEF Present, PresentL402, PresentMpp, PresentTempo, ConfirmTempo, PresentStripe, Open
<1>2. CASE Settled(r) \/ OnChain(r) \/ Consume(r) \/ LockTimeout(r) \/ ActFails(r)
  BY <1>2, StutterKept DEF Settled, OnChain, Consume, LockTimeout, ActFails
<1>3. CASE Refuse(r) \/ Replay(r)
  <2>1. (Challenge \/ money' = money) /\ UNCHANGED <<consumed, bought>>
    BY <1>3 DEF Refuse, Replay, Denied
  <2> QED BY <2>1, ChallengeKept, StutterKept
<1> QED BY <1>1, <1>2, <1>3, ChargeKept, SpendKept DEF Proceed

LEMMA StepKept ==
  ASSUME GInv, [GateNext]_gateVars
  PROVE  PromiseStep
<1>1. CASE UNCHANGED gateVars
  BY <1>1, StutterKept DEF gateVars
<1>2. ASSUME NEW p \in Payments, Settle(p) PROVE PromiseStep
  BY <1>2, SettleKept
<1>3. ASSUME NEW p \in Payments, NEW sats \in Sums, Prepare(p, sats) PROVE PromiseStep
  BY <1>3, IssueKept, PricesAssumption DEF Prepare
<1>4. ASSUME NEW c \in fresh, Expire(c) PROVE PromiseStep
  BY <1>4, StutterKept DEF Expire
<1>5. CASE Discover
  BY <1>5, ChallengeKept DEF Discover
<1>6. CASE Crash
  BY <1>6, StutterKept DEF Crash
<1>7. CASE \E r \in Requests : Present(r) \/ Proceed(r)
  BY <1>7, ProceedKept
<1> QED BY <1>1, <1>2, <1>3, <1>4, <1>5, <1>6, <1>7 DEF GateNext

-----------------------------------------------------------------------------
(* The theorems *)

\* The fields of the gate keep their types, whatever is presented.
THEOREM GateTypeCorrect == GateSpec => []GateTypeOK
<1>1. GInv => GateTypeOK
  BY DEF GInv
<1> QED BY <1>1, Always, PTL

\* What Stripe has charged bought an action or is about to, unless its request failed: no check of
\* the gate comes after the charge.
THEOREM ChargesHonoured == GateSpec => []ChargeIsHonoured
<1>1. GInv => ChargeIsHonoured
  BY DEF GInv
<1> QED BY <1>1, Always, PTL

\* Whatever proves a payment and whoever consumes it, a key of consumed_payments buys one action,
\* and only after the money has moved.
THEOREM KeysOnce == GateSpec => []KeyTakenOnce
<1>1. GInv => KeyTakenOnce
  BY DEF GInv, Taken
<1> QED BY <1>1, Always, PTL

\* An invoice or a Stripe token is taken once, for at most one action, and never before the money
\* has moved.  (Of a transaction this is only true of each spelling: KeysOnce.)
THEOREM GateImplements == GateSpec => KeepsPromise
<1>1. GateInit => Promise!Init
  <2>1. SUFFICES ASSUME GateInit
                 PROVE  /\ Stage = [p \in Canonical |-> "unissued"]
                        /\ Bought = [p \in Canonical |-> 0]
    BY DEF Promise!Init, Bought
  <2>2. \A p \in Canonical : p \in Payments /\ Plainly(p) \in Keys
    BY PlainKey DEF Canonical, Payments
  <2>3. Stage = [p \in Canonical |-> "unissued"]
    BY <2>1, <2>2 DEF GateInit, Stage
  <2>4. Bought = [p \in Canonical |-> 0]
    BY <2>1, <2>2 DEF GateInit, Bought
  <2> QED BY <2>3, <2>4
<1>2. ASSUME GInv, [GateNext]_gateVars
      PROVE  [Promise!Next]_Promise!promised
  BY <1>2, StepKept DEF PromiseStep, Stage, Bought, Promise!promised
<1> QED BY <1>1, <1>2, Always, PTL DEF GateSpec, KeepsPromise, Promise!Spec

=============================================================================
