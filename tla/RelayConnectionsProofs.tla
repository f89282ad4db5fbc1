----------------------- MODULE RelayConnectionsProofs -----------------------
(***************************************************************************)
(* RelayConnections keeps its types; the connections of clients that are   *)
(* there stay registered; MAX_CONNECTIONS holds for the connections whose  *)
(* handshake was alone; and no live subscriber misses a stored event but   *)
(* for a broadcast that was cut short, which has a cause.                  *)
(*                                                                         *)
(* The first two need that a broadcast gives up only connections that are  *)
(* gone, and that a socket in its handshake is not registered.  All but    *)
(* two actions do nothing that could disturb them (Calm): they make no     *)
(* connection, and remove only those that are gone or whose handler ends.  *)
(*                                                                         *)
(* That there is no gap is inductive only together with what a whole       *)
(* broadcast has done so far (Covered): it may be a second broadcast of an *)
(* event whose first was cut short, and ends that loss when it completes.  *)
(***************************************************************************)
EXTENDS RelayConnections, FiniteSetTheorems, TLAPS

Publishing ==
  \A p \in Tasks :
    /\ pub[p].at # "idle" => pub[p].event \in Events
    /\ pub[p].at = "send" => pub[p].target \in Sockets

Typed == TypeOK /\ Publishing

DeadAreGone == \A p \in Tasks : \A c \in pub[p].dead : ~conn[c].alive

HandshakeIsOutside == \A c \in Sockets : conn[c].at = "accept" => c \notin connections

Inv == Typed /\ DeadAreGone /\ HandshakeIsOutside /\ LiveStayRegistered /\ LimitUnlessRaced

\* What every step but Accept and Register does to the connections.
Calm ==
  /\ connections' \subseteq connections
  /\ \A c \in Sockets :
       /\ conn'[c].alive => conn[c].alive
       /\ conn'[c].at = "accept" => conn[c].at = "accept" /\ conn'[c].raced = conn[c].raced
       /\ c \in connections' => conn'[c].raced = conn[c].raced
       /\ conn'[c].alive /\ conn'[c].at \notin {"out", "accept"} =>
            conn[c].at \notin {"out", "accept"} /\ (c \in connections => c \in connections')
  /\ \A p \in Tasks : \A c \in pub'[p].dead : ~conn[c].alive

-----------------------------------------------------------------------------
(* Types *)

LEMMA OutType == Out \in Connections /\ NoFilter \in [match : SUBSET Events, raises : SUBSET Events]
BY DEF Out, Connections, NoFilter

LEMMA QuietType == Quiet \in Broadcasts
BY DEF Quiet, Broadcasts

LEMMA HandlerTypes ==
  ASSUME Typed, NEW c \in Sockets, Handler(c)
  PROVE  Typed'
<1> USE OutType DEF Typed, TypeOK
<1>0. ASSUME pub' = pub PROVE Publishing'
  BY <1>0 DEF Publishing
<1>1. CASE Accept(c)
  <2>1. [Out EXCEPT !.at = "accept", !.alive = TRUE, !.raced = Shaking # {}] \in Connections
    BY DEF Connections, Out
  <2> QED BY <1>0, <1>1, <2>1 DEF Accept
<1>2. CASE AcceptFails(c) \/ Leave(c) \/ QueryRaises(c)
  BY <1>0, <1>2 DEF AcceptFails, Leave, QueryRaises
<1>3. CASE GreetFails(c)
  <2>1. [Out EXCEPT !.raced = conn[c].raced] \in Connections
    BY DEF Connections, Out
  <2> QED BY <1>0, <1>3, <2>1 DEF GreetFails
<1>4. CASE Register(c)
  <2>1. [conn[c] EXCEPT !.at = "greet"] \in Connections
    BY DEF Connections
  <2> QED BY <1>0, <1>4, <2>1 DEF Register
<1>5. CASE Greet(c)
  <2>1. [conn[c] EXCEPT !.at = "open"] \in Connections
    BY DEF Connections
  <2> QED BY <1>0, <1>5, <2>1 DEF Greet
<1>6. CASE Lose(c)
  BY <1>0, <1>6 DEF Lose, Connections
<1>7. CASE Query(c)
  <2>1. [conn[c] EXCEPT !.at = "replay", !.queue = stored \cap conn[c].subs[conn[c].sub].match]
          \in Connections
    BY DEF Connections
  <2>2. conn' = [conn EXCEPT ![c] = [conn[c] EXCEPT !.at = "replay",
                                       !.queue = stored \cap conn[c].subs[conn[c].sub].match]]
    BY <1>7 DEF Query
  <2> QED BY <1>0, <1>7, <2>1, <2>2 DEF Query
<1>8. CASE Eose(c)
  BY <1>0, <1>8 DEF Eose, Connections
<1>9. ASSUME NEW e \in Events, Replay(c, e) PROVE Typed'
  BY <1>0, <1>9 DEF Replay, Connections
<1>10. ASSUME pub' = Released(c) PROVE pub' \in [Tasks -> Broadcasts] /\ Publishing'
  <2>1. ASSUME NEW p \in Tasks
        PROVE  /\ [pub[p] EXCEPT !.owed = @ \ {c}] \in Broadcasts
               /\ [pub[p] EXCEPT !.owed = @ \ {c}].at = pub[p].at
               /\ [pub[p] EXCEPT !.owed = @ \ {c}].event = pub[p].event
               /\ [pub[p] EXCEPT !.owed = @ \ {c}].target = pub[p].target
    BY DEF Broadcasts
  <2> QED BY <1>10, <2>1 DEF Released, Publishing
<1>11. ASSUME NEW s \in Subs, Close(c, s) PROVE Typed'
  BY <1>10, <1>11 DEF Close, Connections
<1>12. ASSUME NEW s \in Subs, NEW f \in Filters, Req(c, s, f) PROVE Typed'
  BY <1>10, <1>12, FiltersAssumption DEF Req, Connections
<1> QED BY <1>1, <1>2, <1>3, <1>4, <1>5, <1>6, <1>7, <1>8, <1>9, <1>11, <1>12 DEF Handler

\* How an iteration goes on.
Goes(p, b, told) ==
  \/ (NextMatch(p, b) \/ LastMatch(p, b)) /\ conn' = told
  \/ FilterRaises(p, b, told)

LEMMA RaiseTypes ==
  ASSUME Typed, NEW p \in Tasks, NEW told \in [Sockets -> Connections], Raise(p, told)
  PROVE  connections' \subseteq Sockets /\ conn' \in [Sockets -> Connections]
         /\ pub' \in [Tasks -> Broadcasts] /\ Publishing'
<1> USE OutType, QuietType DEF Typed, TypeOK
<1>1. pub' = [pub EXCEPT ![p] = Quiet]
  BY DEF Raise
<1>2. pub' \in [Tasks -> Broadcasts] /\ Publishing'
  BY <1>1 DEF Publishing, Quiet
<1>3. conn' \in [Sockets -> Connections]
  BY DEF Raise
<1> QED BY <1>2, <1>3 DEF Raise

LEMMA GoesTypes ==
  ASSUME Typed, NEW p \in Tasks, NEW b \in Broadcasts, b.event \in Events,
         NEW told \in [Sockets -> Connections], Goes(p, b, told)
  PROVE  connections' \subseteq Sockets /\ conn' \in [Sockets -> Connections]
         /\ pub' \in [Tasks -> Broadcasts] /\ lost' \subseteq Events /\ Publishing'
<1> USE DEF Typed, TypeOK
<1>1. CASE NextMatch(p, b) /\ conn' = told
  <2>1. PICK c \in b.left, passed \in SUBSET b.left :
          pub' = [pub EXCEPT ![p] = [b EXCEPT !.at = "send", !.target = c,
                                              !.left = @ \ (passed \cup {c})]]
    BY <1>1 DEF NextMatch
  <2>2. PICK n : n = [b EXCEPT !.at = "send", !.target = c, !.left = @ \ (passed \cup {c})]
    OBVIOUS
  <2>3. n \in Broadcasts /\ n.event \in Events /\ n.target \in Sockets
    BY <2>2 DEF Broadcasts
  <2>4. pub' = [pub EXCEPT ![p] = n]
    BY <2>1, <2>2
  <2>5. pub' \in [Tasks -> Broadcasts] /\ Publishing'
    BY <2>3, <2>4 DEF Publishing
  <2> QED BY <1>1, <2>5 DEF NextMatch
<1>2. CASE LastMatch(p, b) /\ conn' = told
  <2>1. pub' = [pub EXCEPT ![p] = Quiet]
    BY <1>2 DEF LastMatch
  <2>2. pub' \in [Tasks -> Broadcasts] /\ Publishing'
    BY <2>1, QuietType DEF Publishing, Quiet
  <2> QED BY <1>2, <2>2 DEF LastMatch
<1>3. CASE FilterRaises(p, b, told)
  BY <1>3, RaiseTypes DEF FilterRaises
<1> QED BY <1>1, <1>2, <1>3 DEF Goes

LEMMA ToldTypes ==
  ASSUME Typed, NEW p \in Tasks, pub[p].at = "send"
  PROVE  /\ Told(pub[p]) \in [Sockets -> Connections]
         /\ \A c \in Sockets : /\ Told(pub[p])[c].at = conn[c].at
                               /\ Told(pub[p])[c].alive = conn[c].alive
                               /\ Told(pub[p])[c].raced = conn[c].raced
         /\ Unreached(pub[p]) \subseteq Sockets
         /\ DeadAreGone => \A c \in Unreached(pub[p]) : ~conn[c].alive
<1>1. pub[p] \in Broadcasts /\ pub[p].event \in Events /\ pub[p].target \in Sockets
  BY DEF Typed, TypeOK, Publishing
<1>2. \A c \in Sockets : conn[c] \in Connections
  BY DEF Typed, TypeOK
<1>3. Unreached(pub[p]) \subseteq Sockets /\ (DeadAreGone => \A c \in Unreached(pub[p]) : ~conn[c].alive)
  BY <1>1 DEF Unreached, DeadAreGone, Broadcasts
<1>4. PICK c : c = pub[p].target
  OBVIOUS
<1>5. PICK t : t = [conn[c] EXCEPT !.got = @ \cup {pub[p].event}]
  OBVIOUS
<1>6. t \in Connections /\ t.at = conn[c].at /\ t.alive = conn[c].alive /\ t.raced = conn[c].raced
  BY <1>1, <1>2, <1>4, <1>5 DEF Connections
<1>7. Told(pub[p]) = conn \/ Told(pub[p]) = [conn EXCEPT ![c] = t]
  BY <1>4, <1>5 DEF Told
<1> QED BY <1>1, <1>3, <1>4, <1>6, <1>7 DEF Typed, TypeOK

LEMMA ShuffledTypes ==
  ASSUME Typed, NEW p \in Tasks, pub[p].at = "send", NEW left \in SUBSET connections
  PROVE  LET b == [pub[p] EXCEPT !.dead = Unreached(pub[p]), !.members = connections,
                                 !.whole = FALSE]
             n == [b EXCEPT !.left = left]
         IN n \in Broadcasts /\ n.event \in Events /\ n.dead = Unreached(pub[p])
<1>1. pub[p] \in Broadcasts /\ pub[p].event \in Events /\ connections \subseteq Sockets
  BY DEF Typed, TypeOK, Publishing
<1>2. PICK d \in SUBSET Sockets : d = Unreached(pub[p])
  BY ToldTypes
<1> QED BY <1>1, <1>2 DEF Broadcasts

LEMMA SentTypes ==
  ASSUME Typed, NEW p \in Tasks, pub[p].at = "send"
  PROVE  LET b == [pub[p] EXCEPT !.dead = Unreached(pub[p])]
         IN b \in Broadcasts /\ b.event \in Events /\ b.dead = Unreached(pub[p])
<1>1. pub[p] \in Broadcasts /\ pub[p].event \in Events
  BY DEF Typed, TypeOK, Publishing
<1>2. PICK d \in SUBSET Sockets : d = Unreached(pub[p])
  BY ToldTypes
<1> QED BY <1>1, <1>2 DEF Broadcasts

LEMMA BeginTypes ==
  ASSUME Typed, NEW p \in Tasks, pub[p].at = "stored"
  PROVE  LET b == [pub[p] EXCEPT !.members = connections, !.left = connections,
                                 !.owed = {c \in connections : Match(c, pub[p].event)}]
         IN b \in Broadcasts /\ b.event \in Events /\ b.dead = pub[p].dead
<1>1. pub[p] \in Broadcasts /\ pub[p].event \in Events /\ connections \subseteq Sockets
  BY DEF Typed, TypeOK, Publishing
<1>2. PICK o \in SUBSET Sockets : o = {c \in connections : Match(c, pub[p].event)}
  BY <1>1
<1> QED BY <1>1, <1>2 DEF Broadcasts

\* What a step of a broadcast is made of.
LEMMA BroadcastForms ==
  ASSUME Typed, DeadAreGone, NEW p \in Tasks, Broadcast(p)
  PROVE  \/ UNCHANGED <<connections, conn>> /\ Typed' /\ DeadAreGone'
         \/ /\ stored' = stored /\ lost' \subseteq Events
            /\ \E told \in [Sockets -> Connections] :
                 /\ \A c \in Sockets : /\ told[c].at = conn[c].at
                                       /\ told[c].alive = conn[c].alive
                                       /\ told[c].raced = conn[c].raced
                 /\ \/ Raise(p, told)
                    \/ \E b \in Broadcasts :
                         /\ b.event \in Events /\ Goes(p, b, told)
                         /\ \A c \in b.dead : ~conn[c].alive
<1> USE DEF Typed, TypeOK
<1>1. CASE Store(p)
  <2>1. PICK q : q = [pub[p] EXCEPT !.at = "stored"]
    OBVIOUS
  <2>2. q \in Broadcasts /\ q.event = pub[p].event /\ q.event \in Events /\ q.at = "stored"
        /\ q.dead = pub[p].dead
    BY <1>1, <2>1 DEF Store, Broadcasts, Publishing
  <2>3. pub' = [pub EXCEPT ![p] = q]
    BY <1>1, <2>1 DEF Store
  <2>4. pub' \in [Tasks -> Broadcasts] /\ Publishing' /\ DeadAreGone'
    BY <1>1, <2>2, <2>3 DEF Store, Publishing, DeadAreGone
  <2> QED BY <1>1, <2>2, <2>4 DEF Store
<1>2. ASSUME NEW e \in Events, Publish(p, e)
      PROVE  UNCHANGED <<connections, conn>> /\ Typed' /\ DeadAreGone'
  <2>1. PICK q : q = [Quiet EXCEPT !.at = "store", !.event = e]
    OBVIOUS
  <2>2. q \in Broadcasts /\ q.event = e /\ q.at = "store" /\ q.dead = {}
    BY <2>1 DEF Quiet, Broadcasts
  <2>3. pub' = [pub EXCEPT ![p] = q]
    BY <1>2, <2>1 DEF Publish
  <2>4. pub' \in [Tasks -> Broadcasts] /\ Publishing' /\ DeadAreGone'
    BY <1>2, <2>2, <2>3 DEF Publish, Publishing, DeadAreGone
  <2> QED BY <1>2, <2>4 DEF Publish
<1>3. CASE StoreFails(p)
  BY <1>3 DEF StoreFails
<1>4. CASE OkFails(p)
  BY <1>4 DEF OkFails, Publishing
<1>5. CASE Begin(p)
  <2> DEFINE b == [pub[p] EXCEPT !.members = connections, !.left = connections,
                                 !.owed = {c \in connections : Match(c, pub[p].event)}]
  <2>1. b \in Broadcasts /\ b.event \in Events /\ b.dead = pub[p].dead
    BY <1>5, BeginTypes DEF Begin
  <2>2. Goes(p, b, conn) /\ stored' = stored
    BY <1>5 DEF Begin, Goes
  <2>3. lost' \subseteq Events
    BY <2>1, <2>2, GoesTypes
  <2> HIDE DEF b
  <2> QED BY <2>1, <2>2, <2>3 DEF DeadAreGone
<1>6. CASE Sent(p)
  <2> DEFINE b == [pub[p] EXCEPT !.dead = Unreached(pub[p])]
  <2>1. pub[p].at = "send"
    BY <1>6 DEF Sent
  <2>2. b \in Broadcasts /\ b.event \in Events /\ b.dead = Unreached(pub[p])
    BY <2>1, SentTypes
  <2>3. Goes(p, b, Told(pub[p])) /\ stored' = stored
    BY <1>6 DEF Sent, Goes
  <2> HIDE DEF b
  <2>4. lost' \subseteq Events
    BY <2>1, <2>2, <2>3, GoesTypes, ToldTypes
  <2> QED BY <2>1, <2>2, <2>3, <2>4, ToldTypes
<1>7. CASE SizeChanged(p)
  <2>1. pub[p].at = "send" /\ Raise(p, Told(pub[p])) /\ stored' = stored
        /\ lost' = lost \cup {pub[p].event}
    BY <1>7 DEF SizeChanged
  <2>2. lost' \subseteq Events
    BY <2>1 DEF Publishing
  <2> QED BY <2>1, <2>2, ToldTypes
<1>8. CASE Shuffled(p)
  <2> DEFINE b == [pub[p] EXCEPT !.dead = Unreached(pub[p]), !.members = connections,
                                 !.whole = FALSE]
  <2>1. pub[p].at = "send"
    BY <1>8 DEF Shuffled
  <2>2. PICK left \in SUBSET connections :
          Goes(p, [b EXCEPT !.left = left], Told(pub[p])) /\ stored' = stored
    BY <1>8 DEF Shuffled, Goes
  <2>3. PICK n : n = [b EXCEPT !.left = left]
    OBVIOUS
  <2>4. n \in Broadcasts /\ n.event \in Events /\ n.dead = Unreached(pub[p])
    BY <2>1, <2>3, ShuffledTypes
  <2>5. Goes(p, n, Told(pub[p])) /\ stored' = stored
    BY <2>2, <2>3
  <2> HIDE DEF b
  <2>6. lost' \subseteq Events
    BY <2>1, <2>4, <2>5, GoesTypes, ToldTypes
  <2> QED BY <2>1, <2>4, <2>5, <2>6, ToldTypes
<1> QED BY <1>1, <1>2, <1>3, <1>4, <1>5, <1>6, <1>7, <1>8 DEF Broadcast

LEMMA BroadcastTypes ==
  ASSUME Typed, DeadAreGone, NEW p \in Tasks, Broadcast(p)
  PROVE  Typed'
<1>1. CASE UNCHANGED <<connections, conn>> /\ Typed' /\ DeadAreGone'
  BY <1>1
<1>2. CASE /\ stored' = stored /\ lost' \subseteq Events
           /\ \E told \in [Sockets -> Connections] :
                \/ Raise(p, told)
                \/ \E b \in Broadcasts : b.event \in Events /\ Goes(p, b, told)
  BY <1>2, RaiseTypes, GoesTypes DEF Typed, TypeOK
<1> QED BY <1>1, <1>2, BroadcastForms

LEMMA CrashTypes ==
  ASSUME Typed, Crash
  PROVE  Typed' /\ DeadAreGone'
BY OutType, QuietType DEF Crash, Typed, TypeOK, Publishing, DeadAreGone, Quiet

-----------------------------------------------------------------------------
(* Calm steps *)

\* Every invariant is kept by a calm step.
LEMMA CalmInv ==
  ASSUME Inv, Typed', Calm
  PROVE  Inv'
<1> USE DEF Inv, Typed, TypeOK
<1>1. DeadAreGone'
  <2> SUFFICES ASSUME NEW p \in Tasks, NEW c \in pub'[p].dead PROVE ~conn'[c].alive
    BY DEF DeadAreGone
  <2>1. pub'[p] \in Broadcasts
    OBVIOUS
  <2>2. c \in Sockets
    BY <2>1 DEF Broadcasts
  <2> QED BY <2>2 DEF Calm
<1>2. HandshakeIsOutside'
  BY DEF Calm, HandshakeIsOutside
<1>3. LiveStayRegistered'
  BY DEF Calm, LiveStayRegistered
<1>4. LimitUnlessRaced'
  <2>1. PICK S : S = {c \in connections \cup Shaking : ~conn[c].raced}
    OBVIOUS
  <2>2. PICK T : T = {c \in connections' \cup Shaking' : ~conn'[c].raced}
    OBVIOUS
  <2>3. T \in SUBSET S
    BY <2>1, <2>2 DEF Calm, Shaking
  <2>4. IsFiniteSet(S)
    BY <2>1, TasksAssumption, FS_Subset DEF Shaking
  <2>5. Cardinality(S) \in Nat /\ Cardinality(T) \in Nat /\ Cardinality(T) <= Cardinality(S)
    BY <2>3, <2>4, FS_Subset, FS_CardinalityType
  <2>6. Cardinality(S) <= MaxConnections
    BY <2>1 DEF LimitUnlessRaced
  <2>7. Cardinality(T) <= MaxConnections
    BY <2>5, <2>6, LimitsAssumption
  <2> QED BY <2>2, <2>7 DEF LimitUnlessRaced
<1> QED BY <1>1, <1>2, <1>3, <1>4

LEMMA HandlerCalm ==
  ASSUME Inv, Typed', NEW c \in Sockets, Handler(c), ~Accept(c), ~Register(c)
  PROVE  Calm
<1> USE OutType DEF Inv, Typed, TypeOK
<1>1. ASSUME pub' = pub PROVE \A p \in Tasks : \A d \in pub'[p].dead : ~conn[d].alive
  BY <1>1 DEF DeadAreGone
<1>2. CASE AcceptFails(c)
  BY <1>1, <1>2 DEF AcceptFails, Calm, HandshakeIsOutside, Out
<1>3. CASE Leave(c) \/ QueryRaises(c)
  BY <1>1, <1>3 DEF Leave, QueryRaises, Calm, Out
<1>4. CASE GreetFails(c)
  <2>1. conn'[c].at = "out" /\ ~conn'[c].alive /\ conn'[c].raced = conn[c].raced
        /\ \A d \in Sockets \ {c} : conn'[d] = conn[d]
    BY <1>4 DEF GreetFails, Out
  <2> QED BY <1>1, <1>4, <2>1 DEF GreetFails, Calm
<1>5. ASSUME connections' = connections, \A d \in Sockets \ {c} : conn'[d] = conn[d],
             conn'[c].raced = conn[c].raced, conn'[c].alive => conn[c].alive,
             conn[c].at \notin {"out", "accept"} \/ conn'[c].at = conn[c].at,
             conn'[c].at = "accept" => conn[c].at = "accept",
             \A p \in Tasks : pub'[p].dead = pub[p].dead
      PROVE  Calm
  BY <1>5 DEF Calm, DeadAreGone
<1>6. conn[c] \in Connections
  OBVIOUS
<1>7. CASE Greet(c) \/ Lose(c) \/ Query(c) \/ Eose(c) \/ \E e \in Events : Replay(c, e)
  <2>1. CASE Greet(c)
    BY <1>5, <1>6, <2>1 DEF Greet, Connections
  <2>2. CASE Lose(c)
    BY <1>5, <1>6, <2>2 DEF Lose, Connections
  <2>3. CASE Query(c)
    BY <1>5, <1>6, <2>3 DEF Query, Connections
  <2>4. CASE Eose(c)
    BY <1>5, <1>6, <2>4 DEF Eose, Connections
  <2>5. ASSUME NEW e \in Events, Replay(c, e) PROVE Calm
    BY <1>5, <1>6, <2>5 DEF Replay, Connections
  <2> QED BY <1>7, <2>1, <2>2, <2>3, <2>4, <2>5
<1>8. ASSUME pub' = Released(c) PROVE \A p \in Tasks : pub'[p].dead = pub[p].dead
  <2>1. ASSUME NEW p \in Tasks PROVE [pub[p] EXCEPT !.owed = @ \ {c}].dead = pub[p].dead
    BY DEF Broadcasts
  <2> QED BY <1>8, <2>1 DEF Released
<1>9. ASSUME NEW s \in Subs, Close(c, s) PROVE Calm
  <2>1. conn'[c].at = "open" /\ conn[c].at = "open"
        /\ conn'[c].raced = conn[c].raced /\ conn'[c].alive = conn[c].alive
    BY <1>6, <1>9 DEF Close, Listening, Connections
  <2> QED BY <1>5, <1>8, <1>9, <2>1 DEF Close
<1>10. ASSUME NEW s \in Subs, NEW f \in Filters, Req(c, s, f) PROVE Calm
  <2>1. conn'[c].at = "query" /\ conn[c].at = "open"
        /\ conn'[c].raced = conn[c].raced /\ conn'[c].alive = conn[c].alive
    BY <1>6, <1>10 DEF Req, Listening, Connections
  <2> QED BY <1>5, <1>8, <1>10, <2>1 DEF Req
<1> QED BY <1>2, <1>3, <1>4, <1>7, <1>9, <1>10 DEF Handler

LEMMA BroadcastCalm ==
  ASSUME Inv, Typed', NEW p \in Tasks, Broadcast(p)
  PROVE  Calm
<1> USE OutType, QuietType DEF Inv, Typed, TypeOK
<1>1. CASE UNCHANGED <<connections, conn>> /\ DeadAreGone'
  BY <1>1 DEF Calm, DeadAreGone
<1>2. ASSUME NEW told \in [Sockets -> Connections],
             \A c \in Sockets : /\ told[c].at = conn[c].at
                                /\ told[c].alive = conn[c].alive
                                /\ told[c].raced = conn[c].raced
      PROVE  /\ Raise(p, told) => Calm
             /\ \A b \in Broadcasts :
                  Goes(p, b, told) /\ (\A c \in b.dead : ~conn[c].alive) => Calm
  <2>1. ASSUME Raise(p, told) PROVE Calm
    <3>1. \A q \in Tasks : pub'[q].dead \subseteq pub[q].dead
      BY <2>1 DEF Raise, Quiet
    <3>2. \A q \in Tasks : \A c \in pub'[q].dead : ~conn[c].alive
      BY <3>1 DEF DeadAreGone
    <3>3. connections' = connections \ {p}
          /\ conn' = IF p \in Sockets THEN [told EXCEPT ![p] = Out] ELSE told
      BY <2>1 DEF Raise
    <3> QED BY <1>2, <3>2, <3>3 DEF Calm, Out
  <2>2. ASSUME NEW b \in Broadcasts, NextMatch(p, b), conn' = told, \A c \in b.dead : ~conn[c].alive
        PROVE  Calm
    <3>1. PICK c \in b.left, passed \in SUBSET b.left :
            pub' = [pub EXCEPT ![p] = [b EXCEPT !.at = "send", !.target = c,
                                                !.left = @ \ (passed \cup {c})]]
      BY <2>2 DEF NextMatch
    <3>2. [b EXCEPT !.at = "send", !.target = c, !.left = @ \ (passed \cup {c})].dead = b.dead
      BY DEF Broadcasts
    <3>3. PICK n : n = [b EXCEPT !.at = "send", !.target = c, !.left = @ \ (passed \cup {c})]
      OBVIOUS
    <3>4. pub' = [pub EXCEPT ![p] = n] /\ n.dead = b.dead
      BY <3>1, <3>2, <3>3
    <3>5. \A q \in Tasks : \A d \in pub'[q].dead : ~conn[d].alive
      BY <2>2, <3>4 DEF DeadAreGone
    <3> QED BY <1>2, <2>2, <3>5 DEF Calm, NextMatch
  <2>3. ASSUME NEW b \in Broadcasts, LastMatch(p, b), conn' = told, \A c \in b.dead : ~conn[c].alive
        PROVE  Calm
    <3>1. \A q \in Tasks : \A c \in pub'[q].dead : ~conn[c].alive
      BY <2>3 DEF DeadAreGone, LastMatch, Quiet
    <3> QED BY <1>2, <2>3, <3>1 DEF Calm, LastMatch
  <2> QED BY <2>1, <2>2, <2>3 DEF Goes, FilterRaises
<1> QED BY <1>1, <1>2, BroadcastForms

-----------------------------------------------------------------------------
(* The two steps that make a connection *)

LEMMA RegisterInv ==
  ASSUME Inv, Typed', NEW c \in Sockets, Register(c)
  PROVE  Inv'
<1> USE DEF Inv, Typed, TypeOK
<1>1. conn'[c].at = "greet" /\ conn'[c].alive = conn[c].alive /\ conn'[c].raced = conn[c].raced
      /\ \A d \in Sockets \ {c} : conn'[d] = conn[d]
  <2>1. conn[c] \in Connections
    OBVIOUS
  <2> QED BY <2>1 DEF Register, Connections
<1>2. conn[c].at = "accept" /\ connections' = connections \cup {c} /\ pub' = pub
  BY DEF Register
<1>3. DeadAreGone'
  <2>1. \A p \in Tasks : pub[p].dead \subseteq Sockets
    BY DEF Broadcasts
  <2> QED BY <1>1, <1>2, <2>1 DEF DeadAreGone
<1>4. HandshakeIsOutside' /\ LiveStayRegistered'
  BY <1>1, <1>2 DEF HandshakeIsOutside, LiveStayRegistered
<1>5. connections' \cup Shaking' = connections \cup Shaking
  BY <1>1, <1>2 DEF Shaking
<1>6. {d \in connections' \cup Shaking' : ~conn'[d].raced}
        = {d \in connections \cup Shaking : ~conn[d].raced}
  BY <1>1, <1>5 DEF Shaking
<1>7. LimitUnlessRaced'
  BY <1>6 DEF LimitUnlessRaced
<1> QED BY <1>3, <1>4, <1>7

LEMMA AcceptInv ==
  ASSUME Inv, Typed', NEW c \in Sockets, Accept(c)
  PROVE  Inv'
<1> USE DEF Inv, Typed, TypeOK
<1>1. conn'[c].at = "accept" /\ conn'[c].raced = (Shaking # {})
      /\ \A d \in Sockets \ {c} : conn'[d] = conn[d]
  BY DEF Accept, Out
<1>2. c \notin connections /\ conn[c].at = "out" /\ \A p \in Tasks : c \notin pub[p].dead
  BY DEF Accept, Free
<1>3. connections' = connections /\ pub' = pub
  BY DEF Accept
<1>4. DeadAreGone'
  <2>1. \A p \in Tasks : pub[p].dead \subseteq Sockets
    BY DEF Broadcasts
  <2> QED BY <1>1, <1>2, <1>3, <2>1 DEF DeadAreGone
<1>5. HandshakeIsOutside' /\ LiveStayRegistered'
  BY <1>1, <1>2, <1>3 DEF HandshakeIsOutside, LiveStayRegistered
<1>6. LimitUnlessRaced'
  <2>1. PICK S : S = {d \in connections \cup Shaking : ~conn[d].raced}
    OBVIOUS
  <2>2. PICK T : T = {d \in connections' \cup Shaking' : ~conn'[d].raced}
    OBVIOUS
  <2>3. IsFiniteSet(connections) /\ IsFiniteSet(S)
    BY <2>1, TasksAssumption, FS_Subset DEF Shaking
  <2>4. Cardinality(connections) < MaxConnections /\ Cardinality(S) <= MaxConnections
    BY <2>1 DEF Accept, LimitUnlessRaced
  <2>5. CASE Shaking = {}
    <3>1. T \in SUBSET (connections \cup {c})
      BY <1>1, <1>3, <2>2, <2>5 DEF Shaking
    <3>2. IsFiniteSet(connections \cup {c})
          /\ Cardinality(connections \cup {c}) = Cardinality(connections) + 1
      BY <1>2, <2>3, FS_AddElement
    <3>3. Cardinality(T) <= Cardinality(connections) + 1 /\ Cardinality(T) \in Nat
          /\ Cardinality(connections) \in Nat
      BY <2>3, <3>1, <3>2, FS_Subset, FS_CardinalityType
    <3>4. Cardinality(T) <= MaxConnections
      BY <2>4, <3>3, LimitsAssumption
    <3> QED BY <2>2, <3>4 DEF LimitUnlessRaced
  <2>6. CASE Shaking # {}
    <3>1. T \in SUBSET S
      BY <1>1, <1>3, <2>1, <2>2, <2>6 DEF Shaking
    <3>2. Cardinality(T) <= Cardinality(S) /\ Cardinality(T) \in Nat /\ Cardinality(S) \in Nat
      BY <2>3, <3>1, FS_Subset, FS_CardinalityType
    <3>3. Cardinality(T) <= MaxConnections
      BY <2>4, <3>2, LimitsAssumption
    <3> QED BY <2>2, <3>3 DEF LimitUnlessRaced
  <2> QED BY <2>5, <2>6
<1> QED BY <1>4, <1>5, <1>6

-----------------------------------------------------------------------------
(* Theorems *)

LEMMA InitInv == Init => Inv
<1> SUFFICES ASSUME Init PROVE Inv
  OBVIOUS
<1>1. Typed
  BY OutType, QuietType DEF Init, Typed, TypeOK, Publishing, Quiet
<1>2. DeadAreGone /\ HandshakeIsOutside /\ LiveStayRegistered
  BY DEF Init, DeadAreGone, HandshakeIsOutside, LiveStayRegistered, Quiet, Out
<1>3. {c \in connections \cup Shaking : ~conn[c].raced} = {}
  BY DEF Init, Shaking, Out
<1>4. LimitUnlessRaced
  BY <1>3, FS_EmptySet, LimitsAssumption DEF LimitUnlessRaced
<1> QED BY <1>1, <1>2, <1>4 DEF Inv

LEMMA StepInv ==
  ASSUME Inv, [Next]_vars
  PROVE  Inv'
<1>1. ASSUME NEW c \in Sockets, Handler(c) PROVE Inv'
  <2>1. Typed'
    BY <1>1, HandlerTypes DEF Inv
  <2> QED BY <1>1, <2>1, HandlerCalm, CalmInv, RegisterInv, AcceptInv
<1>2. ASSUME NEW p \in Tasks, Broadcast(p) PROVE Inv'
  <2>1. Typed'
    BY <1>2, BroadcastTypes DEF Inv
  <2> QED BY <1>2, <2>1, BroadcastCalm, CalmInv
<1>3. CASE Crash
  <2>1. Typed' /\ DeadAreGone'
    BY <1>3, CrashTypes DEF Inv
  <2>2. connections' = {} /\ \A c \in Sockets : conn'[c] = Out
    BY <1>3 DEF Crash
  <2>3. HandshakeIsOutside' /\ LiveStayRegistered'
    BY <2>2 DEF HandshakeIsOutside, LiveStayRegistered, Out
  <2>4. {c \in connections' \cup Shaking' : ~conn'[c].raced} = {}
    BY <2>2 DEF Shaking, Out
  <2>5. LimitUnlessRaced'
    BY <2>4, FS_EmptySet, LimitsAssumption DEF LimitUnlessRaced
  <2> QED BY <2>1, <2>3, <2>5 DEF Inv
<1>4. CASE UNCHANGED vars
  BY <1>4 DEF vars, Inv, Typed, TypeOK, Publishing, DeadAreGone, HandshakeIsOutside,
              LiveStayRegistered, LimitUnlessRaced, Shaking
<1> QED BY <1>1, <1>2, <1>3, <1>4 DEF Next

LEMMA AlwaysInv == Spec => []Inv
BY InitInv, StepInv, PTL DEF Spec

\* Every variable keeps its type: a broadcast's sets hold connections, its event is one.
THEOREM RelayTypeCorrect == Spec => []TypeOK
<1>1. Inv => TypeOK
  BY DEF Inv, Typed
<1> QED BY <1>1, AlwaysInv, PTL

\* Neither a broadcast that removes its dead connections, nor another handler's end, nor a
\* raising filter takes a present client out of the registry (relay.py:87, main.py:769).
THEOREM LiveStay == Spec => []LiveStayRegistered
<1>1. Inv => LiveStayRegistered
  BY DEF Inv
<1> QED BY <1>1, AlwaysInv, PTL

\* The check of MAX_CONNECTIONS before the handshake (main.py:747) bounds the connections whose
\* handshake was alone, however many sockets there are.
THEOREM LimitHolds == Spec => []LimitUnlessRaced
<1>1. Inv => LimitUnlessRaced
  BY DEF Inv
<1> QED BY <1>1, AlwaysInv, PTL

-----------------------------------------------------------------------------
(* What a step of a broadcast does *)

\* What a task knows of its event: once past the store it is stored, or ephemeral; it is whole
\* until the iteration finds another registry, and visits only what it found there.
TasksInv ==
  \A p \in Tasks :
    /\ pub[p].at = "idle" => pub[p].event = None
    /\ pub[p].at \in {"idle", "store"} => pub[p].left = {} /\ pub[p].target = None
    /\ pub[p].at \in {"store", "stored"} => pub[p].whole
    /\ pub[p].at \in {"stored", "send"} => pub[p].event \in stored \cup Ephemeral
    /\ pub[p].at = "send" => pub[p].left \subseteq pub[p].members
    /\ pub[p].at = "send" /\ pub[p].whole => pub[p].owed \subseteq pub[p].members

\* Nothing but what c was sent differs.
SameBut(t, u) ==
  /\ t.at = u.at /\ t.alive = u.alive /\ t.subs = u.subs /\ t.sub = u.sub /\ t.queue = u.queue
  /\ u.got \subseteq t.got

\* The handler of c raised, or c was at most sent an event.
Ended(c) == c \notin connections' /\ conn'[c] = Out
Stayed(c) == SameBut(conn'[c], conn[c]) \/ Ended(c)

\* The iteration b of task p has gone on to its next match.
NextFrom(p, b) ==
  /\ pub'[p].at = "send" /\ pub'[p].event = b.event /\ pub'[p].whole = b.whole
  /\ pub'[p].members = b.members /\ pub'[p].owed = b.owed
  /\ pub'[p].left \subseteq b.left
  /\ \A c \in b.left : Match(c, b.event) => c \in pub'[p].left \cup {pub'[p].target}

LEMMA RaiseMoves ==
  ASSUME Typed, NEW p \in Tasks, NEW told \in [Sockets -> Connections], Raise(p, told)
  PROVE  /\ pub'[p] = Quiet /\ \A q \in Tasks \ {p} : pub'[q] = pub[q]
         /\ connections' \subseteq connections
         /\ \A c \in Sockets : conn'[c] = told[c] \/ Ended(c)
BY OutType DEF Raise, Typed, TypeOK, Ended

LEMMA GoesMoves ==
  ASSUME Typed, NEW p \in Tasks, NEW b \in Broadcasts, NEW told \in [Sockets -> Connections],
         Goes(p, b, told)
  PROVE  /\ \A q \in Tasks \ {p} : pub'[q] = pub[q]
         /\ connections' \subseteq connections
         /\ \A c \in Sockets : conn'[c] = told[c] \/ Ended(c)
         /\ pub'[p] = Quiet \/ NextFrom(p, b)
         /\ \/ lost' = lost \cup {b.event} /\ pub'[p] = Quiet /\ \E c \in b.left : Raises(c, b.event)
            \/ lost' = lost \cup {b.event} /\ ~b.whole
            \/ /\ b.whole /\ conn' = told
               /\ \/ lost' = lost \ {b.event} /\ pub'[p] = Quiet
                                              /\ \A c \in b.left : ~Match(c, b.event)
                  \/ lost' = lost /\ NextFrom(p, b)
<1> USE DEF Typed, TypeOK
<1>1. CASE NextMatch(p, b) /\ conn' = told
  <2>1. PICK c \in b.left, passed \in SUBSET b.left :
          /\ \A d \in passed : Skipped(d, b.event)
          /\ pub' = [pub EXCEPT ![p] = [b EXCEPT !.at = "send", !.target = c,
                                                 !.left = @ \ (passed \cup {c})]]
    BY <1>1 DEF NextMatch
  <2>2. PICK n : n = [b EXCEPT !.at = "send", !.target = c, !.left = @ \ (passed \cup {c})]
    OBVIOUS
  <2>3. /\ n.at = "send" /\ n.event = b.event /\ n.whole = b.whole /\ n.members = b.members
        /\ n.owed = b.owed /\ n.left = b.left \ (passed \cup {c}) /\ n.target = c
    BY <2>2 DEF Broadcasts
  <2>4. pub' = [pub EXCEPT ![p] = n]
    BY <2>1, <2>2
  <2>5. pub'[p] = n /\ \A q \in Tasks \ {p} : pub'[q] = pub[q]
    BY <2>4
  <2>6. NextFrom(p, b)
    BY <2>1, <2>3, <2>5 DEF NextFrom, Skipped
  <2>7. connections' = connections /\ lost' = IF b.whole THEN lost ELSE lost \cup {b.event}
    BY <1>1 DEF NextMatch
  <2> QED BY <1>1, <2>5, <2>6, <2>7
<1>2. CASE LastMatch(p, b) /\ conn' = told
  BY <1>2 DEF LastMatch, Skipped
<1>3. CASE FilterRaises(p, b, told)
  BY <1>3, RaiseMoves DEF FilterRaises
<1> QED BY <1>1, <1>2, <1>3 DEF Goes

LEMMA ToldSame ==
  ASSUME Typed, NEW p \in Tasks, pub[p].at = "send"
  PROVE  /\ Told(pub[p]) \in [Sockets -> Connections]
         /\ \A c \in Sockets : SameBut(Told(pub[p])[c], conn[c])
         /\ conn[pub[p].target].alive => pub[p].event \in Told(pub[p])[pub[p].target].got
<1>1. pub[p].event \in Events /\ pub[p].target \in Sockets
  BY DEF Typed, TypeOK, Publishing
<1>2. \A c \in Sockets : conn[c] \in Connections
  BY DEF Typed, TypeOK
<1>4. PICK c : c = pub[p].target
  OBVIOUS
<1>5. PICK t : t = [conn[c] EXCEPT !.got = @ \cup {pub[p].event}]
  OBVIOUS
<1>6. SameBut(t, conn[c]) /\ pub[p].event \in t.got
  BY <1>1, <1>2, <1>4, <1>5 DEF Connections, SameBut
<1>7. Told(pub[p]) = IF conn[c].alive THEN [conn EXCEPT ![c] = t] ELSE conn
  BY <1>4, <1>5 DEF Told
<1>8. ASSUME NEW d \in Sockets PROVE SameBut(Told(pub[p])[d], conn[d])
  <2>1. Told(pub[p])[d] = conn[d] \/ (d = c /\ Told(pub[p])[d] = t)
    BY <1>1, <1>4, <1>7 DEF Typed, TypeOK
  <2>2. SameBut(conn[d], conn[d])
    BY DEF SameBut
  <2> QED BY <1>6, <2>1, <2>2
<1>9. conn[c].alive => Told(pub[p])[c] = t
  BY <1>1, <1>4, <1>7 DEF Typed, TypeOK
<1> QED BY <1>4, <1>6, <1>8, <1>9, ToldTypes

\* Why a broadcast is not completed.
Cause(p) ==
  \/ pub[p].at = "send" /\ (connections # pub[p].members \/ ~pub[p].whole)
  \/ p \in Sockets /\ pub[p].at = "stored" /\ ~conn[p].alive
  \/ \E c \in connections : Raises(c, pub[p].event)

Stops(p) ==
  /\ lost' = lost \cup {pub[p].event} /\ Cause(p)
  /\ \/ pub'[p] = Quiet
     \/ /\ pub'[p].at = "send" /\ pub'[p].event = pub[p].event /\ ~pub'[p].whole
        /\ pub'[p].left \subseteq pub'[p].members

\* The target was sent the event, and whoever matches and was not visited yet is still to be.
Visits(p) ==
  \A c \in connections : conn[c].alive =>
    /\ pub[p].at = "send" /\ c = pub[p].target =>
         (c \in connections' => pub[p].event \in conn'[c].got)
    /\ Match(c, pub[p].event) /\ (pub[p].at = "stored" \/ c \in pub[p].left) =>
         pub'[p].at = "send" /\ c \in pub'[p].left \cup {pub'[p].target}

Advances(p) ==
  /\ pub[p].whole /\ Visits(p)
  /\ \/ lost' = lost \ {pub[p].event} /\ pub'[p] = Quiet
     \/ /\ lost' = lost
        /\ pub'[p].at = "send" /\ pub'[p].event = pub[p].event /\ pub'[p].whole
        /\ pub'[p].left \subseteq pub'[p].members
        /\ IF pub[p].at = "stored"
           THEN /\ pub'[p].members = connections
                /\ pub'[p].owed = {c \in connections : Match(c, pub[p].event)}
           ELSE pub'[p].members = pub[p].members /\ pub'[p].owed = pub[p].owed

Starts(p) ==
  /\ pub[p].at = "idle" /\ pub'[p].at = "store" /\ pub'[p].left = {} /\ pub'[p].target = None
  /\ pub'[p].whole /\ UNCHANGED <<stored, lost>>

Stores(p) ==
  /\ pub[p].at = "store" /\ pub'[p].at = "stored" /\ pub'[p].event = pub[p].event
  /\ pub'[p].whole /\ stored' = stored \cup ({pub[p].event} \ Ephemeral) /\ lost' = lost

Fails(p) == pub[p].at = "store" /\ pub'[p] = Quiet /\ UNCHANGED <<stored, lost>>

LEMMA SentMoves ==
  ASSUME Typed, TasksInv, NEW p \in Tasks, Sent(p)
  PROVE  /\ \A q \in Tasks \ {p} : pub'[q] = pub[q]
         /\ connections' \subseteq connections
         /\ \A c \in Sockets : Stayed(c)
         /\ Stops(p) \/ Advances(p)
<1> DEFINE b == [pub[p] EXCEPT !.dead = Unreached(pub[p])]
           e == pub[p].event
<1>1. pub[p].at = "send" /\ connections = pub[p].members
  BY DEF Sent
<1>2. b \in Broadcasts
  BY <1>1, SentTypes
<1>3. /\ b.event = e /\ b.whole = pub[p].whole /\ b.members = pub[p].members
      /\ b.left = pub[p].left /\ b.owed = pub[p].owed
  BY DEF Typed, TypeOK, Broadcasts
<1>4. Goes(p, b, Told(pub[p]))
  BY DEF Sent, Goes
<1> HIDE DEF b
<1>5. /\ Told(pub[p]) \in [Sockets -> Connections]
      /\ \A c \in Sockets : SameBut(Told(pub[p])[c], conn[c])
      /\ conn[pub[p].target].alive => e \in Told(pub[p])[pub[p].target].got
  BY <1>1, ToldSame
<1>6. /\ \A q \in Tasks \ {p} : pub'[q] = pub[q]
      /\ connections' \subseteq connections
      /\ \A c \in Sockets : Stayed(c)
      /\ pub'[p] = Quiet \/ NextFrom(p, b)
  BY <1>2, <1>4, <1>5, GoesMoves DEF Typed, TypeOK, Stayed
<1>7. CASE lost' = lost \cup {b.event} /\ pub'[p] = Quiet /\ \E c \in b.left : Raises(c, b.event)
  <2>1. Cause(p)
    BY <1>1, <1>3, <1>7 DEF Cause, TasksInv
  <2> QED BY <1>3, <1>6, <1>7, <2>1 DEF Stops
<1>8. CASE lost' = lost \cup {b.event} /\ ~b.whole
  <2>1. Cause(p)
    BY <1>1, <1>3, <1>8 DEF Cause
  <2>2. CASE NextFrom(p, b)
    BY <1>1, <1>3, <1>6, <1>8, <2>1, <2>2 DEF Stops, NextFrom, TasksInv
  <2> QED BY <1>3, <1>6, <1>8, <2>1, <2>2 DEF Stops
<1>9. CASE /\ b.whole /\ conn' = Told(pub[p])
           /\ \/ lost' = lost \ {b.event} /\ pub'[p] = Quiet /\ \A c \in b.left : ~Match(c, b.event)
              \/ lost' = lost /\ NextFrom(p, b)
  <2>1. Visits(p)
    BY <1>1, <1>3, <1>5, <1>9 DEF Visits, NextFrom
  <2>2. CASE lost' = lost /\ NextFrom(p, b)
    BY <1>1, <1>3, <1>6, <1>9, <2>1, <2>2 DEF Advances, NextFrom, TasksInv
  <2> QED BY <1>3, <1>6, <1>9, <2>1, <2>2 DEF Advances
<1> QED BY <1>2, <1>4, <1>5, <1>6, <1>7, <1>8, <1>9, GoesMoves

LEMMA BeginMoves ==
  ASSUME Typed, TasksInv, NEW p \in Tasks, Begin(p)
  PROVE  /\ \A q \in Tasks \ {p} : pub'[q] = pub[q]
         /\ connections' \subseteq connections
         /\ \A c \in Sockets : Stayed(c)
         /\ Stops(p) \/ Advances(p)
<1> DEFINE e == pub[p].event
           o == {c \in connections : Match(c, e)}
           b == [pub[p] EXCEPT !.members = connections, !.left = connections, !.owed = o]
<1>1. pub[p].at = "stored"
  BY DEF Begin
<1>2. b \in Broadcasts
  BY <1>1, BeginTypes
<1>3. /\ b.event = e /\ b.whole = pub[p].whole /\ b.members = connections
      /\ b.left = connections /\ b.owed = o
  BY DEF Typed, TypeOK, Broadcasts
<1>4. Goes(p, b, conn)
  BY DEF Begin, Goes
<1> HIDE DEF b
<1>5. b.whole
  BY <1>1, <1>3 DEF TasksInv
<1>6. /\ \A q \in Tasks \ {p} : pub'[q] = pub[q]
      /\ connections' \subseteq connections
      /\ \A c \in Sockets : Stayed(c)
  BY <1>2, <1>4, GoesMoves DEF Typed, TypeOK, SameBut, Stayed
<1>7. CASE lost' = lost \cup {b.event} /\ pub'[p] = Quiet /\ \E c \in b.left : Raises(c, b.event)
  <2>1. Cause(p)
    BY <1>3, <1>7 DEF Cause
  <2> QED BY <1>3, <1>6, <1>7, <2>1 DEF Stops
<1>8. CASE \/ lost' = lost \ {b.event} /\ pub'[p] = Quiet /\ \A c \in b.left : ~Match(c, b.event)
           \/ lost' = lost /\ NextFrom(p, b)
  <2>1. Visits(p)
    BY <1>1, <1>3, <1>8 DEF Visits, NextFrom
  <2>2. CASE lost' = lost /\ NextFrom(p, b)
    BY <1>1, <1>3, <1>5, <1>6, <2>1, <2>2 DEF Advances, NextFrom
  <2> QED BY <1>3, <1>5, <1>6, <1>8, <2>1, <2>2 DEF Advances
<1> QED BY <1>2, <1>4, <1>5, <1>6, <1>7, <1>8, GoesMoves DEF Typed, TypeOK

LEMMA ShuffledMoves ==
  ASSUME Typed, TasksInv, NEW p \in Tasks, Shuffled(p)
  PROVE  /\ \A q \in Tasks \ {p} : pub'[q] = pub[q]
         /\ connections' \subseteq connections
         /\ \A c \in Sockets : Stayed(c)
         /\ Stops(p)
<1> DEFINE b == [pub[p] EXCEPT !.dead = Unreached(pub[p]), !.members = connections,
                               !.whole = FALSE]
<1>1. pub[p].at = "send" /\ connections # pub[p].members
  BY DEF Shuffled
<1>2. PICK left \in SUBSET connections : Goes(p, [b EXCEPT !.left = left], Told(pub[p]))
  BY DEF Shuffled, Goes
<1>3. PICK n : n = [b EXCEPT !.left = left]
  OBVIOUS
<1>4. n \in Broadcasts
  BY <1>1, <1>3, ShuffledTypes
<1>5. n.event = pub[p].event /\ n.whole = FALSE /\ n.members = connections /\ n.left = left
  BY <1>3 DEF Typed, TypeOK, Broadcasts
<1>6. Goes(p, n, Told(pub[p]))
  BY <1>2, <1>3
<1> HIDE DEF b
<1>7. /\ \A q \in Tasks \ {p} : pub'[q] = pub[q]
      /\ connections' \subseteq connections
      /\ \A c \in Sockets : Stayed(c)
      /\ pub'[p] = Quiet \/ NextFrom(p, n)
      /\ lost' = lost \cup {n.event}
  BY <1>1, <1>4, <1>5, <1>6, ToldSame, GoesMoves DEF Typed, TypeOK, Stayed
<1>8. Cause(p)
  BY <1>1 DEF Cause
<1>9. CASE NextFrom(p, n)
  BY <1>5, <1>7, <1>8, <1>9 DEF Stops, NextFrom
<1> QED BY <1>5, <1>7, <1>8, <1>9 DEF Stops

LEMMA BroadcastMoves ==
  ASSUME Typed, TasksInv, NEW p \in Tasks, Broadcast(p)
  PROVE  /\ \A q \in Tasks \ {p} : pub'[q] = pub[q]
         /\ connections' \subseteq connections
         /\ \A c \in Sockets : Stayed(c)
         /\ \/ Starts(p) \/ Stores(p) \/ Fails(p)
            \/ /\ pub[p].at \in {"stored", "send"} /\ stored' = stored
               /\ Stops(p) \/ Advances(p)
<1> USE DEF Typed, TypeOK
<1>0. ASSUME UNCHANGED <<connections, conn>>
      PROVE  connections' \subseteq connections /\ \A c \in Sockets : Stayed(c)
  BY <1>0 DEF SameBut, Stayed
<1>1. CASE Store(p)
  <2>1. PICK q : q = [pub[p] EXCEPT !.at = "stored"]
    OBVIOUS
  <2>2. q.event = pub[p].event /\ q.at = "stored" /\ q.whole = pub[p].whole
    BY <2>1 DEF Broadcasts
  <2>3. pub' = [pub EXCEPT ![p] = q] /\ pub[p].at = "store"
    BY <1>1, <2>1 DEF Store
  <2>4. pub'[p] = q /\ \A r \in Tasks \ {p} : pub'[r] = pub[r]
    BY <2>3
  <2>5. Stores(p)
    BY <1>1, <2>2, <2>3, <2>4 DEF Store, Stores, TasksInv
  <2> QED BY <1>0, <1>1, <2>4, <2>5 DEF Store
<1>2. ASSUME NEW e \in Events, Publish(p, e)
      PROVE  /\ \A q \in Tasks \ {p} : pub'[q] = pub[q]
             /\ Starts(p) /\ UNCHANGED <<connections, conn>>
  <2>1. PICK q : q = [Quiet EXCEPT !.at = "store", !.event = e]
    OBVIOUS
  <2>2. q.at = "store" /\ q.left = {} /\ q.target = None /\ q.whole
    BY <2>1 DEF Quiet
  <2>3. pub' = [pub EXCEPT ![p] = q] /\ pub[p].at = "idle"
    BY <1>2, <2>1 DEF Publish
  <2> QED BY <1>2, <2>2, <2>3 DEF Publish, Starts
<1>3. CASE StoreFails(p)
  BY <1>3, RaiseMoves DEF StoreFails, Fails, SameBut, Stayed
<1>4. CASE OkFails(p)
  BY <1>4, RaiseMoves DEF OkFails, Stops, Cause, SameBut, Stayed
<1>5. CASE Begin(p)
  BY <1>5, BeginMoves DEF Begin
<1>6. CASE Sent(p)
  BY <1>6, SentMoves DEF Sent
<1>7. CASE SizeChanged(p)
  <2>1. pub[p].at = "send" /\ Raise(p, Told(pub[p])) /\ stored' = stored
        /\ lost' = lost \cup {pub[p].event} /\ connections # pub[p].members
    BY <1>7 DEF SizeChanged
  <2>2. Stops(p)
    BY <2>1, ToldSame, RaiseMoves DEF Stops, Cause
  <2> QED BY <2>1, <2>2, ToldSame, RaiseMoves DEF Stayed
<1>8. CASE Shuffled(p)
  BY <1>8, ShuffledMoves DEF Shuffled
<1> QED BY <1>0, <1>1, <1>2, <1>3, <1>4, <1>5, <1>6, <1>7, <1>8 DEF Broadcast

-----------------------------------------------------------------------------
(* What a step of a handler does *)

\* Before it is open a connection has no subscription; out of a REQ it replays none.
Early ==
  \A c \in Sockets :
    /\ conn[c].at \in {"out", "accept", "greet"} => \A s \in Subs : conn[c].subs[s] = NoFilter
    /\ conn[c].at \notin {"query", "replay"} => conn[c].sub = None

\* c was sent e, or the replay of s will.
Served(c, s, e) ==
  \/ e \in conn[c].got
  \/ conn[c].sub = s /\ (conn[c].at = "query" \/ e \in conn[c].queue)

\* What a step of a handler does to connection c: a live one loses nothing it was sent, and a
\* subscription it did not have is served by its replay.
Moved(c) ==
  /\ conn'[c].alive /\ c \in connections' =>
       /\ conn[c].alive /\ conn[c].got \subseteq conn'[c].got
       /\ c \in connections \/ conn[c].at = "accept"
       /\ conn'[c].subs = conn[c].subs \/ \A p \in Tasks : c \notin pub'[p].owed
       /\ \A s \in Subs : \A e \in stored \cap conn'[c].subs[s].match :
            \/ Served(c, s, e)'
            \/ c \in connections /\ e \in conn[c].subs[s].match /\ ~Served(c, s, e)
  /\ conn'[c].at \in {"out", "accept", "greet"} => \A s \in Subs : conn'[c].subs[s] = NoFilter
  /\ conn'[c].at \notin {"query", "replay"} => conn'[c].sub = None
  /\ conn'[c].at = "accept" => conn[c].at = "accept" \/ \A p \in Tasks : c \notin pub[p].members

\* To the broadcasts it does nothing but release c.
OnlyReleased ==
  \A p \in Tasks :
    /\ pub'[p].at = pub[p].at /\ pub'[p].event = pub[p].event /\ pub'[p].left = pub[p].left
    /\ pub'[p].target = pub[p].target /\ pub'[p].members = pub[p].members
    /\ pub'[p].whole = pub[p].whole /\ pub'[p].owed \subseteq pub[p].owed

LEMMA ReleasedMoves ==
  ASSUME Typed, NEW c \in Sockets, pub' = Released(c)
  PROVE  OnlyReleased /\ \A p \in Tasks : c \notin pub'[p].owed
<1>1. ASSUME NEW p \in Tasks
      PROVE  /\ pub'[p].at = pub[p].at /\ pub'[p].event = pub[p].event
             /\ pub'[p].left = pub[p].left /\ pub'[p].target = pub[p].target
             /\ pub'[p].members = pub[p].members /\ pub'[p].whole = pub[p].whole
             /\ pub'[p].owed = pub[p].owed \ {c}
  <2>1. pub'[p] = [pub[p] EXCEPT !.owed = @ \ {c}] /\ pub[p] \in Broadcasts
    BY DEF Released, Typed, TypeOK
  <2> QED BY <2>1 DEF Broadcasts
<1> QED BY <1>1 DEF OnlyReleased

LEMMA HandlerMoves ==
  ASSUME Typed, Early, NEW c \in Sockets, Handler(c)
  PROVE  /\ UNCHANGED <<stored, lost>> /\ OnlyReleased
         /\ \A d \in Sockets : Moved(d)
<1> USE DEF Typed, TypeOK
<1>p. pub' = pub => OnlyReleased
  BY DEF OnlyReleased
<1>o. \A d \in Sockets \ {c} : conn'[d] = conn[d] /\ (d \in connections' => d \in connections)
  BY DEF Handler, Accept, AcceptFails, Register, Greet, GreetFails, Lose, Leave, Query,
         QueryRaises, Eose, Replay, Close, Req
<1>d. \A d \in Sockets \ {c} : Moved(d)
  BY <1>o DEF Moved, Early, Served
<1>n. None \notin Subs /\ \A s \in Subs : NoFilter.match = {}
  BY NoneAssumption DEF NoFilter
<1>t. conn[c] \in Connections
  OBVIOUS
<1>u. Out.at = "out" /\ ~Out.alive /\ Out.sub = None /\ \A s \in Subs : Out.subs[s] = NoFilter
  BY DEF Out
<1>1. CASE Accept(c)
  <2>1. conn'[c].at = "accept" /\ conn'[c].subs = Out.subs /\ conn'[c].sub = None
    BY <1>1 DEF Accept, Out
  <2>2. c \notin connections' /\ \A p \in Tasks : c \notin pub[p].members
    BY <1>1 DEF Accept, Free
  <2>3. Moved(c)
    BY <1>u, <2>1, <2>2 DEF Moved
  <2> QED BY <1>1, <1>d, <1>p, <2>3 DEF Accept
<1>2. CASE AcceptFails(c) \/ Leave(c) \/ QueryRaises(c)
  <2>1. conn'[c] = Out
    BY <1>2 DEF AcceptFails, Leave, QueryRaises
  <2>2. Moved(c)
    BY <1>u, <2>1 DEF Moved
  <2> QED BY <1>2, <1>d, <1>p, <2>2 DEF AcceptFails, Leave, QueryRaises
<1>3. CASE GreetFails(c)
  <2>1. conn'[c].at = "out" /\ ~conn'[c].alive /\ conn'[c].sub = None /\ conn'[c].subs = Out.subs
    BY <1>3 DEF GreetFails, Out
  <2>2. Moved(c)
    BY <1>u, <2>1 DEF Moved
  <2> QED BY <1>3, <1>d, <1>p, <2>2 DEF GreetFails
<1>4. CASE Register(c)
  <2>1. conn'[c].at = "greet" /\ conn'[c].subs = conn[c].subs /\ conn'[c].sub = conn[c].sub
        /\ conn'[c].alive = conn[c].alive /\ conn'[c].got = conn[c].got /\ conn[c].at = "accept"
    BY <1>4, <1>t DEF Register, Connections
  <2>2. Moved(c)
    BY <1>n, <2>1 DEF Moved, Early
  <2> QED BY <1>4, <1>d, <1>p, <2>2 DEF Register
<1>5. CASE Greet(c)
  <2>1. conn'[c].at = "open" /\ conn'[c].subs = conn[c].subs /\ conn'[c].sub = conn[c].sub
        /\ conn'[c].alive = conn[c].alive /\ conn'[c].got = conn[c].got /\ conn[c].at = "greet"
    BY <1>5, <1>t DEF Greet, Connections
  <2>2. Moved(c)
    BY <1>5, <1>n, <2>1 DEF Moved, Early, Greet
  <2> QED BY <1>5, <1>d, <1>p, <2>2 DEF Greet
<1>6. CASE Lose(c)
  <2>1. conn'[c].at = conn[c].at /\ conn'[c].subs = conn[c].subs /\ conn'[c].sub = conn[c].sub
        /\ ~conn'[c].alive
    BY <1>6, <1>t DEF Lose, Connections
  <2>2. Moved(c)
    BY <2>1 DEF Moved, Early
  <2> QED BY <1>6, <1>d, <1>p, <2>2 DEF Lose
<1>7. CASE Query(c)
  <2>1. PICK q : q = stored \cap conn[c].subs[conn[c].sub].match
    OBVIOUS
  <2>2. conn'[c].at = "replay" /\ conn'[c].queue = q /\ conn'[c].subs = conn[c].subs
        /\ conn'[c].sub = conn[c].sub /\ conn'[c].alive = conn[c].alive
        /\ conn'[c].got = conn[c].got
    BY <1>7, <1>t, <2>1 DEF Query, Connections
  <2>3. Moved(c)
    BY <1>7, <2>1, <2>2 DEF Query, Moved, Served
  <2> QED BY <1>7, <1>d, <1>p, <2>3 DEF Query
<1>8. CASE Eose(c)
  <2>1. conn'[c].at = "open" /\ conn'[c].sub = None /\ conn'[c].subs = conn[c].subs
        /\ conn'[c].alive = conn[c].alive /\ conn'[c].got = conn[c].got
        /\ conn[c].at = "replay" /\ conn[c].queue = {}
    BY <1>8, <1>t DEF Eose, Connections
  <2>2. Moved(c)
    BY <1>8, <2>1 DEF Eose, Moved, Served
  <2> QED BY <1>8, <1>d, <1>p, <2>2 DEF Eose
<1>9. ASSUME NEW e \in Events, Replay(c, e)
      PROVE  UNCHANGED <<stored, lost>> /\ OnlyReleased /\ \A d \in Sockets : Moved(d)
  <2>1. conn'[c].at = "replay" /\ conn'[c].sub = conn[c].sub /\ conn'[c].subs = conn[c].subs
        /\ conn'[c].alive = conn[c].alive /\ conn'[c].got = conn[c].got \cup {e}
        /\ conn'[c].queue = conn[c].queue \ {e} /\ conn[c].at = "replay"
    BY <1>9, <1>t DEF Replay, Connections
  <2>2. Moved(c)
    BY <1>9, <2>1 DEF Replay, Moved, Served
  <2> QED BY <1>9, <1>d, <1>p, <2>2 DEF Replay
<1>10. ASSUME NEW r \in Subs, Close(c, r)
       PROVE  UNCHANGED <<stored, lost>> /\ OnlyReleased /\ \A d \in Sockets : Moved(d)
  <2>1. OnlyReleased /\ \A p \in Tasks : c \notin pub'[p].owed
    BY <1>10, ReleasedMoves DEF Close
  <2>2. conn'[c].at = "open" /\ conn'[c].sub = conn[c].sub /\ conn[c].at = "open"
        /\ conn'[c].subs = [conn[c].subs EXCEPT ![r] = NoFilter]
        /\ conn'[c].alive = conn[c].alive /\ conn'[c].got = conn[c].got
        /\ conn'[c].queue = conn[c].queue
    BY <1>10, <1>t DEF Close, Listening, Connections
  <2>3. \A s \in Subs : conn'[c].subs[s] = IF s = r THEN NoFilter ELSE conn[c].subs[s]
    BY <1>t, <2>2 DEF Connections
  <2>4. Moved(c)
    BY <1>10, <1>n, <2>1, <2>2, <2>3 DEF Close, Moved, Served, Early
  <2> QED BY <1>10, <1>d, <2>1, <2>4 DEF Close
<1>11. ASSUME NEW r \in Subs, NEW f \in Filters, Req(c, r, f)
       PROVE  UNCHANGED <<stored, lost>> /\ OnlyReleased /\ \A d \in Sockets : Moved(d)
  <2>1. OnlyReleased /\ \A p \in Tasks : c \notin pub'[p].owed
    BY <1>11, ReleasedMoves DEF Req
  <2>2. conn'[c].at = "query" /\ conn'[c].sub = r /\ conn[c].at = "open"
        /\ conn'[c].subs = [conn[c].subs EXCEPT ![r] = f]
        /\ conn'[c].alive = conn[c].alive /\ conn'[c].got = conn[c].got
    BY <1>11, <1>t DEF Req, Listening, Connections
  <2>3. \A s \in Subs : conn'[c].subs[s] = IF s = r THEN f ELSE conn[c].subs[s]
    BY <1>t, <2>2 DEF Connections
  <2>4. conn[c].sub = None
    BY <2>2 DEF Early
  <2>5. Moved(c)
    BY <1>11, <1>n, <2>1, <2>2, <2>3, <2>4 DEF Req, Moved, Served
  <2> QED BY <1>11, <1>d, <2>1, <2>5 DEF Req
<1> QED BY <1>1, <1>2, <1>3, <1>4, <1>5, <1>6, <1>7, <1>8, <1>9, <1>10, <1>11 DEF Handler

-----------------------------------------------------------------------------
(* No gap *)

Ahead(p, c) == c \in pub[p].left \cup {pub[p].target}

Whole(p) == pub[p].at = "send" /\ pub[p].whole

\* A whole broadcast has served whoever it passed, also those that lost the event before: it
\* may end the loss.
Covered ==
  \A p \in Tasks : Whole(p) =>
    \A c \in connections, s \in Subs, e \in stored :
      e = pub[p].event /\ e \in conn[c].subs[s].match /\ conn[c].alive =>
        Served(c, s, e) \/ Ahead(p, c)

\* So has it those it owes the event; and their sockets do not start anew before its end.
OwedInv ==
  \A p \in Tasks : Whole(p) =>
    \A c \in pub[p].owed, e \in {pub[p].event} :
      /\ conn[c].at # "accept"
      /\ c \in connections /\ conn[c].alive =>
           \/ e \in conn[c].got
           \/ c = pub[p].target
           \/ c \in pub[p].left /\ Match(c, e)

RInv == Inv /\ TasksInv /\ Early /\ NoGap /\ Covered /\ OwedInv

LEMMA HandlerGap ==
  ASSUME RInv, Inv', NEW c \in Sockets, Handler(c)
  PROVE  RInv'
<1> USE DEF RInv, Inv, Typed, TypeOK
<1>1. UNCHANGED <<stored, lost>> /\ OnlyReleased /\ \A d \in Sockets : Moved(d)
  BY HandlerMoves
<1>2. TasksInv'
  BY <1>1 DEF TasksInv, OnlyReleased
<1>3. Early'
  BY <1>1 DEF Early, Moved
<1>4. NoGap'
  <2> SUFFICES ASSUME NEW d \in connections', NEW s \in Subs, NEW e \in stored \cap conn'[d].subs[s].match,
                      conn'[d].alive, e \notin lost
               PROVE  \/ Served(d, s, e)'
                      \/ \E p \in Tasks : /\ pub'[p].event = e
                                          /\ pub'[p].at = "stored" \/ Ahead(p, d)'
    BY <1>1 DEF NoGap, Served, Ahead
  <2>1. Moved(d) /\ d \in Sockets
    BY <1>1
  <2>2. CASE d \in connections /\ conn[d].alive /\ e \in conn[d].subs[s].match /\ ~Served(d, s, e)
    <3>1. PICK p \in Tasks : pub[p].event = e /\ (pub[p].at = "stored" \/ Ahead(p, d))
      BY <2>2 DEF NoGap, Served, Ahead
    <3> QED BY <1>1, <3>1 DEF OnlyReleased, Ahead
  <2> QED BY <2>1, <2>2 DEF Moved
<1>5. Covered'
  <2> SUFFICES ASSUME NEW p \in Tasks, Whole(p)', NEW d \in connections', NEW s \in Subs,
                      NEW e \in stored', e = pub'[p].event, e \in conn'[d].subs[s].match,
                      conn'[d].alive
               PROVE  Served(d, s, e)' \/ Ahead(p, d)'
    BY DEF Covered
  <2>1. Moved(d) /\ Whole(p) /\ e = pub[p].event /\ (Ahead(p, d) => Ahead(p, d)')
    BY <1>1 DEF OnlyReleased, Whole, Ahead
  <2>2. Served(d, s, e)' \/ (d \in connections /\ conn[d].alive /\ e \in conn[d].subs[s].match
                             /\ ~Served(d, s, e))
    BY <1>1, <2>1 DEF Moved
  <2> QED BY <1>1, <2>1, <2>2 DEF Covered
<1>6. OwedInv'
  <2> SUFFICES ASSUME NEW p \in Tasks, Whole(p)', NEW d \in pub'[p].owed, NEW e \in {pub'[p].event}
               PROVE  /\ conn'[d].at # "accept"
                      /\ d \in connections' /\ conn'[d].alive =>
                           \/ e \in conn'[d].got
                           \/ d = pub'[p].target
                           \/ d \in pub'[p].left /\ Match(d, e)'
    BY DEF OwedInv
  <2>1. Whole(p) /\ d \in pub[p].owed /\ d \in Sockets /\ d \in pub[p].members
    <3>1. Whole(p) /\ d \in pub[p].owed
      BY <1>1 DEF OnlyReleased, Whole
    <3>2. pub[p] \in Broadcasts
      OBVIOUS
    <3> QED BY <3>1, <3>2 DEF Broadcasts, TasksInv, Whole
  <2>2. Moved(d) /\ conn[d].at # "accept"
    BY <1>1, <2>1 DEF OwedInv
  <2>3. conn'[d].at # "accept"
    BY <2>1, <2>2 DEF Moved
  <2>4. e = pub[p].event /\ pub'[p].target = pub[p].target /\ pub'[p].left = pub[p].left
    BY <1>1 DEF OnlyReleased
  <2>5. ASSUME d \in connections', conn'[d].alive
        PROVE  e \in conn'[d].got \/ d = pub[p].target \/ (d \in pub[p].left /\ Match(d, e)')
    <3>1. conn[d].alive /\ conn[d].got \subseteq conn'[d].got /\ d \in connections
          /\ conn'[d].subs = conn[d].subs
      BY <2>2, <2>5 DEF Moved
    <3>2. e \in conn[d].got \/ d = pub[p].target \/ (d \in pub[p].left /\ Match(d, e))
      BY <2>1, <2>4, <3>1 DEF OwedInv
    <3> QED BY <3>1, <3>2 DEF Match
  <2> QED BY <2>3, <2>4, <2>5
<1> QED BY <1>2, <1>3, <1>4, <1>5, <1>6

\* What a connection that is still there after a step of a broadcast was before it.
LEMMA StayedFacts ==
  ASSUME NEW c \in connections', Stayed(c), connections' \subseteq connections
  PROVE  /\ c \in connections /\ conn'[c].at = conn[c].at /\ conn'[c].alive = conn[c].alive
         /\ conn'[c].subs = conn[c].subs /\ conn[c].got \subseteq conn'[c].got
         /\ \A s, e : Served(c, s, e) => Served(c, s, e)'
BY DEF Stayed, Ended, SameBut, Served

LEMMA BroadcastTasks ==
  ASSUME RInv, Inv', NEW p \in Tasks, Broadcast(p)
  PROVE  TasksInv' /\ Early'
<1> USE DEF RInv, Inv, Typed, TypeOK
<1>1. /\ \A q \in Tasks \ {p} : pub'[q] = pub[q]
      /\ connections' \subseteq connections
      /\ \A c \in Sockets : Stayed(c)
      /\ \/ Starts(p) \/ Stores(p) \/ Fails(p)
         \/ /\ pub[p].at \in {"stored", "send"} /\ stored' = stored
            /\ Stops(p) \/ Advances(p)
  BY BroadcastMoves
<1>2. stored \subseteq stored'
  BY <1>1 DEF Starts, Stores, Fails
<1>3. Early'
  BY <1>1 DEF Early, Stayed, Ended, SameBut, Out
<1>q. Quiet.at = "idle" /\ Quiet.event = None /\ Quiet.left = {} /\ Quiet.target = None
  BY DEF Quiet
<1> DEFINE Ok(q) ==
      /\ pub'[q].at = "idle" => pub'[q].event = None
      /\ pub'[q].at \in {"idle", "store"} => pub'[q].left = {} /\ pub'[q].target = None
      /\ pub'[q].at \in {"store", "stored"} => pub'[q].whole
      /\ pub'[q].at \in {"stored", "send"} => pub'[q].event \in stored' \cup Ephemeral
      /\ pub'[q].at = "send" => pub'[q].left \subseteq pub'[q].members
      /\ pub'[q].at = "send" /\ pub'[q].whole => pub'[q].owed \subseteq pub'[q].members
<1>4. \A q \in Tasks \ {p} : Ok(q)
  BY <1>1, <1>2 DEF TasksInv
<1>5. Ok(p)
  <2>1. CASE pub'[p] = Quiet
    BY <1>q, <2>1
  <2>2. CASE Starts(p)
    BY <2>2 DEF Starts
  <2>3. CASE Stores(p)
    BY <2>3 DEF Stores
  <2>4. CASE pub[p].at \in {"stored", "send"} /\ stored' = stored /\ Stops(p)
    BY <2>1, <2>4 DEF Stops, TasksInv
  <2>5. CASE pub[p].at \in {"stored", "send"} /\ stored' = stored /\ Advances(p)
    BY <2>1, <2>5 DEF Advances, TasksInv
  <2> QED BY <1>1, <2>1, <2>2, <2>3, <2>4, <2>5 DEF Fails
<1>6. TasksInv'
  BY <1>4, <1>5 DEF TasksInv
<1> QED BY <1>3, <1>6

LEMMA BroadcastGap ==
  ASSUME RInv, Inv', NEW p \in Tasks, Broadcast(p)
  PROVE  NoGap' /\ Covered'
<1> USE DEF RInv, Inv, Typed, TypeOK
<1>e. PICK e : e = pub[p].event
  OBVIOUS
<1>1. /\ \A q \in Tasks \ {p} : pub'[q] = pub[q]
      /\ connections' \subseteq connections
      /\ \A c \in Sockets : Stayed(c)
      /\ \/ Starts(p) \/ Stores(p) \/ Fails(p)
         \/ /\ pub[p].at \in {"stored", "send"} /\ stored' = stored
            /\ Stops(p) \/ Advances(p)
  BY BroadcastMoves
<1>2. ASSUME NEW c \in connections'
      PROVE  /\ c \in connections /\ conn'[c].at = conn[c].at /\ conn'[c].alive = conn[c].alive
             /\ conn'[c].subs = conn[c].subs /\ conn[c].got \subseteq conn'[c].got
             /\ \A s, f : Served(c, s, f) => Served(c, s, f)'
  BY <1>1, StayedFacts
\* An event that was served, or was ahead of another task, is still.
<1>3. ASSUME NEW c \in connections', NEW s \in Subs, NEW f,
             \/ Served(c, s, f)
             \/ \E q \in Tasks \ {p} : pub[q].event = f /\ (pub[q].at = "stored" \/ Ahead(q, c))
      PROVE  \/ Served(c, s, f)'
             \/ \E q \in Tasks : pub'[q].event = f /\ (pub'[q].at = "stored" \/ Ahead(q, c)')
  BY <1>1, <1>2, <1>3 DEF Ahead
\* While p advances it serves, or is still to serve, whoever matches.
<1>4. ASSUME pub[p].at \in {"stored", "send"}, stored' = stored, Advances(p),
             NEW c \in connections', NEW s \in Subs, e \in stored,
             e \in conn'[c].subs[s].match, conn'[c].alive
      PROVE  Served(c, s, e)' \/ (pub'[p].at = "send" /\ Ahead(p, c)')
  <2>1. /\ c \in connections /\ conn[c].alive /\ e \in conn[c].subs[s].match /\ Match(c, e)
    BY <1>2, <1>4, <1>e DEF Match
  <2>2. CASE pub[p].at = "stored"
    BY <1>4, <1>e, <2>1, <2>2 DEF Advances, Visits, Ahead
  <2>3. CASE pub[p].at = "send"
    <3>1. Served(c, s, e) \/ c = pub[p].target \/ c \in pub[p].left
      BY <1>4, <1>e, <2>1, <2>3 DEF Covered, Whole, Ahead, Advances
    <3>2. CASE c = pub[p].target
      BY <1>4, <1>e, <2>1, <2>3, <3>2 DEF Advances, Visits, Served
    <3>3. CASE c \in pub[p].left
      BY <1>4, <1>e, <2>1, <2>3, <3>3 DEF Advances, Visits, Ahead
    <3> QED BY <1>2, <3>1, <3>2, <3>3
  <2> QED BY <1>4, <2>2, <2>3
<1>5. NoGap'
  <2> SUFFICES ASSUME NEW c \in connections', NEW s \in Subs,
                      NEW f \in stored' \cap conn'[c].subs[s].match, conn'[c].alive, f \notin lost'
               PROVE  \/ Served(c, s, f)'
                      \/ \E q \in Tasks : pub'[q].event = f
                                          /\ (pub'[q].at = "stored" \/ Ahead(q, c)')
    BY DEF NoGap, Served, Ahead
  <2>1. c \in connections /\ conn[c].alive /\ f \in conn[c].subs[s].match /\ c \in Sockets
    BY <1>2
  <2>2. ASSUME f \in stored, f \notin lost
        PROVE  \/ Served(c, s, f)
               \/ \E q \in Tasks : pub[q].event = f /\ (pub[q].at = "stored" \/ Ahead(q, c))
    BY <2>1, <2>2 DEF NoGap, Served, Ahead
  <2>3. ASSUME f \in stored, f \notin lost, pub[p].event # f \/ pub[p].at \in {"idle", "store"}
        PROVE  \/ Served(c, s, f)
               \/ \E q \in Tasks \ {p} :
                    pub[q].event = f /\ (pub[q].at = "stored" \/ Ahead(q, c))
    <3>1. pub[p].at \in {"idle", "store"} => ~Ahead(p, c)
      BY <2>1, NoneAssumption DEF TasksInv, Ahead
    <3> QED BY <2>2, <2>3, <3>1
  <2>4. CASE Starts(p) \/ Fails(p)
    BY <1>3, <2>3, <2>4 DEF Starts, Fails
  <2>5. CASE Stores(p)
    <3>1. CASE f \in stored
      BY <1>3, <2>3, <2>5, <3>1 DEF Stores
    <3>2. CASE f \notin stored
      BY <2>5, <3>2 DEF Stores
    <3> QED BY <3>1, <3>2
  <2>6. CASE stored' = stored /\ Stops(p)
    BY <1>3, <2>3, <2>6 DEF Stops
  <2>7. CASE pub[p].at \in {"stored", "send"} /\ stored' = stored /\ Advances(p)
    <3>1. CASE f = e
      <4>1. pub'[p].at = "send" => pub'[p].event = e
        BY <1>e, <2>7 DEF Advances, Quiet
      <4>2. Served(c, s, e)' \/ (pub'[p].at = "send" /\ Ahead(p, c)')
        BY <1>4, <2>7, <3>1
      <4> QED BY <3>1, <4>1, <4>2
    <3>2. CASE f # e
      BY <1>e, <1>3, <2>3, <2>7, <3>2 DEF Advances
    <3> QED BY <3>1, <3>2
  <2> QED BY <1>1, <2>4, <2>5, <2>6, <2>7
<1>6. Covered'
  <2> SUFFICES ASSUME NEW q \in Tasks, Whole(q)', NEW c \in connections', NEW s \in Subs,
                      NEW f \in stored', f = pub'[q].event, f \in conn'[c].subs[s].match,
                      conn'[c].alive
               PROVE  Served(c, s, f)' \/ Ahead(q, c)'
    BY DEF Covered
  <2>1. CASE q # p
    <3>1. pub'[q] = pub[q]
      BY <1>1, <2>1
    <3>2. Whole(q) /\ f = pub[q].event
      BY <3>1 DEF Whole
    <3>3. f \in stored
      BY <1>1, <3>2 DEF TasksInv, Whole, Starts, Stores, Fails
    <3>4. Served(c, s, f) \/ Ahead(q, c)
      BY <1>2, <3>2, <3>3 DEF Covered
    <3> QED BY <1>2, <3>1, <3>4 DEF Ahead
  <2>2. CASE q = p
    <3>1. pub'[p].at = "send" /\ pub'[p].whole
      BY <2>2 DEF Whole
    <3>2. pub[p].at \in {"stored", "send"} /\ stored' = stored /\ Advances(p)
      BY <1>1, <3>1 DEF Starts, Stores, Fails, Stops, Quiet
    <3>3. f = e /\ f \in stored
      BY <1>e, <2>2, <3>1, <3>2 DEF Advances, Quiet
    <3> QED BY <1>4, <2>2, <3>2, <3>3
  <2> QED BY <2>1, <2>2
<1> QED BY <1>5, <1>6

LEMMA BroadcastOwed ==
  ASSUME RInv, Inv', NEW p \in Tasks, Broadcast(p)
  PROVE  OwedInv'
<1> USE DEF RInv, Inv, Typed, TypeOK
<1>1. /\ \A q \in Tasks \ {p} : pub'[q] = pub[q]
      /\ connections' \subseteq connections
      /\ \A c \in Sockets : Stayed(c)
      /\ \/ Starts(p) \/ Stores(p) \/ Fails(p)
         \/ /\ pub[p].at \in {"stored", "send"} /\ stored' = stored
            /\ Stops(p) \/ Advances(p)
  BY BroadcastMoves
<1>2. ASSUME NEW c \in connections'
      PROVE  /\ c \in connections /\ conn'[c].alive = conn[c].alive
             /\ conn'[c].subs = conn[c].subs /\ conn[c].got \subseteq conn'[c].got
  BY <1>1, StayedFacts
<1> SUFFICES ASSUME NEW q \in Tasks, Whole(q)', NEW c \in pub'[q].owed, NEW e \in {pub'[q].event}
             PROVE  /\ conn'[c].at # "accept"
                    /\ c \in connections' /\ conn'[c].alive =>
                         \/ e \in conn'[c].got
                         \/ c = pub'[q].target
                         \/ c \in pub'[q].left /\ Match(c, e)'
  BY DEF OwedInv
<1>3. c \in Sockets
  <2>1. pub'[q] \in Broadcasts
    OBVIOUS
  <2> QED BY <2>1 DEF Broadcasts
<1>4. conn[c].at # "accept" => conn'[c].at # "accept"
  BY <1>1, <1>3 DEF Stayed, Ended, SameBut, Out
<1>5. CASE q # p
  <2>1. pub'[q] = pub[q]
    BY <1>1, <1>5
  <2>2. Whole(q) /\ c \in pub[q].owed /\ e = pub[q].event
    BY <2>1 DEF Whole
  <2> QED BY <1>2, <1>4, <2>1, <2>2 DEF OwedInv, Match
<1>6. CASE q = p
  <2>1. pub'[p].at = "send" /\ pub'[p].whole
    BY <1>6 DEF Whole
  <2>2. pub[p].at \in {"stored", "send"} /\ Advances(p)
    BY <1>1, <2>1 DEF Starts, Stores, Fails, Stops, Quiet
  <2>3. e = pub[p].event
    BY <1>6, <2>1, <2>2 DEF Advances, Quiet
  <2>4. CASE pub[p].at = "stored"
    <3>1. c \in connections /\ Match(c, e)
      BY <1>6, <2>1, <2>2, <2>3, <2>4 DEF Advances, Quiet
    <3>2. conn[c].at # "accept"
      BY <1>3, <3>1 DEF HandshakeIsOutside
    <3>3. conn[c].alive => c \in pub'[p].left \cup {pub'[p].target}
      BY <2>2, <2>3, <2>4, <3>1 DEF Advances, Visits
    <3> QED BY <1>2, <1>4, <1>6, <3>1, <3>2, <3>3 DEF Match
  <2>5. CASE pub[p].at = "send"
    <3>1. Whole(p) /\ c \in pub[p].owed
      BY <1>6, <2>1, <2>2, <2>5 DEF Advances, Whole, Quiet
    <3>2. /\ conn[c].at # "accept"
          /\ c \in connections /\ conn[c].alive =>
               e \in conn[c].got \/ c = pub[p].target \/ (c \in pub[p].left /\ Match(c, e))
      BY <2>3, <3>1 DEF OwedInv
    <3>3. ASSUME c \in connections', conn'[c].alive
          PROVE  e \in conn'[c].got \/ c = pub'[p].target \/ (c \in pub'[p].left /\ Match(c, e)')
      <4>1. c \in connections /\ conn[c].alive
        BY <1>2, <3>3
      <4>2. CASE c = pub[p].target
        BY <2>2, <2>3, <2>5, <3>3, <4>1, <4>2 DEF Advances, Visits
      <4>3. CASE c \in pub[p].left /\ Match(c, e)
        <5>1. c \in pub'[p].left \cup {pub'[p].target}
          BY <2>2, <2>3, <4>1, <4>3 DEF Advances, Visits
        <5> QED BY <1>2, <3>3, <4>3, <5>1 DEF Match
      <4> QED BY <1>2, <3>2, <3>3, <4>1, <4>2, <4>3
    <3> QED BY <1>4, <1>6, <3>2, <3>3
  <2> QED BY <2>2, <2>4, <2>5
<1> QED BY <1>5, <1>6

LEMMA InitRInv == Init => RInv
BY InitInv DEF RInv, Init, TasksInv, Early, NoGap, Covered, OwedInv, Whole, Out, Quiet

LEMMA StepRInv ==
  ASSUME RInv, [Next]_vars
  PROVE  RInv'
<1>1. Inv'
  BY StepInv DEF RInv
<1>2. ASSUME NEW c \in Sockets, Handler(c) PROVE RInv'
  BY <1>1, <1>2, HandlerGap
<1>3. ASSUME NEW p \in Tasks, Broadcast(p) PROVE RInv'
  BY <1>1, <1>3, BroadcastTasks, BroadcastGap, BroadcastOwed DEF RInv
<1>4. CASE Crash
  <2>1. /\ connections' = {}
        /\ \A c \in Sockets : conn'[c] = Out
        /\ \A p \in Tasks : pub'[p] = Quiet
    BY <1>4 DEF Crash
  <2>2. (TasksInv /\ Early /\ NoGap /\ Covered /\ OwedInv)'
    BY <2>1 DEF TasksInv, Early, NoGap, Covered, OwedInv, Whole, Out, Quiet
  <2> QED BY <1>1, <2>2 DEF RInv
<1>5. CASE UNCHANGED vars
  BY <1>1, <1>5 DEF vars, RInv, TasksInv, Early, NoGap, Covered, OwedInv, Whole, Served, Ahead,
                    Match
<1> QED BY <1>2, <1>3, <1>4, <1>5 DEF Next

LEMMA AlwaysRInv == Spec => []RInv
BY InitRInv, StepRInv, PTL DEF Spec

-----------------------------------------------------------------------------
(* Theorems about what subscribers are sent *)

\* A live subscriber has been sent every stored event it matches, or is about to be, by the
\* replay of its REQ or by a broadcast; only a broadcast that was cut short leaves a gap
\* (relay.py:78, relay.py:196).
THEOREM GapFree == Spec => []NoGap
<1>1. RInv => NoGap
  BY DEF RInv
<1> QED BY <1>1, AlwaysRInv, PTL

LEMMA WholeStep ==
  ASSUME RInv, [Next]_vars, NEW p \in Tasks, pub[p].at = "send", pub'[p].at = "idle",
         pub[p].event \notin lost', NEW c \in pub[p].owed \cap connections', conn'[c].alive
  PROVE  pub[p].event \in conn'[c].got
<1> USE DEF RInv, Inv, Typed, TypeOK
<1>1. Broadcast(p)
  <2>1. ASSUME NEW d \in Sockets, Handler(d) PROVE FALSE
    BY <2>1, HandlerMoves DEF OnlyReleased
  <2>2. ASSUME NEW q \in Tasks, q # p, Broadcast(q) PROVE FALSE
    BY <2>2, BroadcastMoves
  <2> QED BY <2>1, <2>2 DEF Next, vars, Crash
<1>2. /\ connections' \subseteq connections /\ Stayed(c)
      /\ Stops(p) \/ Advances(p)
  <2>1. c \in Sockets
    <3>1. pub[p] \in Broadcasts
      OBVIOUS
    <3> QED BY <3>1 DEF Broadcasts
  <2> QED BY <1>1, <2>1, BroadcastMoves DEF Starts, Stores, Fails
<1>3. Advances(p) /\ Whole(p)
  BY <1>2 DEF Stops, Advances, Whole
<1>4. /\ c \in connections /\ conn[c].alive /\ conn[c].got \subseteq conn'[c].got
  BY <1>2, StayedFacts
<1>5. \/ pub[p].event \in conn[c].got
      \/ c = pub[p].target
      \/ c \in pub[p].left /\ Match(c, pub[p].event)
  BY <1>3, <1>4 DEF OwedInv
<1>6. CASE c = pub[p].target
  BY <1>3, <1>4, <1>6 DEF Advances, Visits
<1>7. CASE c \in pub[p].left /\ Match(c, pub[p].event)
  BY <1>3, <1>4, <1>7 DEF Advances, Visits
<1> QED BY <1>4, <1>5, <1>6, <1>7

\* A broadcast whose iteration was not disturbed reaches every connection that was subscribed
\* when it began and still is, also with an event that is not stored (relay.py:76).
THEOREM WholeReaches == Spec => WholeReachesAll
<1> DEFINE Reaches ==
      \A p \in Tasks :
        pub[p].at = "send" /\ pub'[p].at = "idle" /\ pub[p].event \notin lost' =>
          \A c \in pub[p].owed \cap connections' :
            conn'[c].alive => pub[p].event \in conn'[c].got
<1>1. RInv /\ [Next]_vars => [Reaches]_vars
  BY WholeStep
<1> QED BY <1>1, AlwaysRInv, PTL DEF Spec, WholeReachesAll

LEMMA CauseStep ==
  ASSUME RInv, [Next]_vars, NEW e \in lost' \ lost
  PROVE  \E p \in Tasks : pub[p].event = e /\ Cause(p)
<1> USE DEF RInv, Inv
<1>1. ASSUME NEW c \in Sockets, Handler(c) PROVE FALSE
  BY <1>1, HandlerMoves
<1>2. ASSUME NEW p \in Tasks, Broadcast(p) PROVE pub[p].event = e /\ Cause(p)
  BY <1>2, BroadcastMoves DEF Starts, Stores, Fails, Stops, Advances
<1> QED BY <1>1, <1>2 DEF Next, vars, Crash

\* A broadcast is cut short by a change of the registry under it, by its publisher's leaving
\* before it, or by an ill-typed filter; never by a connection that cannot be sent to
\* (relay.py:80-87).
THEOREM LossCaused == Spec => LossHasCause
<1> DEFINE Caused ==
      \A e \in lost' \ lost :
        \E p \in Tasks :
          /\ pub[p].event = e
          /\ \/ pub[p].at = "send" /\ (connections # pub[p].members \/ ~pub[p].whole)
             \/ p \in Sockets /\ pub[p].at = "stored" /\ ~conn[p].alive
             \/ \E c \in connections : Raises(c, e)
<1>1. RInv /\ [Next]_vars => [Caused]_vars
  BY CauseStep DEF Cause
<1> QED BY <1>1, AlwaysRInv, PTL DEF Spec, LossHasCause

LEMMA LeakStep ==
  ASSUME RInv, [Next]_vars, NEW c \in connections', conn'[c].at = "out", conn[c].at # "out"
  PROVE  conn[c].at = "greet"
<1> USE DEF RInv, Inv, Typed, TypeOK
<1>1. c \in Sockets
  <2>1. Typed'
    BY StepInv
  <2> QED BY <2>1
<1>2. ASSUME NEW d \in Sockets, Handler(d) PROVE conn[c].at = "greet"
  <2>1. CASE c # d
    BY <1>1, <1>2, <2>1 DEF Handler, Accept, AcceptFails, Register, Greet, GreetFails, Lose,
         Leave, Query, QueryRaises, Eose, Replay, Close, Req
  <2>2. CASE c = d /\ (Leave(d) \/ QueryRaises(d))
    BY <2>2 DEF Leave, QueryRaises
  <2>3. CASE c = d /\ (AcceptFails(d) \/ GreetFails(d))
    BY <2>3 DEF AcceptFails, GreetFails, HandshakeIsOutside
  <2>4. CASE c = d /\ Handler(d) /\ ~(Leave(d) \/ QueryRaises(d) \/ AcceptFails(d) \/ GreetFails(d))
    <3>1. conn[c] \in Connections
      BY <1>1
    <3>2. conn'[c].at # "out"
      <4>1. CASE Accept(d)
        BY <1>1, <2>4, <4>1 DEF Accept, Out
      <4>2. CASE Register(d) \/ Greet(d)
        BY <1>1, <2>4, <3>1, <4>2 DEF Register, Greet, Connections
      <4>3. CASE Lose(d)
        BY <1>1, <2>4, <3>1, <4>3 DEF Lose, Connections
      <4>4. CASE Query(d)
        BY <1>1, <2>4, <3>1, <4>4 DEF Query, Connections
      <4>5. CASE Eose(d)
        BY <1>1, <2>4, <3>1, <4>5 DEF Eose, Connections
      <4>6. ASSUME NEW e \in Events, Replay(d, e) PROVE conn'[c].at # "out"
        BY <1>1, <2>4, <3>1, <4>6 DEF Replay, Connections
      <4>7. ASSUME NEW s \in Subs, Close(d, s) PROVE conn'[c].at # "out"
        BY <1>1, <2>4, <3>1, <4>7 DEF Close, Listening, Connections
      <4>8. ASSUME NEW s \in Subs, NEW f \in Filters, Req(d, s, f) PROVE conn'[c].at # "out"
        BY <1>1, <2>4, <3>1, <4>8 DEF Req, Listening, Connections
      <4> QED BY <2>4, <4>1, <4>2, <4>3, <4>4, <4>5, <4>6, <4>7, <4>8 DEF Handler
    <3> QED BY <3>2
  <2> QED BY <1>2, <2>1, <2>2, <2>3, <2>4
<1>3. ASSUME NEW p \in Tasks, Broadcast(p) PROVE conn[c].at = "greet"
  BY <1>1, <1>3, BroadcastMoves DEF Stayed, Ended, SameBut
<1> QED BY <1>2, <1>3 DEF Next, vars, Crash

\* However the handler of a connection ends, it leaves the registry, but for one whose AUTH
\* challenge cannot be sent (main.py:754).
THEOREM GreetingsLeak == Spec => OnlyGreetingsLeak
<1> DEFINE Leaks ==
      \A c \in connections' : conn'[c].at = "out" /\ conn[c].at # "out" => conn[c].at = "greet"
<1>1. RInv /\ [Next]_vars => [Leaks]_vars
  BY LeakStep
<1> QED BY <1>1, AlwaysRInv, PTL DEF Spec, OnlyGreetingsLeak

=============================================================================
