-------------------------- MODULE RelayConnections --------------------------
(***************************************************************************)
(* The WebSocket relay: the registry of connections, their subscriptions,  *)
(* the replay of stored events after a REQ, and broadcast_event, which     *)
(* iterates over the registry and awaits a send for every match while      *)
(* other tasks change the registry and the subscriptions.                  *)
(*                                                                         *)
(* A socket is one WebSocket connection at a time and the task of its      *)
(* handler; a route is an HTTP request that stores and broadcasts.  A step *)
(* runs from one await to the next.                                        *)
(*                                                                         *)
(* A filter may be ill-typed: _matches_filter raises at some events.  Apart *)
(* from that filters match in SQL what they match in memory.               *)
(***************************************************************************)
EXTENDS Naturals, FiniteSets

CONSTANTS
  Sockets,        \* WebSocket connections
  Routes,         \* HTTP routes that broadcast
  Events,         \* ids of events
  Ephemeral,      \* events that are broadcast and never stored (NIP-47 requests and responses)
  Subs,           \* subscription ids
  Filters,        \* the filters of a REQ: the events they match and those they raise at
  MaxConnections, \* MAX_CONNECTIONS
  MaxSubs,        \* MAX_SUBSCRIPTIONS_PER_CONN
  MaxPublishing,  \* bound: tasks that publish at a time
  None            \* no event, subscription or connection

Tasks == Sockets \cup Routes

ASSUME TasksAssumption == Sockets \cap Routes = {} /\ IsFiniteSet(Sockets)
ASSUME EphemeralAssumption == Ephemeral \subseteq Events
ASSUME FiltersAssumption ==
  \A f \in Filters :
    /\ f \in [match : SUBSET Events, raises : SUBSET Events]
    /\ f.match # {} \/ f.raises # {}
ASSUME LimitsAssumption == MaxConnections \in Nat /\ MaxSubs \in Nat /\ MaxPublishing \in Nat
ASSUME NoneAssumption == None \notin Events \cup Subs \cup Sockets

VARIABLES
  stored,      \* nostr_events, committed
  connections, \* the registry
  conn,        \* the handler of each connection
  pub,         \* what each task is publishing
  lost         \* history: events whose last broadcast was cut short or disturbed

vars == <<stored, connections, conn, pub, lost>>

-----------------------------------------------------------------------------
(* Data *)

\* got is history: what a client that is still there has been sent.
\* raced is history: another handshake was under way when the limit was checked.
Connections ==
  [at : {"out", "accept", "greet", "open", "query", "replay"}, alive : BOOLEAN,
   subs : [Subs -> [match : SUBSET Events, raises : SUBSET Events]],
   sub : Subs \cup {None}, queue : SUBSET Events, got : SUBSET Events, raced : BOOLEAN]
NoFilter == [match |-> {}, raises |-> {}]
Out ==
  [at |-> "out", alive |-> FALSE, subs |-> [s \in Subs |-> NoFilter], sub |-> None,
   queue |-> {}, got |-> {}, raced |-> FALSE]

\* members: the registry when the iteration last looked; left: those not visited yet;
\* owed: subscribed since the broadcast began; whole: the iteration was undisturbed.
Broadcasts ==
  [at : {"idle", "store", "stored", "send"}, event : Events \cup {None},
   members : SUBSET Sockets, left : SUBSET Sockets, target : Sockets \cup {None},
   dead : SUBSET Sockets, owed : SUBSET Sockets, whole : BOOLEAN]
Quiet ==
  [at |-> "idle", event |-> None, members |-> {}, left |-> {}, target |-> None,
   dead |-> {}, owed |-> {}, whole |-> TRUE]

TypeOK ==
  /\ stored \subseteq Events
  /\ connections \subseteq Sockets
  /\ conn \in [Sockets -> Connections]
  /\ pub \in [Tasks -> Broadcasts]
  /\ lost \subseteq Events

Init ==
  /\ stored = {}
  /\ connections = {}
  /\ conn = [c \in Sockets |-> Out]
  /\ pub = [p \in Tasks |-> Quiet]
  /\ lost = {}

\* Mutant of Match: a subscription counts only once its stored events are sent.
MatchAfterReplay(c, e) ==
  conn[c].at \notin {"query", "replay"} /\ \E s \in Subs : e \in conn[c].subs[s].match

\* One match per connection is enough.
Match(c, e) == \E s \in Subs : e \in conn[c].subs[s].match

\* A filter that raises may come before the one that matches.
Raises(c, e) == \E s \in Subs : e \in conn[c].subs[s].raises

Skipped(c, e) == ~Match(c, e) /\ ~Raises(c, e)

\* The handler waits for a message.
Listening(c) == conn[c].at = "open" /\ pub[c].at = "idle"

\* No broadcast holds the connection that used this socket before.
Free(c) ==
  /\ conn[c].at = "out" /\ c \notin connections
  /\ \A p \in Tasks : c \notin pub[p].members \cup pub[p].dead \cup {pub[p].target}

\* c is no longer owed what is being broadcast.
Released(c) == [p \in Tasks |-> [pub[p] EXCEPT !.owed = @ \ {c}]]

-----------------------------------------------------------------------------
(* Connections *)

Shaking == {c \in Sockets : conn[c].at = "accept"}

\* Mutant of Accept: one connection too many.
AcceptOneMore(c) ==
  /\ Free(c)
  /\ Cardinality(connections) <= MaxConnections
  /\ conn' = [conn EXCEPT ![c] = [Out EXCEPT !.at = "accept", !.alive = TRUE,
                                             !.raced = Shaking # {}]]
  /\ UNCHANGED <<stored, connections, pub, lost>>

\* The limit is checked, then the handshake is awaited.
Accept(c) ==
  /\ Free(c)
  /\ Cardinality(connections) < MaxConnections
  /\ conn' = [conn EXCEPT ![c] = [Out EXCEPT !.at = "accept", !.alive = TRUE,
                                             !.raced = Shaking # {}]]
  /\ UNCHANGED <<stored, connections, pub, lost>>

AcceptFails(c) ==
  /\ conn[c].at = "accept" /\ ~conn[c].alive
  /\ conn' = [conn EXCEPT ![c] = Out]
  /\ UNCHANGED <<stored, connections, pub, lost>>

Register(c) ==
  /\ conn[c].at = "accept" /\ conn[c].alive
  /\ connections' = connections \cup {c}
  /\ conn' = [conn EXCEPT ![c].at = "greet"]
  /\ UNCHANGED <<stored, pub, lost>>

\* The AUTH challenge is sent.
Greet(c) ==
  /\ conn[c].at = "greet" /\ conn[c].alive
  /\ conn' = [conn EXCEPT ![c].at = "open"]
  /\ UNCHANGED <<stored, connections, pub, lost>>

\* It cannot be sent: the exception is raised before the try block.
GreetFails(c) ==
  /\ conn[c].at = "greet" /\ ~conn[c].alive
  /\ conn' = [conn EXCEPT ![c] = [Out EXCEPT !.raced = conn[c].raced]]
  /\ UNCHANGED <<stored, connections, pub, lost>>

\* The client leaves, or is closed for exceeding the message rate.
Lose(c) ==
  /\ conn[c].at # "out" /\ conn[c].alive
  /\ conn' = [conn EXCEPT ![c].alive = FALSE, ![c].got = {}]
  /\ UNCHANGED <<stored, connections, pub, lost>>

\* Mutant of Leave: the connection is not discarded.
LeaveRegistered(c) ==
  /\ \/ Listening(c) \/ conn[c].at = "replay"
  /\ ~conn[c].alive
  /\ conn' = [conn EXCEPT ![c] = Out]
  /\ UNCHANGED <<stored, connections, pub, lost>>

\* receive_text, or the send of an event or EOSE, raises.
Leave(c) ==
  /\ \/ Listening(c) \/ conn[c].at = "replay"
  /\ ~conn[c].alive
  /\ conn' = [conn EXCEPT ![c] = Out]
  /\ connections' = connections \ {c}
  /\ UNCHANGED <<stored, pub, lost>>

-----------------------------------------------------------------------------
(* REQ and CLOSE *)

Used(c) == {s \in Subs : conn[c].subs[s] # NoFilter}

\* The subscription is registered before the stored events are queried.
Req(c, s, f) ==
  /\ Listening(c)
  /\ s \in Used(c) \/ Cardinality(Used(c)) < MaxSubs
  /\ conn' = [conn EXCEPT ![c] = [@ EXCEPT !.at = "query", !.sub = s, !.subs[s] = f]]
  /\ pub' = Released(c)
  /\ UNCHANGED <<stored, connections, lost>>

Query(c) ==
  /\ conn[c].at = "query"
  /\ conn' = [conn EXCEPT ![c].at = "replay",
                          ![c].queue = stored \cap conn[c].subs[conn[c].sub].match]
  /\ UNCHANGED <<stored, connections, pub, lost>>

\* The filter raises at a stored event, and the handler ends.  SQL compares values of any type:
\* an ill-typed bound may as well keep every event from being looked at.
QueryRaises(c) ==
  /\ conn[c].at = "query"
  /\ stored \cap conn[c].subs[conn[c].sub].raises # {}
  /\ conn' = [conn EXCEPT ![c] = Out]
  /\ connections' = connections \ {c}
  /\ UNCHANGED <<stored, pub, lost>>

Replay(c, e) ==
  /\ conn[c].at = "replay" /\ conn[c].alive /\ e \in conn[c].queue
  /\ conn' = [conn EXCEPT ![c].queue = @ \ {e}, ![c].got = @ \cup {e}]
  /\ UNCHANGED <<stored, connections, pub, lost>>

Eose(c) ==
  /\ conn[c].at = "replay" /\ conn[c].alive /\ conn[c].queue = {}
  /\ conn' = [conn EXCEPT ![c] = [@ EXCEPT !.at = "open", !.sub = None]]
  /\ UNCHANGED <<stored, connections, pub, lost>>

Close(c, s) ==
  /\ Listening(c) /\ s \in Used(c)
  /\ conn' = [conn EXCEPT ![c].subs[s] = NoFilter]
  /\ pub' = Released(c)
  /\ UNCHANGED <<stored, connections, lost>>

-----------------------------------------------------------------------------
(* Publishing *)

\* An HTTP route, of an event it stores, or a connection with an EVENT that needs no payment.
Publish(p, e) ==
  /\ pub[p].at = "idle"
  /\ IF p \in Sockets THEN Listening(p) ELSE e \notin Ephemeral
  /\ Cardinality({q \in Tasks : pub[q].at # "idle"}) < MaxPublishing
  /\ pub' = [pub EXCEPT ![p] = [Quiet EXCEPT !.at = "store", !.event = e]]
  /\ UNCHANGED <<stored, connections, conn, lost>>

\* store_event commits, or knows the event, or is not called for an ephemeral one.
Store(p) ==
  /\ pub[p].at = "store"
  /\ stored' = stored \cup ({pub[p].event} \ Ephemeral)
  /\ pub' = [pub EXCEPT ![p].at = "stored"]
  /\ UNCHANGED <<connections, conn, lost>>

\* An exception ends the task of p: a route answers 500, a handler closes its connection.
\* told is what the connections were sent meanwhile.
Raise(p, told) ==
  /\ pub' = [pub EXCEPT ![p] = Quiet]
  /\ conn' = IF p \in Sockets THEN [told EXCEPT ![p] = Out] ELSE told
  /\ connections' = connections \ {p}

StoreFails(p) ==
  /\ pub[p].at = "store" /\ pub[p].event \notin Ephemeral
  /\ Raise(p, conn)
  /\ UNCHANGED <<stored, lost>>

\* The OK to the publisher cannot be sent: there is no broadcast.
OkFails(p) ==
  /\ p \in Sockets /\ pub[p].at = "stored" /\ ~conn[p].alive
  /\ Raise(p, conn)
  /\ lost' = lost \cup {pub[p].event}
  /\ UNCHANGED stored

\* The iteration goes on to the next connection that matches, past others that do not.
NextMatch(p, b) ==
  \E c \in b.left, passed \in SUBSET b.left :
    /\ Match(c, b.event) /\ \A d \in passed : Skipped(d, b.event)
    /\ pub' = [pub EXCEPT ![p] = [b EXCEPT !.at = "send", !.target = c,
                                           !.left = @ \ (passed \cup {c})]]
    /\ lost' = IF b.whole THEN lost ELSE lost \cup {b.event}
    /\ UNCHANGED connections

\* Or it is over, and the connections that could not be sent to are removed.
LastMatch(p, b) ==
  /\ \A c \in b.left : Skipped(c, b.event)
  /\ pub' = [pub EXCEPT ![p] = Quiet]
  /\ lost' = IF b.whole THEN lost \ {b.event} ELSE lost \cup {b.event}
  /\ connections' = connections \ b.dead

\* Or a filter raises, outside the try: the broadcast is over, whoever is left.
FilterRaises(p, b, told) ==
  /\ \E c \in b.left : Raises(c, b.event)
  /\ Raise(p, told)
  /\ lost' = lost \cup {b.event}

Begin(p) ==
  LET b == [pub[p] EXCEPT !.members = connections, !.left = connections,
                          !.owed = {c \in connections : Match(c, pub[p].event)}]
  IN /\ pub[p].at = "stored"
     /\ p \in Sockets => conn[p].alive
     /\ \/ (NextMatch(p, b) \/ LastMatch(p, b)) /\ UNCHANGED conn
        \/ FilterRaises(p, b, conn)
     /\ UNCHANGED stored

\* Mutant of Unreached: a connection is given up after any send.
Visited(b) == b.dead \cup {b.target}

\* The connections that could not be sent to.
Unreached(b) == IF conn[b.target].alive THEN b.dead ELSE b.dead \cup {b.target}

\* What the connections have been sent after the send to the target.
Told(b) == IF conn[b.target].alive THEN [conn EXCEPT ![b.target].got = @ \cup {b.event}] ELSE conn

\* Mutant of Sent: a send that fails is not caught.
SentOrRaised(p) ==
  LET b == pub[p] IN
    /\ b.at = "send" /\ connections = b.members
    /\ IF conn[b.target].alive
       THEN (NextMatch(p, b) \/ LastMatch(p, b)) /\ conn' = Told(b)
       ELSE Raise(p, conn) /\ lost' = lost \cup {b.event}
    /\ UNCHANGED stored

\* Mutant of Sent: a send that fails ends the broadcast, as if all had been reached.
SentOrStopped(p) ==
  LET b == pub[p] IN
    /\ b.at = "send" /\ connections = b.members
    /\ IF conn[b.target].alive
       THEN NextMatch(p, b) \/ LastMatch(p, b)
       ELSE LastMatch(p, [b EXCEPT !.left = {}, !.dead = Unreached(b)])
    /\ conn' = Told(b)
    /\ UNCHANGED stored

\* The send to the target returns or raises, and the registry is as it was.
Sent(p) ==
  LET b == [pub[p] EXCEPT !.dead = Unreached(pub[p])] IN
    /\ pub[p].at = "send" /\ connections = b.members
    /\ \/ (NextMatch(p, b) \/ LastMatch(p, b)) /\ conn' = Told(pub[p])
       \/ FilterRaises(p, b, Told(pub[p]))
    /\ UNCHANGED stored

\* "Set changed size during iteration": the broadcast is over, whoever is left.
SizeChanged(p) ==
  /\ pub[p].at = "send" /\ Cardinality(connections) # Cardinality(pub[p].members)
  /\ Raise(p, Told(pub[p]))
  /\ lost' = lost \cup {pub[p].event}
  /\ UNCHANGED stored

\* As many joined as left: the iteration goes on in a table that may have been rebuilt.
Shuffled(p) ==
  LET b == [pub[p] EXCEPT !.dead = Unreached(pub[p]), !.members = connections, !.whole = FALSE]
  IN /\ pub[p].at = "send"
     /\ connections # pub[p].members
     /\ Cardinality(connections) = Cardinality(pub[p].members)
     /\ \E left \in SUBSET connections :
          LET n == [b EXCEPT !.left = left]
          IN \/ (NextMatch(p, n) \/ LastMatch(p, n)) /\ conn' = Told(pub[p])
             \/ FilterRaises(p, n, Told(pub[p]))
     /\ UNCHANGED stored

\* The process dies.
Crash ==
  /\ \E c \in Sockets : c \in connections \/ conn[c] # Out
  /\ connections' = {}
  /\ conn' = [c \in Sockets |-> Out]
  /\ pub' = [p \in Tasks |-> Quiet]
  /\ UNCHANGED <<stored, lost>>

-----------------------------------------------------------------------------

Handler(c) ==
  \/ Accept(c) \/ AcceptFails(c) \/ Register(c) \/ Greet(c) \/ GreetFails(c)
  \/ Lose(c) \/ Leave(c) \/ Query(c) \/ QueryRaises(c) \/ Eose(c)
  \/ \E e \in Events : Replay(c, e)
  \/ \E s \in Subs : Close(c, s) \/ \E f \in Filters : Req(c, s, f)

Broadcast(p) ==
  \/ Store(p) \/ StoreFails(p) \/ OkFails(p) \/ Begin(p)
  \/ Sent(p) \/ SizeChanged(p) \/ Shuffled(p)
  \/ \E e \in Events : Publish(p, e)

Next ==
  \/ \E c \in Sockets : Handler(c)
  \/ \E p \in Tasks : Broadcast(p)
  \/ Crash

Spec == Init /\ [][Next]_vars

-----------------------------------------------------------------------------
(* Properties *)

\* A live connection has been sent every stored event one of its subscriptions matches, or is
\* about to be: by the replay of its REQ or by a broadcast that has not come to it.  Only a
\* broadcast that was cut short leaves a gap, until the event is broadcast again.
NoGap ==
  \A c \in connections, s \in Subs :
    \A e \in stored \cap conn[c].subs[s].match :
      conn[c].alive /\ e \notin lost =>
        \/ e \in conn[c].got
        \/ conn[c].sub = s /\ (conn[c].at = "query" \/ e \in conn[c].queue)
        \/ \E p \in Tasks :
             /\ pub[p].event = e
             /\ pub[p].at = "stored" \/ c \in pub[p].left \cup {pub[p].target}

\* An undisturbed broadcast, of an ephemeral event too, reaches every connection that was
\* subscribed when it began and still is.
WholeReachesAll ==
  [][\A p \in Tasks :
       pub[p].at = "send" /\ pub'[p].at = "idle" /\ pub[p].event \notin lost' =>
         \A c \in pub[p].owed \cap connections' :
           conn'[c].alive => pub[p].event \in conn'[c].got]_vars

\* Nobody removes the connection of a client that is there: neither the handlers of others nor
\* a broadcast.
LiveStayRegistered ==
  \A c \in Sockets : conn[c].at \notin {"out", "accept"} /\ conn[c].alive => c \in connections

\* A broadcast that is not completed has a cause: the registry changed under it, the publisher
\* left before it, or some subscription has an ill-typed filter.  A connection that cannot be
\* sent to is not one.
LossHasCause ==
  [][\A e \in lost' \ lost :
       \E p \in Tasks :
         /\ pub[p].event = e
         /\ \/ pub[p].at = "send" /\ (connections # pub[p].members \/ ~pub[p].whole)
            \/ p \in Sockets /\ pub[p].at = "stored" /\ ~conn[p].alive
            \/ \E c \in connections : Raises(c, e)]_vars

\* Connections beyond the limit are those whose handshake overlapped with another's: the rest
\* never exceed it.
LimitUnlessRaced ==
  Cardinality({c \in connections \cup Shaking : ~conn[c].raced}) <= MaxConnections

\* However a handler ends, its connection leaves the registry, unless it ends at the greeting.
OnlyGreetingsLeak ==
  [][\A c \in connections' : conn'[c].at = "out" /\ conn[c].at # "out" => conn[c].at = "greet"]_vars

=============================================================================
