------------------------------- MODULE Threads ------------------------------
(***************************************************************************)
(* Threads, composed with the notes of OriginColumn: GET                   *)
(* /events/<id>/replies asks every external relay for replies unless it    *)
(* did so a short while ago, stores what it got as external notes, and     *)
(* then reads a page and a count of what is stored; POST                   *)
(* /events/reply-counts counts for a batch of notes at once.               *)
(***************************************************************************)
EXTENDS OriginColumn, FiniteSetsExt, SequencesExt

CONSTANTS
  ParentsOf,  \* the notes that a note's e-tags name
  At,         \* created_at of a note
  Relays,     \* EXTERNAL_RELAYS
  Requests,
  NoRequest,
  PageLimit,  \* the limit of the request's page
  FetchLimit, \* the limit of what a relay is asked for
  Expanded,   \* bound: the notes whose threads are expanded
  HydrateTTL  \* REPLIES_HYDRATE_TTL, in ticks

ASSUME NotesAssumption == IsFiniteSet(Notes)
ASSUME ParentsAssumption == ParentsOf \in [Notes -> SUBSET Notes] /\ Expanded \subseteq Notes
ASSUME LimitsAssumption == {PageLimit, FetchLimit, HydrateTTL} \subseteq Nat \ {0}

\* Bound: no two notes of the same second, whose order would be the database's.
ASSUME AtAssumption == At \in [Notes -> Nat] /\ \A a, b \in Notes : At[a] = At[b] => a = b

VARIABLES
  held,  \* the notes that each relay has
  fresh, \* _replies_hydrate_at: ticks until a thread is asked for again
  req    \* requests for a thread

threadVars == <<held, fresh, req>>
feedVars == <<dbVars, threadVars>>

Threads == UNION {ParentsOf[n] : n \in Notes}

\* due is a history: the replies that the page has to show.
Expansions ==
  [at : {"ask", "store", "list", "count"}, parent : Expanded, waiting : SUBSET Relays,
   got : SUBSET Notes, due : SUBSET Notes, page : SUBSET Notes]

ASSUME NoRequestAssumption == NoRequest \notin Expansions

FeedTypeOK ==
  /\ DbTypeOK
  /\ held \in [Relays -> SUBSET Notes]
  /\ fresh \in [Expanded -> 0..HydrateTTL]
  /\ req \in [Requests -> Expansions \cup {NoRequest}]

FeedInit ==
  /\ DbInit
  /\ held = [r \in Relays |-> {}]
  /\ fresh = [p \in Expanded |-> 0]
  /\ req = [q \in Requests |-> NoRequest]

-----------------------------------------------------------------------------
(* Queries *)

\* ORDER BY created_at DESC LIMIT limit.
Newest(limit, notes) == {a \in notes : Cardinality({b \in notes : At[b] > At[a]}) < limit}

\* Replies by their e-tags, whatever their origin: a thread skips FEED-1.
Replies(p) == {n \in Stored : p \in ParentsOf[n]}

\* Mutant of Page: the replies that the feed hides are left out.
PageOfFeed(p) == Newest(PageLimit, Replies(p) \cap Feed)

Page(p) == Newest(PageLimit, Replies(p))

Total(p) == Cardinality(Replies(p))

\* CASE: the first note of the batch that a row replies to.
FirstParent(batch, n) == batch[SelectInSeq(batch, LAMBDA p : p \in ParentsOf[n])]

\* Mutant of Counted: only what the feed shows is counted.
CountedOfFeed(batch) == Feed \cap UNION {Replies(p) : p \in ToSet(batch)}

Counted(batch) == UNION {Replies(p) : p \in ToSet(batch)}

ReplyCounts(batch) ==
  [p \in ToSet(batch) |-> Cardinality({n \in Counted(batch) : FirstParent(batch, n) = p})]

-----------------------------------------------------------------------------
(* A request for a thread *)

Doing(q, step) == req[q] # NoRequest /\ req[q].at = step

\* Mutant of Expand: a request that asks nobody renews the thread's entry.
ExpandRenewing(q, p, refresh) ==
  /\ boot = "up" /\ req[q] = NoRequest /\ rows[p] # NoRow
  /\ req' = [req EXCEPT ![q] =
       [at |-> IF fresh[p] = 0 \/ refresh THEN "ask" ELSE "list", parent |-> p,
        waiting |-> Relays, got |-> {}, due |-> Replies(p), page |-> {}]]
  /\ fresh' = IF fresh[p] = 0 THEN fresh ELSE [fresh EXCEPT ![p] = HydrateTTL]
  /\ UNCHANGED <<dbVars, held>>

Expand(q, p, refresh) ==
  /\ boot = "up" /\ req[q] = NoRequest /\ rows[p] # NoRow
  /\ req' = [req EXCEPT ![q] =
       [at |-> IF fresh[p] = 0 \/ refresh THEN "ask" ELSE "list", parent |-> p,
        waiting |-> Relays, got |-> {}, due |-> Replies(p), page |-> {}]]
  /\ UNCHANGED <<dbVars, held, fresh>>

Answer(q, r) ==
  /\ Doing(q, "ask") /\ r \in req[q].waiting
  /\ req' = [req EXCEPT
       ![q].waiting = @ \ {r},
       ![q].got = @ \cup Newest(FetchLimit, {n \in held[r] : req[q].parent \in ParentsOf[n]})]
  /\ UNCHANGED <<dbVars, held, fresh>>

\* All answered or failed, or the time is up.
Merge(q) ==
  /\ Doing(q, "ask")
  /\ req' = [req EXCEPT ![q].at = "store", ![q].waiting = {}]
  /\ UNCHANGED <<dbVars, held, fresh>>

\* One commit for each; a reply that is stored is passed over.
StoreReply(q, n) ==
  /\ Doing(q, "store") /\ n \in req[q].got
  /\ Ingest(n)
  /\ UNCHANGED threadVars

\* Every reply is stored.  The entry is set, even if no relay answered.
Hydrated(q) ==
  /\ Doing(q, "store") /\ req[q].got \subseteq Stored
  /\ fresh' = [fresh EXCEPT ![req[q].parent] = HydrateTTL]
  /\ req' = [req EXCEPT ![q].at = "list", ![q].got = {}, ![q].due = @ \cup req[q].got]
  /\ UNCHANGED <<dbVars, held>>

\* The lock's timeout: get_replies goes on with what is stored.
HydrateFails(q) ==
  /\ Doing(q, "store") /\ ~(req[q].got \subseteq Stored)
  /\ req' = [req EXCEPT ![q].at = "list", ![q].got = {}]
  /\ UNCHANGED <<dbVars, held, fresh>>

List(q) ==
  /\ Doing(q, "list")
  /\ req' = [req EXCEPT ![q].at = "count", ![q].page = Page(req[q].parent)]
  /\ UNCHANGED <<dbVars, held, fresh>>

\* The total is a query of its own.
Count(q) ==
  /\ Doing(q, "count")
  /\ req' = [req EXCEPT ![q] = NoRequest]
  /\ UNCHANGED <<dbVars, held, fresh>>

-----------------------------------------------------------------------------

Elapse ==
  /\ boot = "up" /\ \E p \in Expanded : fresh[p] > 0
  /\ fresh' = [p \in Expanded |-> IF fresh[p] > 0 THEN fresh[p] - 1 ELSE 0]
  /\ UNCHANGED <<dbVars, held, req>>

PublishOutside(r, n) ==
  /\ ParentsOf[n] # {} /\ n \notin held[r]
  /\ held' = [held EXCEPT ![r] = @ \cup {n}]
  /\ UNCHANGED <<dbVars, fresh, req>>

\* The caches and the requests die with the process.
Die ==
  /\ Crash
  /\ fresh' = [p \in Expanded |-> 0]
  /\ req' = [q \in Requests |-> NoRequest]
  /\ UNCHANGED held

Elsewhere ==
  /\ Boot \/ Credit \/ \E n \in Notes : Post(n) \/ Ingest(n)
  /\ UNCHANGED threadVars

Step(q) == Merge(q) \/ Hydrated(q) \/ HydrateFails(q) \/ List(q) \/ Count(q)

FeedNext ==
  \/ Die \/ Elsewhere \/ Elapse
  \/ \E q \in Requests :
       \/ \E p \in Expanded, refresh \in BOOLEAN : Expand(q, p, refresh)
       \/ \E r \in Relays : Answer(q, r)
       \/ \E n \in Notes : StoreReply(q, n)
       \/ Step(q)
  \/ \E r \in Relays, n \in Notes : PublishOutside(r, n)

FeedSpec == FeedInit /\ [][FeedNext]_feedVars

AnswerFor(p, r) == \E q \in Requests : Answer(q, r) /\ req[q].parent = p

\* A relay that is asked for a thread again and again answers, a store that is tried again and
\* again gets the lock, time passes, and a request that has its turn goes on.
FairFeedSpec ==
  /\ FeedSpec
  /\ WF_feedVars(Elapse)
  /\ WF_feedVars(\E q \in Requests : Step(q))
  /\ \A r \in Relays, p \in Expanded : SF_feedVars(AnswerFor(p, r))
  /\ SF_feedVars(\E q \in Requests, n \in Notes : StoreReply(q, n))

-----------------------------------------------------------------------------
(* Properties *)

\* What a request for a thread owes is in its page: the replies that were stored when it came and
\* those the relays gave it, unless a store failed.  A reply is missing only from a full page, all
\* of newer replies; and the total, which is read later, never falls short of the page.
AnswerShowsWhatIsDue ==
  \A q \in Requests :
    Doing(q, "count") =>
      /\ Cardinality(req[q].page) <= Total(req[q].parent)
      /\ \A n \in req[q].due \ req[q].page :
           /\ Cardinality(req[q].page) = PageLimit
           /\ \A newer \in req[q].page : At[newer] > At[n]

\* "expand / reply-counts must agree" (relay.py:171): in a batch a note has the count that its own
\* request answers, less the replies that also reply to a note before it in the batch; no reply
\* is counted twice.
CountsAgreeUnlessShared ==
  \A batch \in SetToSeqs(Threads) :
    \A i \in 1..Len(batch) :
      LET earlier == UNION {Replies(batch[j]) : j \in 1..(i - 1)}
      IN  ReplyCounts(batch)[batch[i]] = Total(batch[i]) - Cardinality(Replies(batch[i]) \cap earlier)

\* A reply that stays among the newest of the relays is stored sooner or later, as long as people
\* go on to expand its thread: the entry that spares the relays expires while they do.
EventuallyThreaded ==
  \A n \in Notes : \A p \in ParentsOf[n] \cap Expanded :
    /\ <>[](\E r \in Relays : n \in Newest(FetchLimit, {m \in held[r] : p \in ParentsOf[m]}))
    /\ []<><<\E q \in Requests : Expand(q, p, FALSE)>>_feedVars
    => <>(n \in Stored)

=============================================================================
