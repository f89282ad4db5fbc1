------------------------------ MODULE EventStore -----------------------------
(***************************************************************************)
(* store_event and the replaceable events of one author and kind, from all *)
(* its callers.  The paid routes call it with SQLite's write lock held     *)
(* (they flushed a consumption); the WebSocket relay, the profile route    *)
(* and the ingest loops do not, so what it reads may change before its     *)
(* commit takes the lock.                                                  *)
(***************************************************************************)
EXTENDS Naturals, FiniteSets

CONSTANTS
  Writers,    \* tasks that store events
  Versions,   \* events of one author and one replaceable kind
  Supersedes, \* pairs <<m, n>>, m the later
  Callers,    \* the callers of this instance
  None        \* no version or lock holder

CallerNames == {"socket", "profile", "ingest", "paid"}

\* By created_at, then by id: a strict total order.
ASSUME SupersedesAssumption ==
  /\ Supersedes \subseteq Versions \X Versions
  /\ \A n \in Versions : <<n, n>> \notin Supersedes
  /\ \A a, b, c \in Versions :
       <<a, b>> \in Supersedes /\ <<b, c>> \in Supersedes => <<a, c>> \in Supersedes
  /\ \A a, b \in Versions : a = b \/ <<a, b>> \in Supersedes \/ <<b, a>> \in Supersedes
ASSUME CallersAssumption == Callers \subseteq CallerNames
ASSUME NoneAssumption == None \notin Versions \cup Writers

VARIABLES
  rows,    \* nostr_events, committed: the versions stored
  writer,  \* the session that holds the write lock, or None
  task     \* what each writer is doing

vars == <<rows, writer, task>>

Steps == {"idle", "get", "select", "commit", "done"}
Tasks ==
  [at : Steps, caller : CallerNames \cup {None}, event : Versions \cup {None},
   old : Versions \cup {None}]
Idle == [at |-> "idle", caller |-> None, event |-> None, old |-> None]

TypeOK ==
  /\ rows \subseteq Versions
  /\ writer \in Writers \cup {None}
  /\ task \in [Writers -> Tasks]

Init ==
  /\ rows = {}
  /\ writer = None
  /\ task = [w \in Writers |-> Idle]

\* The event itself is stored, or a later one.
Kept(e) == e \in rows \/ \E m \in rows : <<m, e>> \in Supersedes

\* scalar_one_or_none raises MultipleResultsFound for a second row.
AtMostOne == \A m, n \in rows : m = n

Goto(w, step) == task' = [task EXCEPT ![w].at = step]

\* The handler returns or raises; its session closes.
Close(w) ==
  /\ task' = [task EXCEPT ![w] = Idle]
  /\ writer' = IF writer = w THEN None ELSE writer

-----------------------------------------------------------------------------
(* Callers *)

\* Mutant of LockFirst: the consumption is flushed after the event is stored.
LockLate(w) == UNCHANGED writer

\* check_and_consume_payment flushes its row before a paid route calls store_event.
LockFirst(w) == writer = None /\ writer' = w

\* A caller has an event to store.  What get_profile and _ensure_author_lud16 read before they
\* fetched it may have changed meanwhile (ProfileFetch).
Begin(w, caller, e) ==
  /\ task[w].at = "idle"
  /\ IF caller = "paid" THEN LockFirst(w) ELSE UNCHANGED writer
  /\ task' = [task EXCEPT ![w] = [at |-> "get", caller |-> caller, event |-> e, old |-> None]]
  /\ UNCHANGED rows

\* After the store: broadcast and answer; get_profile and _ensure_author_lud16 read the
\* author's rows once more, and raise or not.  Either way the session closes.
Finish(w) ==
  /\ task[w].at = "done"
  /\ Close(w)
  /\ UNCHANGED rows

-----------------------------------------------------------------------------
(* store_event *)

\* The id is known already: an early return, without a commit.
GetHit(w) ==
  /\ task[w].at = "get" /\ task[w].event \in rows
  /\ Goto(w, "done")
  /\ UNCHANGED <<rows, writer>>

GetMiss(w) ==
  /\ task[w].at = "get" /\ task[w].event \notin rows
  /\ Goto(w, "select")
  /\ UNCHANGED <<rows, writer>>

SelectNone(w) ==
  /\ task[w].at = "select" /\ rows = {}
  /\ Goto(w, "commit")
  /\ UNCHANGED <<rows, writer>>

\* The stored version is older: it is to be deleted with the commit.
SelectOld(w) ==
  /\ task[w].at = "select" /\ AtMostOne
  /\ \E o \in rows :
       /\ <<task[w].event, o>> \in Supersedes
       /\ task' = [task EXCEPT ![w].at = "commit", ![w].old = o]
  /\ UNCHANGED <<rows, writer>>

\* The stored version is later, or the event itself: skipped.
SelectNewer(w) ==
  /\ task[w].at = "select" /\ AtMostOne
  /\ \E o \in rows : o = task[w].event \/ <<o, task[w].event>> \in Supersedes
  /\ Goto(w, "done")
  /\ UNCHANGED <<rows, writer>>

SelectRaises(w) ==
  /\ task[w].at = "select" /\ ~AtMostOne
  /\ Close(w)
  /\ UNCHANGED rows

\* Mutant of Insert: what the author has stored is deleted without looking at it again.
InsertAlone(w) ==
  /\ task[w].at = "commit" /\ writer \in {None, w} /\ task[w].event \notin rows
  /\ rows' = {task[w].event}
  /\ Goto(w, "done")
  /\ writer' = None

\* INSERT, then DELETE of the row that was read; that it is gone meanwhile is a warning only.
Insert(w) ==
  /\ task[w].at = "commit" /\ writer \in {None, w} /\ task[w].event \notin rows
  /\ rows' = (rows \ {task[w].old}) \cup {task[w].event}
  /\ Goto(w, "done")
  /\ writer' = None

\* IntegrityError on the id: rolled back and taken for success.
InsertRace(w) ==
  /\ task[w].at = "commit" /\ writer = None /\ task[w].event \in rows
  /\ Goto(w, "done")
  /\ UNCHANGED <<rows, writer>>

\* Mutant of LockTimeout: every database error is taken for a duplicate.
AnyErrorIsSuccess(w) ==
  /\ task[w].at = "commit" /\ writer \notin {None, w}
  /\ Goto(w, "done")
  /\ UNCHANGED <<rows, writer>>

\* Mutant of LockTimeout: the lock is waited for without a timeout.
WaitOn(w) ==
  /\ task[w].at = "commit" /\ writer \notin {None, w}
  /\ UNCHANGED vars

\* "database is locked" after the timeout of connect_args.
LockTimeout(w) ==
  /\ task[w].at = "commit" /\ writer \notin {None, w}
  /\ Close(w)
  /\ UNCHANGED rows

\* The process dies.
Crash ==
  /\ \E w \in Writers : task[w] # Idle
  /\ task' = [w \in Writers |-> Idle]
  /\ writer' = None
  /\ UNCHANGED rows

-----------------------------------------------------------------------------

Step(w) ==
  \/ GetHit(w) \/ GetMiss(w)
  \/ SelectNone(w) \/ SelectOld(w) \/ SelectNewer(w) \/ SelectRaises(w)
  \/ Insert(w) \/ InsertRace(w) \/ LockTimeout(w) \/ Finish(w)

Next ==
  \/ \E w \in Writers :
       Step(w) \/ \E caller \in Callers, e \in Versions : Begin(w, caller, e)
  \/ Crash

Spec == Init /\ [][Next]_vars

\* Every await of a handler ends; a lock is waited for 30 s.
Fairness == \A w \in Writers : WF_vars(Step(w))

FairSpec == Spec /\ Fairness

-----------------------------------------------------------------------------
(* Properties *)

\* relay.py:310 "treat as idempotent success": whenever store_event returns (stored, skipped as
\* a duplicate, skipped for a newer one, or after the race), the event or a later one of its
\* author and kind is in the database.
SuccessIsKept == \A w \in Writers : task[w].at = "done" => Kept(task[w].event)

\* Whatever the callers race for, the latest version ever stored is never lost.
LatestStays == [][\A e \in Versions : Kept(e) => Kept(e)']_vars

\* A paid route never leaves a second row for an author and kind: only callers that read
\* before they lock do.
PaidNeverSplits ==
  [][\A w \in Writers :
       task[w].caller = "paid" /\ task[w].at = "commit" /\ task'[w].at = "done" /\ AtMostOne
         => AtMostOne']_vars

\* Every call of store_event ends.
EveryStoreEnds == \A w \in Writers : task[w].at # "idle" ~> task[w].at = "idle"

\* relay.py:268 "Kind 0 (metadata) is replaceable: only the latest per pubkey is kept."
OnlyLatestKept == AtMostOne

=============================================================================
