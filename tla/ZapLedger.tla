------------------------------- MODULE ZapLedger -----------------------------
(***************************************************************************)
(* Zap receipts, votes and posts on the tallies of notes.                  *)
(*                                                                         *)
(* A task is a client's (a WebSocket connection, which handles one message *)
(* at a time, or a vote request) or the ingest loop of an external relay.  *)
(* A step of a task runs from one await to the next.                       *)
(*                                                                         *)
(* A session reads the row of the target once and keeps the copy           *)
(* (expire_on_commit=False); apply_zap_receipt and _apply_vote_delta add   *)
(* to the copy, and the copy is written back at the next commit of that    *)
(* session, whatever became of the row in between.                         *)
(*                                                                         *)
(* Targets are kind:1 notes, whose rows are never deleted.                 *)
(***************************************************************************)
EXTENDS Integers, Sequences, FiniteSetsExt

CONSTANTS
  Clients,     \* tasks of clients: WebSocket connections and vote requests
  Relays,      \* external relays, each with one ingest loop
  Receipts,    \* ids of kind-9735 receipts that pass verify_zap_receipt
  Targets,     \* ids of notes
  TargetOf,    \* the note a receipt is for
  Sats,        \* the amount of a receipt
  FeeLegs,     \* receipts whose recipient is the relay; the others are the author's
  VoteSats,    \* amount of a downvote
  PostSats,    \* sats_clank of a note posted here
  MaxPending,  \* MAX_PENDING_TARGETS
  MaxParked,   \* bound: receipts one relay sends for a target it has not sent
  None         \* no target or lock holder

Tasks == Clients \cup Relays

ASSUME TargetAssumption == TargetOf \in [Receipts -> Targets]
ASSUME SatsAssumption == Sats \in [Receipts -> Nat \ {0}]
ASSUME AmountsAssumption == VoteSats \in Nat \ {0} /\ PostSats \in Nat /\ FeeLegs \subseteq Receipts
ASSUME PendingAssumption == MaxPending \in Nat /\ MaxParked \in Nat
ASSUME TasksAssumption == Clients \cap Relays = {} /\ None \notin Tasks \cup Targets

VARIABLES
  row,      \* nostr_events, committed: the targets and their tallies
  stored,   \* nostr_events, committed: the receipts
  votes,    \* votes, committed: rows with payment_id zap:<receipt>
  profiles, \* targets whose author's kind:0, with a lud16, is stored
  writer,   \* the session that holds SQLite's write lock, or None
  task,     \* what each task is doing, and the copy of the row in its session
  parked,   \* `pending` of _relay_loop: receipts waiting for their target
  past      \* history: whether the target was voted on, or written over a row read too early

tables == <<row, stored, votes, profiles>>
vars == <<row, stored, votes, profiles, writer, task, parked, past>>

-----------------------------------------------------------------------------
(* Data *)

Rows == [stored : BOOLEAN, clank : Nat, ext : Nat]
NoRow == [stored |-> FALSE, clank |-> 0, ext |-> 0]

Steps == {"idle", "check", "load", "signer", "profile", "apply", "answer", "note", "pay", "down"}

Sessions ==
  [at : Steps, batch : BOOLEAN, target : Targets \cup {None}, queue : Seq(Receipts),
   base : Rows, mem : Rows, dirty : SUBSET Receipts]

Idle ==
  [at |-> "idle", batch |-> FALSE, target |-> None, queue |-> <<>>,
   base |-> NoRow, mem |-> NoRow, dirty |-> {}]
Down == [Idle EXCEPT !.at = "down"]
Parked == [Targets -> Seq(Receipts)]
NothingParked == [t \in Targets |-> <<>>]

TypeOK ==
  /\ row \in [Targets -> Rows]
  /\ stored \subseteq Receipts
  /\ votes \in [Receipts -> Nat]
  /\ profiles \subseteq Targets
  /\ writer \in Tasks \cup {None}
  /\ task \in [Tasks -> Sessions]
  /\ parked \in [Relays -> Parked]
  /\ past \in [Targets -> {"exact", "raced", "voted"}]

Init ==
  /\ row = [t \in Targets |-> NoRow]
  /\ stored = {}
  /\ votes = [z \in Receipts |-> 0]
  /\ profiles = {}
  /\ writer = None
  /\ task = [k \in Tasks |-> IF k \in Relays THEN Down ELSE Idle]
  /\ parked = [k \in Relays |-> NothingParked]
  /\ past = [t \in Targets |-> "exact"]

\* Mutant of Floored: the floor is missing.
NotFloored(n) == n - VoteSats

\* _apply_vote_delta with direction -1
Floored(n) == IF n < VoteSats THEN 0 ELSE n - VoteSats
Lowered(tally) == [tally EXCEPT !.clank = Floored(@), !.ext = Floored(@)]

\* apply_zap_receipt: both legs count for sats_ext, the relay's own for sats_clank too.
Raised(tally, z) ==
  [tally EXCEPT !.ext = @ + Sats[z], !.clank = IF z \in FeeLegs THEN @ + Sats[z] ELSE @]

\* SQLAlchemy's UPDATE names the columns whose values differ from the ones loaded.
Overwritten(tally, base, mem) ==
  [tally EXCEPT !.clank = IF mem.clank = base.clank THEN @ ELSE mem.clank,
                !.ext = IF mem.ext = base.ext THEN @ ELSE mem.ext]

-----------------------------------------------------------------------------
(* Sessions *)

CanWrite(k) == writer \in {None, k}

\* A handler is done with a receipt: the next of its batch, or the end of its session.
NextOf(s) ==
  IF s.batch /\ Len(s.queue) > 1 THEN [s EXCEPT !.at = "check", !.queue = Tail(@)] ELSE Idle

\* Mutant of GoOn: the session of a finished batch is not closed.
GoOnLeaking(k, s) ==
  /\ task' = [task EXCEPT ![k] = NextOf(s)]
  /\ UNCHANGED writer

\* Closing a session rolls back what it has not committed.
GoOn(k, s) ==
  /\ task' = [task EXCEPT ![k] = NextOf(s)]
  /\ writer' = IF writer = k /\ NextOf(s) = Idle THEN None ELSE writer

\* Session k commits: its copy of the row, its uncommitted Vote rows and those of new.
Commit(k, mem, new) ==
  LET s == task[k] IN
    /\ CanWrite(k)
    /\ row' = [row EXCEPT ![s.target] = Overwritten(@, s.base, mem)]
    /\ votes' = [z \in Receipts |-> IF z \in s.dirty \cup new THEN votes[z] + 1 ELSE votes[z]]
    /\ past' = [past EXCEPT ![s.target] =
                  IF s.at = "pay" THEN "voted"
                  ELSE IF @ = "exact" /\ mem # s.base /\ row[s.target] # s.base THEN "raced" ELSE @]

\* The session of k once its writes are committed.
Committed(s, mem) == [s EXCEPT !.base = mem, !.mem = mem, !.dirty = {}]

\* An exception leaves the handler: the connection of a client is closed (and the slot is
\* another client's), an ingest loop drops its connection and what it has parked.
Fail(k) ==
  /\ task' = [task EXCEPT ![k] = IF k \in Relays THEN Down ELSE Idle]
  /\ parked' = IF k \in Relays THEN [parked EXCEPT ![k] = NothingParked] ELSE parked
  /\ writer' = IF writer = k THEN None ELSE writer
  /\ UNCHANGED <<tables, past>>

-----------------------------------------------------------------------------
(* Receipts *)

\* A client or an external relay sends a receipt.
Receive(k, z) ==
  /\ task[k].at = "idle"
  /\ k \in Relays => Len(parked[k][TargetOf[z]]) < MaxParked
  /\ task' = [task EXCEPT ![k] =
                [Idle EXCEPT !.at = "check", !.target = TargetOf[z], !.queue = <<z>>]]
  /\ UNCHANGED <<tables, writer, parked, past>>

\* Mutant of Known: a parked receipt is not looked up again before it is applied.
KnownAlone(k) ==
  LET s == task[k] IN
    /\ s.at = "check" /\ Head(s.queue) \in stored
    /\ IF s.batch THEN task' = [task EXCEPT ![k].at = "signer"] /\ UNCHANGED writer
                  ELSE GoOn(k, s)
    /\ UNCHANGED <<tables, parked, past>>

\* The receipt is stored already: it has been credited.
Known(k) ==
  LET s == task[k] IN
    /\ s.at = "check" /\ Head(s.queue) \in stored
    /\ GoOn(k, s)
    /\ UNCHANGED <<tables, parked, past>>

Unknown(k) ==
  LET s == task[k] IN
    /\ s.at = "check" /\ Head(s.queue) \notin stored
    /\ task' = [task EXCEPT ![k].at = IF s.batch THEN "signer" ELSE "load"]
    /\ UNCHANGED <<tables, writer, parked, past>>

\* The target's row is read; _apply_receipts reads it once for all its receipts.
Load(k) ==
  LET s == task[k] IN
    /\ s.at = "load" /\ row[s.target].stored
    /\ task' = [task EXCEPT ![k] = [s EXCEPT !.at = IF s.batch THEN "check" ELSE "signer",
                                             !.base = row[s.target], !.mem = row[s.target]]]
    /\ UNCHANGED <<tables, writer, parked, past>>

\* A client's receipt for a note this relay does not have is refused.
RefuseStranger(k) ==
  /\ k \in Clients /\ task[k].at = "load" /\ ~row[task[k].target].stored
  /\ GoOn(k, task[k])
  /\ UNCHANGED <<tables, parked, past>>

PendingTargets(k) == {t \in Targets : parked[k][t] # <<>>}

\* An external relay's receipt waits for its note, unless too many notes are waited for.
Park(k) ==
  LET s == task[k] IN
    /\ k \in Relays /\ s.at = "load" /\ ~row[s.target].stored
    /\ parked' = IF s.target \notin PendingTargets(k) /\ Cardinality(PendingTargets(k)) >= MaxPending
                 THEN parked
                 ELSE [parked EXCEPT ![k][s.target] = Append(@, Head(s.queue))]
    /\ GoOn(k, s)
    /\ UNCHANGED <<tables, past>>

\* LNURL says no or nothing, the recipient is neither author nor relay, or (for a client's
\* receipt) the author's lud16 is unknown.
Refuse(k) ==
  /\ task[k].at = "signer"
  /\ GoOn(k, task[k])
  /\ UNCHANGED <<tables, parked, past>>

Accept(k) ==
  LET s == task[k] IN
    /\ s.at = "signer" /\ (Head(s.queue) \in FeeLegs \/ s.target \in profiles)
    /\ task' = [task EXCEPT ![k].at = "apply"]
    /\ UNCHANGED <<tables, writer, parked, past>>

\* _ensure_author_lud16: the ingest loop fetches the author's profile from other relays, and
\* the SELECTs of store_event do not find it here.
FetchProfile(k) ==
  LET s == task[k] IN
    /\ k \in Relays /\ s.at = "signer" /\ Head(s.queue) \notin FeeLegs /\ s.target \notin profiles
    /\ task' = [task EXCEPT ![k].at = "profile"]
    /\ UNCHANGED <<tables, writer, parked, past>>

\* The commit of the profile is a commit of the session the receipts are credited in.
StoreProfile(k) ==
  LET s == task[k] IN
    /\ s.at = "profile" /\ s.target \notin profiles
    /\ Commit(k, s.mem, {})
    /\ profiles' = profiles \cup {s.target}
    /\ task' = [task EXCEPT ![k] = [Committed(s, s.mem) EXCEPT !.at = "signer"]]
    /\ writer' = None
    /\ UNCHANGED <<stored, parked>>

\* Somebody else stored it meanwhile: IntegrityError, and a rollback, which expires the copy
\* of the target.  Touching the copy raises, and it is only not touched when the receipt is
\* the last and LNURL refuses it.
ProfileRace(k) ==
  LET s == task[k] IN
    /\ s.at = "profile" /\ s.target \in profiles /\ writer = None
    /\ \/ Fail(k)
       \/ /\ Len(s.queue) = 1
          /\ GoOn(k, s)
          /\ UNCHANGED <<tables, parked, past>>

\* Mutant of Credit: the credit is committed before the receipt is stored.
CreditUnstored(k) ==
  LET s == task[k]
      z == Head(s.queue)
  IN /\ s.at = "apply" /\ z \notin stored
     /\ Commit(k, Raised(s.mem, z), {z})
     /\ task' = [task EXCEPT ![k] = NextOf(Committed(s, Raised(s.mem, z)))]
     /\ writer' = None
     /\ UNCHANGED <<stored, profiles, parked>>

\* apply_zap_receipt: one commit stores the receipt, its vote and the copy of the row.
Credit(k) ==
  LET s == task[k]
      z == Head(s.queue)
  IN /\ s.at = "apply" /\ z \notin stored
     /\ Commit(k, Raised(s.mem, z), {z})
     /\ stored' = stored \cup {z}
     /\ task' = [task EXCEPT ![k] = NextOf(Committed(s, Raised(s.mem, z)))]
     /\ writer' = None
     /\ UNCHANGED <<profiles, parked>>

\* Mutant of Duplicate: store_event commits before its early return.
DuplicateCommitted(k) ==
  LET s == task[k]
      z == Head(s.queue)
  IN /\ s.at = "apply" /\ z \in stored
     /\ Commit(k, Raised(s.mem, z), {z})
     /\ task' = [task EXCEPT ![k] = NextOf(Committed(s, Raised(s.mem, z)))]
     /\ writer' = None
     /\ UNCHANGED <<stored, profiles, parked>>

\* The receipt was stored since it was looked up.  The lookup in store_event flushes the
\* credit first (autoflush) and then returns early: the session holds the write lock and
\* an uncommitted credit, until it commits something else or closes.
Duplicate(k) ==
  LET s == task[k]
      z == Head(s.queue)
      flushed == [s EXCEPT !.mem = Raised(@, z), !.dirty = @ \cup {z}]
      after == IF k \in Clients THEN [flushed EXCEPT !.at = "answer"] ELSE NextOf(flushed)
  IN /\ s.at = "apply" /\ z \in stored
     /\ CanWrite(k)
     /\ task' = [task EXCEPT ![k] = after]
     /\ writer' = IF after = Idle THEN None ELSE k
     /\ UNCHANGED <<tables, parked, past>>

\* The duplicate is answered OK and broadcast, with the session still open.
Answer(k) ==
  /\ task[k].at = "answer"
  /\ GoOn(k, task[k])
  /\ UNCHANGED <<tables, parked, past>>

-----------------------------------------------------------------------------
(* Ingest loops *)

\* The external relay sends the note that was asked for: its receipts become a batch.
TargetArrives(k, t) ==
  /\ k \in Relays /\ task[k].at = "idle" /\ parked[k][t] # <<>>
  /\ task' = [task EXCEPT ![k] = [Idle EXCEPT !.at = "note", !.batch = TRUE, !.target = t,
                                              !.queue = parked[k][t]]]
  /\ parked' = [parked EXCEPT ![k][t] = <<>>]
  /\ UNCHANGED <<tables, writer, past>>

\* It sends something else on that subscription: the receipts are dropped.
WrongTarget(k, t) ==
  /\ k \in Relays /\ task[k].at = "idle" /\ parked[k][t] # <<>>
  /\ parked' = [parked EXCEPT ![k][t] = <<>>]
  /\ UNCHANGED <<tables, writer, task, past>>

\* store_event in a session of its own, closed before _apply_receipts opens the next; a note
\* stored meanwhile is an early return or an IntegrityError, both without effect.
StoreNote(k) ==
  LET t == task[k].target IN
    /\ task[k].at = "note"
    /\ \/ row[t].stored /\ UNCHANGED row
       \/ ~row[t].stored /\ CanWrite(k) /\ row' = [row EXCEPT ![t] = [NoRow EXCEPT !.stored = TRUE]]
    /\ task' = [task EXCEPT ![k].at = "load"]
    /\ UNCHANGED <<stored, votes, profiles, writer, parked, past>>

Connect(k) ==
  /\ k \in Relays /\ task[k].at = "down"
  /\ task' = [task EXCEPT ![k] = Idle]
  /\ UNCHANGED <<tables, writer, parked, past>>

\* The connection to the external relay breaks between two messages.
Disconnect(k) == k \in Relays /\ task[k].at = "idle" /\ Fail(k)

-----------------------------------------------------------------------------
(* Votes, posts, failures *)

\* vote_event reads the row, then waits for LNBits and for the lock of the consumption.
ReadVote(k, t) ==
  /\ k \in Clients /\ task[k].at = "idle" /\ row[t].stored
  /\ task' = [task EXCEPT ![k] = [Idle EXCEPT !.at = "pay", !.target = t,
                                              !.base = row[t], !.mem = Lowered(row[t])]]
  /\ UNCHANGED <<tables, writer, parked, past>>

\* The consumption, the Vote row and the copy of the row are committed together.
CastVote(k) ==
  /\ task[k].at = "pay"
  /\ Commit(k, task[k].mem, {})
  /\ task' = [task EXCEPT ![k] = Idle]
  /\ UNCHANGED <<stored, profiles, writer, parked>>

\* Not paid, or paid before.
DropVote(k) == task[k].at = "pay" /\ Fail(k)

\* confirm_vote holds the lock when it reads the row.
ConfirmVote(t) ==
  /\ writer = None /\ row[t].stored
  /\ row' = [row EXCEPT ![t] = Lowered(@)]
  /\ past' = [past EXCEPT ![t] = "voted"]
  /\ UNCHANGED <<stored, votes, profiles, writer, task, parked>>

\* A paid post of the note, or of the author's profile, on any of the routes of PaidActions.
Post(t) ==
  /\ writer = None
  /\ \/ /\ ~row[t].stored
        /\ row' = [row EXCEPT ![t] = [stored |-> TRUE, clank |-> PostSats, ext |-> 0]]
        /\ UNCHANGED profiles
     \/ /\ t \notin profiles
        /\ profiles' = profiles \cup {t}
        /\ UNCHANGED row
  /\ UNCHANGED <<stored, votes, writer, task, parked, past>>

\* "database is locked" after connect_args timeout.
LockTimeout(k) ==
  /\ task[k].at \in {"apply", "profile", "note", "pay"} /\ ~CanWrite(k)
  /\ Fail(k)

Crash ==
  /\ \E k \in Tasks : task[k].at \notin {"idle", "down"}
  /\ task' = [k \in Tasks |-> IF k \in Relays THEN Down ELSE Idle]
  /\ parked' = [k \in Relays |-> NothingParked]
  /\ writer' = None
  /\ UNCHANGED <<tables, past>>

-----------------------------------------------------------------------------

Step(k) ==
  \/ Known(k) \/ Unknown(k) \/ Load(k) \/ RefuseStranger(k) \/ Park(k)
  \/ Refuse(k) \/ Accept(k) \/ FetchProfile(k) \/ StoreProfile(k) \/ ProfileRace(k)
  \/ Credit(k) \/ Duplicate(k) \/ Answer(k) \/ StoreNote(k)
  \/ CastVote(k) \/ DropVote(k) \/ LockTimeout(k)

Environment ==
  \/ \E k \in Tasks, z \in Receipts : Receive(k, z)
  \/ \E k \in Tasks, t \in Targets : TargetArrives(k, t) \/ WrongTarget(k, t) \/ ReadVote(k, t)
  \/ \E k \in Tasks : Connect(k) \/ Disconnect(k)
  \/ \E t \in Targets : ConfirmVote(t) \/ Post(t)
  \/ Crash

Next == Environment \/ \E k \in Tasks : Step(k)

Spec == Init /\ [][Next]_vars

-----------------------------------------------------------------------------
(* Properties *)

\* What the stored receipts for t are worth.
FaceValue(t) == MapThenSumSet(LAMBDA z : Sats[z], {z \in stored : TargetOf[z] = t})
FeeValue(t) == MapThenSumSet(LAMBDA z : Sats[z], {z \in stored \cap FeeLegs : TargetOf[z] = t})

\* A tally never exceeds what was zapped and posted: no receipt counts twice, though relays
\* send it again, several tasks verify it at once, batches carry uncommitted duplicates into
\* their next commit, and copies of rows are written back late.
NoInflation ==
  \A t \in Targets : row[t].ext <= FaceValue(t) /\ row[t].clank <= PostSats + FeeValue(t)

\* relay.py:543 "commits the vote + value credit too": a receipt is stored exactly when its
\* vote is, whatever fails in between.
StoredWithItsVote == \A z \in Receipts : z \in stored <=> votes[z] > 0

\* A tally is exactly the face value as long as no vote lowered it and no session wrote over
\* a row that had changed since it read it: batches, duplicates, reconnects, rollbacks and
\* crashes lose or repeat nothing on their own.
ExactUnlessRaced ==
  \A t \in Targets :
    past[t] = "exact" =>
      /\ row[t].ext = FaceValue(t)
      /\ row[t].clank \in {FeeValue(t), PostSats + FeeValue(t)}

\* A second Vote row for a receipt is only ever committed by the ingest batch that held it as
\* an uncommitted duplicate; connections and single receipts roll theirs back.
OnlyBatchesRepeatVotes ==
  [][\A z \in Receipts :
       votes'[z] > votes[z] /\ votes[z] > 0 =>
         \E k \in Relays : task[k].batch /\ z \in task[k].dirty]_vars

\* Nobody keeps SQLite's write lock across an await but a session with an uncommitted
\* duplicate, and none keeps it when its handler is over.
LockOnlyOfDuplicates ==
  \A k \in Tasks : writer = k => task[k].dirty # {} /\ task[k].at \notin {"idle", "down"}

\* README.md:157 "`sats_ext` - fair combined ranking: external NIP-57 zaps at face value",
\* for a note nobody voted on.
ZapsAtFaceValue == \A t \in Targets : past[t] # "voted" => row[t].ext = FaceValue(t)

=============================================================================
