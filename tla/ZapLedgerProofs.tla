--------------------------- MODULE ZapLedgerProofs --------------------------
(***************************************************************************)
(* Theorems of ZapLedger, for any number of clients, relays, receipts and  *)
(* notes and any amounts.                                                  *)
(***************************************************************************)
EXTENDS ZapLedger, TLAPS

\* Steps at which a session works on receipts.
Working == {"check", "load", "signer", "profile", "apply", "answer", "note"}

\* What is known of the session of k.
Fits(k) ==
  /\ task[k].at \in Working => task[k].queue # <<>> /\ task[k].target \in Targets
  /\ task[k].at = "pay" => task[k].target \in Targets
  /\ task[k].dirty \subseteq stored
  /\ task[k].dirty # {} =>
       \/ task[k].at = "answer"
       \/ task[k].batch /\ task[k].at \in {"check", "signer", "profile", "apply"}
  /\ task[k].batch => k \in Relays
  /\ writer = k => task[k].dirty # {}

SessionInv == \A k \in Tasks : Fits(k)

IInv == TypeOK /\ StoredWithItsVote /\ SessionInv

-----------------------------------------------------------------------------
(* The operators *)

LEMMA IdleType == Idle \in Sessions /\ Down \in Sessions
<1>1. <<>> \in Seq(Receipts)
  OBVIOUS
<1>. QED
  BY <1>1 DEF Idle, Down, Sessions, Steps, Rows, NoRow

\* Floors and sums of tallies are tallies.
LEMMA RowTypes ==
  ASSUME NEW tally \in Rows, NEW base \in Rows, NEW mem \in Rows, NEW z \in Receipts
  PROVE  Lowered(tally) \in Rows /\ Raised(tally, z) \in Rows /\ Overwritten(tally, base, mem) \in Rows
<1>1. VoteSats \in Nat /\ Sats[z] \in Nat
  BY AmountsAssumption, SatsAssumption
<1>2. \A n \in Nat : Floored(n) \in Nat
  BY <1>1 DEF Floored
<1>3. Lowered(tally) \in Rows
  BY <1>2 DEF Lowered, Rows
<1>4. Raised(tally, z) \in Rows
  <2>1. tally.ext + Sats[z] \in Nat /\ tally.clank + Sats[z] \in Nat
    BY <1>1 DEF Rows
  <2>2. CASE z \in FeeLegs
    BY <2>1, <2>2 DEF Raised, Rows
  <2>3. CASE z \notin FeeLegs
    BY <2>1, <2>3 DEF Raised, Rows
  <2>. QED
    BY <2>2, <2>3
<1>5. Overwritten(tally, base, mem) \in Rows
  BY DEF Overwritten, Rows
<1>. QED
  BY <1>3, <1>4, <1>5

\* What a session does after a receipt: the rest of its batch, or nothing.
LEMMA NextOfType ==
  ASSUME NEW s \in Sessions, s.queue # <<>>
  PROVE  \/ NextOf(s) = Idle
         \/ /\ NextOf(s) \in Sessions
            /\ NextOf(s).at = "check" /\ NextOf(s).queue # <<>> /\ s.batch /\ NextOf(s).batch
            /\ NextOf(s).target = s.target /\ NextOf(s).dirty = s.dirty
<1>1. CASE s.batch /\ Len(s.queue) > 1
  <2>1. NextOf(s) = [s EXCEPT !.at = "check", !.queue = Tail(s.queue)]
    BY <1>1 DEF NextOf
  <2>2. s.queue \in Seq(Receipts)
    BY DEF Sessions
  <2>3. Tail(s.queue) \in Seq(Receipts) /\ Len(Tail(s.queue)) > 0
    BY <1>1, <2>2
  <2>4. Tail(s.queue) # <<>>
    <3>1. ASSUME NEW t \in Seq(Receipts), Len(t) > 0
          PROVE  t # <<>>
      BY <3>1
    <3>. QED
      BY <2>3, <3>1
  <2>. QED
    BY <1>1, <2>1, <2>3, <2>4 DEF Sessions, Steps
<1>. QED
  BY <1>1 DEF NextOf

-----------------------------------------------------------------------------
(* How one task's step keeps the invariant *)

LEMMA MoveInv ==
  ASSUME IInv, NEW k \in Tasks, TypeOK', StoredWithItsVote', Fits(k)', stored \subseteq stored',
         \A v \in Tasks \ {k} : task'[v] = task[v] /\ (writer' = v => writer = v)
  PROVE  IInv'
<1>1. ASSUME NEW v \in Tasks, v # k
      PROVE  Fits(v)'
  <2>1. Fits(v)
    BY DEF IInv, SessionInv
  <2>2. task'[v] = task[v] /\ (writer' = v => writer = v)
    BY <1>1
  <2>. QED
    BY <2>1, <2>2 DEF Fits
<1>2. SessionInv'
  BY <1>1 DEF SessionInv
<1>. QED
  BY <1>2 DEF IInv

\* A step of k that writes nothing but its own session.
LEMMA SessionStep ==
  ASSUME IInv, NEW k \in Tasks, NEW s \in Sessions, NEW p \in [Relays -> Parked],
         task' = [task EXCEPT ![k] = s], parked' = p, UNCHANGED <<tables, writer, past>>,
         s.at \in Working => s.queue # <<>> /\ s.target \in Targets,
         s.at = "pay" => s.target \in Targets,
         s.dirty = task[k].dirty,
         s.dirty # {} => s.batch /\ s.at \in {"check", "signer", "profile", "apply"},
         s.batch => k \in Relays
  PROVE  IInv'
<1>1. TypeOK'
  BY DEF IInv, TypeOK, tables
<1>2. StoredWithItsVote'
  BY DEF IInv, StoredWithItsVote, tables
<1>3. task \in [Tasks -> Sessions] /\ Fits(k)
  BY DEF IInv, TypeOK, SessionInv
<1>4. task'[k] = s /\ UNCHANGED <<stored, writer>>
  BY <1>3 DEF tables
<1>5. Fits(k)'
  BY <1>3, <1>4 DEF Fits
<1>6. \A v \in Tasks \ {k} : task'[v] = task[v] /\ (writer' = v => writer = v)
  BY <1>3, <1>4
<1>7. stored \subseteq stored'
  BY <1>4
<1>. QED
  BY <1>1, <1>2, <1>5, <1>6, <1>7, MoveInv

\* The handler of k is done with a receipt and writes nothing.
LEMMA GoOnInv ==
  ASSUME IInv, NEW k \in Tasks, NEW p \in [Relays -> Parked],
         task[k].at \in Working, GoOn(k, task[k]), parked' = p, UNCHANGED <<tables, past>>
  PROVE  IInv'
<1>. DEFINE s == NextOf(task[k])
<1>1. task \in [Tasks -> Sessions] /\ Fits(k) /\ writer \in Tasks \cup {None}
  BY DEF IInv, TypeOK, SessionInv
<1>2. /\ task' = [task EXCEPT ![k] = s]
      /\ writer' = IF writer = k /\ s = Idle THEN None ELSE writer
  BY DEF GoOn
<1>3. \/ s = Idle
      \/ /\ s \in Sessions /\ s.at = "check" /\ s.queue # <<>> /\ task[k].batch /\ s.batch
         /\ s.target = task[k].target /\ s.dirty = task[k].dirty
  BY <1>1, NextOfType DEF Fits
<1>4. s \in Sessions
  BY <1>3, IdleType
<1>. HIDE DEF s
<1>5. TypeOK'
  BY <1>1, <1>2, <1>4 DEF IInv, TypeOK, tables
<1>6. StoredWithItsVote'
  BY DEF IInv, StoredWithItsVote, tables
<1>7. Fits(k)'
  <2>1. task'[k] = s /\ UNCHANGED stored
    BY <1>1, <1>2 DEF tables
  <2>2. CASE s = Idle
    BY <1>2, <2>1, <2>2, TasksAssumption DEF Fits, Idle, Working
  <2>3. CASE s # Idle
    BY <1>1, <1>2, <1>3, <2>1, <2>3 DEF Fits, Working
  <2>. QED
    BY <2>2, <2>3
<1>8. \A v \in Tasks \ {k} : task'[v] = task[v] /\ (writer' = v => writer = v)
  BY <1>1, <1>2, TasksAssumption
<1>9. stored \subseteq stored'
  BY DEF tables
<1>. QED
  BY <1>5, <1>6, <1>7, <1>8, <1>9, MoveInv

\* An exception, a lost connection or an unpaid vote.
LEMMA FailInv ==
  ASSUME IInv, NEW k \in Tasks, Fail(k)
  PROVE  IInv'
<1>1. task \in [Tasks -> Sessions] /\ writer \in Tasks \cup {None}
  BY DEF IInv, TypeOK
<1>2. PICK s \in {Idle, Down} : task' = [task EXCEPT ![k] = s]
  BY DEF Fail
<1>3. NothingParked \in Parked
  BY DEF NothingParked, Parked
<1>4. TypeOK'
  BY <1>1, <1>2, <1>3, IdleType DEF IInv, TypeOK, Fail, tables
<1>5. StoredWithItsVote'
  BY DEF IInv, StoredWithItsVote, Fail, tables
<1>6. Fits(k)'
  <2>1. task'[k] = s /\ writer' # k
    BY <1>1, <1>2, TasksAssumption DEF Fail
  <2>. QED
    BY <2>1 DEF Fits, Idle, Down, Working
<1>7. \A v \in Tasks \ {k} : task'[v] = task[v] /\ (writer' = v => writer = v)
  BY <1>1, <1>2, TasksAssumption DEF Fail
<1>8. stored \subseteq stored'
  BY DEF Fail, tables
<1>. QED
  BY <1>4, <1>5, <1>6, <1>7, <1>8, MoveInv

-----------------------------------------------------------------------------
(* Commits *)

\* A commit keeps the types, and adds a vote for what is dirty and what is new.
LEMMA CommitTypes ==
  ASSUME IInv, NEW k \in Tasks, NEW mem \in Rows, NEW new \in SUBSET Receipts,
         task[k].target \in Targets, Commit(k, mem, new)
  PROVE  /\ row' \in [Targets -> Rows]
         /\ votes' \in [Receipts -> Nat]
         /\ past' \in [Targets -> {"exact", "raced", "voted"}]
         /\ \A z \in Receipts : votes'[z] > 0 <=> votes[z] > 0 \/ z \in task[k].dirty \cup new
         /\ writer \in {None, k}
<1>. DEFINE s == task[k]
<1>1. /\ s \in Sessions /\ row \in [Targets -> Rows] /\ votes \in [Receipts -> Nat]
      /\ past \in [Targets -> {"exact", "raced", "voted"}]
  BY DEF IInv, TypeOK
<1>2. s.base \in Rows
  BY <1>1 DEF Sessions
<1>3. row' \in [Targets -> Rows]
  <2>1. row' = [row EXCEPT ![s.target] = Overwritten(row[s.target], s.base, mem)]
    BY DEF Commit
  <2>2. Overwritten(row[s.target], s.base, mem) \in Rows
    BY <1>1, <1>2 DEF Overwritten, Rows
  <2>. QED
    BY <1>1, <2>1, <2>2
<1>4. votes' = [z \in Receipts |-> IF z \in s.dirty \cup new THEN votes[z] + 1 ELSE votes[z]]
  BY DEF Commit
<1>5. votes' \in [Receipts -> Nat]
  BY <1>1, <1>4
<1>6. \A z \in Receipts : votes'[z] > 0 <=> votes[z] > 0 \/ z \in s.dirty \cup new
  BY <1>1, <1>4
<1>7. past' \in [Targets -> {"exact", "raced", "voted"}]
  BY <1>1 DEF Commit
<1>. QED
  BY <1>3, <1>5, <1>6, <1>7 DEF Commit, CanWrite

\* What the session has flushed and what it adds is stored, or is stored with it.
LEMMA CommitVotes ==
  ASSUME IInv, NEW k \in Tasks, NEW mem \in Rows, NEW new \in SUBSET Receipts,
         task[k].target \in Targets, Commit(k, mem, new), stored' = stored \cup new
  PROVE  StoredWithItsVote'
<1>1. \A z \in Receipts : votes'[z] > 0 <=> votes[z] > 0 \/ z \in task[k].dirty \cup new
  BY CommitTypes
<1>2. task[k].dirty \subseteq stored
  BY DEF IInv, SessionInv, Fits
<1>. QED
  BY <1>1, <1>2 DEF IInv, StoredWithItsVote

LEMMA StoreProfileInv ==
  ASSUME IInv, NEW k \in Tasks, StoreProfile(k)
  PROVE  IInv'
<1>. DEFINE s == task[k]
            t == [Committed(s, s.mem) EXCEPT !.at = "signer"]
<1>1. /\ s \in Sessions /\ Fits(k) /\ s.at = "profile" /\ s.target \in Targets
      /\ task \in [Tasks -> Sessions] /\ profiles \subseteq Targets
  BY DEF IInv, TypeOK, SessionInv, Fits, StoreProfile, Working
<1>2. s.mem \in Rows /\ s.base \in Rows
  BY <1>1 DEF Sessions
<1>3. Commit(k, s.mem, {}) /\ stored' = stored \cup {} /\ UNCHANGED <<stored, parked>>
  BY DEF StoreProfile
<1>4. /\ row' \in [Targets -> Rows] /\ votes' \in [Receipts -> Nat]
      /\ past' \in [Targets -> {"exact", "raced", "voted"}] /\ writer \in {None, k}
  BY <1>1, <1>2, <1>3, CommitTypes
<1>5. StoredWithItsVote'
  BY <1>1, <1>2, <1>3, CommitVotes
<1>6. /\ t \in Sessions /\ t.at = "signer" /\ t.dirty = {} /\ t.queue = s.queue
      /\ t.target = s.target /\ t.batch = s.batch
  BY <1>1, <1>2 DEF Committed, Sessions, Steps
<1>7. task' = [task EXCEPT ![k] = t] /\ writer' = None /\ profiles' \subseteq Targets
  BY <1>1 DEF StoreProfile
<1>. HIDE DEF t
<1>8. TypeOK'
  BY <1>1, <1>3, <1>4, <1>6, <1>7 DEF IInv, TypeOK
<1>9. Fits(k)'
  BY <1>1, <1>3, <1>6, <1>7, TasksAssumption DEF Fits, Working
<1>10. \A v \in Tasks \ {k} : task'[v] = task[v] /\ (writer' = v => writer = v)
  BY <1>1, <1>7, TasksAssumption
<1>. QED
  BY <1>3, <1>5, <1>8, <1>9, <1>10, MoveInv

LEMMA CreditInv ==
  ASSUME IInv, NEW k \in Tasks, Credit(k)
  PROVE  IInv'
<1>. DEFINE s == task[k]
            z == Head(s.queue)
            mem == Raised(s.mem, z)
            c == Committed(s, mem)
            t == NextOf(c)
<1>1. /\ s \in Sessions /\ Fits(k) /\ s.at = "apply" /\ s.target \in Targets /\ s.queue # <<>>
      /\ task \in [Tasks -> Sessions] /\ stored \subseteq Receipts
  BY DEF IInv, TypeOK, SessionInv, Fits, Credit, Working
<1>2. s.mem \in Rows /\ s.base \in Rows /\ s.queue \in Seq(Receipts)
  BY <1>1 DEF Sessions
<1>3. z \in Receipts
  BY <1>1, <1>2
<1>4. mem \in Rows
  BY <1>2, <1>3, RowTypes
<1>5. Commit(k, mem, {z}) /\ stored' = stored \cup {z} /\ UNCHANGED <<profiles, parked>>
  BY DEF Credit
<1>. HIDE DEF mem, z
<1>6. /\ row' \in [Targets -> Rows] /\ votes' \in [Receipts -> Nat]
      /\ past' \in [Targets -> {"exact", "raced", "voted"}] /\ writer \in {None, k}
  BY <1>1, <1>3, <1>4, <1>5, CommitTypes
<1>7. StoredWithItsVote'
  BY <1>1, <1>3, <1>4, <1>5, CommitVotes
<1>8. /\ c \in Sessions /\ c.dirty = {} /\ c.queue = s.queue /\ c.target = s.target
      /\ c.batch = s.batch
  BY <1>1, <1>4 DEF Committed, Sessions
<1>9. task' = [task EXCEPT ![k] = t] /\ writer' = None
  BY DEF Credit, mem, z
<1>. HIDE DEF c
<1>10. \/ t = Idle
       \/ /\ t \in Sessions /\ t.at = "check" /\ t.queue # <<>> /\ t.batch /\ s.batch
          /\ t.target = s.target /\ t.dirty = {}
  BY <1>1, <1>8, NextOfType
<1>11. t \in Sessions
  BY <1>10, IdleType
<1>. HIDE DEF t
<1>12. TypeOK'
  BY <1>1, <1>3, <1>5, <1>6, <1>9, <1>11 DEF IInv, TypeOK
<1>13. Fits(k)'
  <2>1. task'[k] = t /\ writer' # k
    BY <1>1, <1>9, TasksAssumption
  <2>. QED
    BY <1>1, <1>10, <2>1 DEF Fits, Idle, Working
<1>14. \A v \in Tasks \ {k} : task'[v] = task[v] /\ (writer' = v => writer = v)
  BY <1>1, <1>9, TasksAssumption
<1>. QED
  BY <1>5, <1>7, <1>12, <1>13, <1>14, MoveInv

LEMMA CastVoteInv ==
  ASSUME IInv, NEW k \in Tasks, CastVote(k)
  PROVE  IInv'
<1>1. /\ task[k] \in Sessions /\ Fits(k) /\ task[k].at = "pay" /\ task[k].target \in Targets
      /\ task \in [Tasks -> Sessions]
  BY DEF IInv, TypeOK, SessionInv, Fits, CastVote
<1>2. task[k].mem \in Rows
  BY <1>1 DEF Sessions
<1>3. Commit(k, task[k].mem, {}) /\ stored' = stored \cup {} /\ UNCHANGED <<stored, profiles, writer, parked>>
  BY DEF CastVote
<1>4. /\ row' \in [Targets -> Rows] /\ votes' \in [Receipts -> Nat]
      /\ past' \in [Targets -> {"exact", "raced", "voted"}]
  BY <1>1, <1>2, <1>3, CommitTypes
<1>5. StoredWithItsVote'
  BY <1>1, <1>2, <1>3, CommitVotes
<1>6. task' = [task EXCEPT ![k] = Idle]
  BY DEF CastVote
<1>7. TypeOK'
  BY <1>1, <1>3, <1>4, <1>6, IdleType DEF IInv, TypeOK
<1>8. Fits(k)'
  <2>1. writer # k
    BY <1>1 DEF Fits
  <2>. QED
    BY <1>1, <1>3, <1>6, <2>1 DEF Fits, Idle, Working
<1>9. \A v \in Tasks \ {k} : task'[v] = task[v] /\ (writer' = v => writer = v)
  BY <1>1, <1>3, <1>6
<1>. QED
  BY <1>3, <1>5, <1>7, <1>8, <1>9, MoveInv

LEMMA DuplicateInv ==
  ASSUME IInv, NEW k \in Tasks, Duplicate(k)
  PROVE  IInv'
<1>. DEFINE s == task[k]
            z == Head(s.queue)
            f == [s EXCEPT !.mem = Raised(s.mem, z), !.dirty = s.dirty \cup {z}]
            t == IF k \in Clients THEN [f EXCEPT !.at = "answer"] ELSE NextOf(f)
<1>1. /\ s \in Sessions /\ Fits(k) /\ s.at = "apply" /\ s.target \in Targets /\ s.queue # <<>>
      /\ task \in [Tasks -> Sessions] /\ z \in stored /\ writer \in {None, k}
  BY DEF IInv, TypeOK, SessionInv, Fits, Duplicate, CanWrite, Working
<1>2. s.mem \in Rows /\ s.queue \in Seq(Receipts) /\ s.dirty \subseteq Receipts
  BY <1>1 DEF Sessions
<1>3. z \in Receipts
  BY <1>1, <1>2
<1>4. Raised(s.mem, z) \in Rows
  BY <1>2, <1>3, RowTypes
<1>5. /\ task' = [task EXCEPT ![k] = t]
      /\ writer' = IF t = Idle THEN None ELSE k
      /\ UNCHANGED <<tables, parked, past>>
  BY DEF Duplicate
<1>. HIDE DEF z
<1>6. /\ f \in Sessions /\ f.dirty = s.dirty \cup {z} /\ f.queue = s.queue
      /\ f.target = s.target /\ f.batch = s.batch
  BY <1>1, <1>2, <1>3, <1>4 DEF Sessions
<1>. HIDE DEF f
<1>7. \/ t = Idle
      \/ /\ t \in Sessions /\ t.queue # <<>> /\ t.target = s.target /\ t.dirty = s.dirty \cup {z}
         /\ t.batch = s.batch
         /\ t.at = "answer" \/ (t.at = "check" /\ t.batch)
  <2>1. CASE k \in Clients
    BY <1>1, <1>6, <2>1 DEF Sessions, Steps
  <2>2. CASE k \notin Clients
    <3>1. t = NextOf(f)
      BY <2>2
    <3>2. \/ NextOf(f) = Idle
          \/ /\ NextOf(f) \in Sessions
             /\ NextOf(f).at = "check" /\ NextOf(f).queue # <<>> /\ f.batch /\ NextOf(f).batch
             /\ NextOf(f).target = f.target /\ NextOf(f).dirty = f.dirty
      BY <1>1, <1>6, NextOfType
    <3>3. f.batch \in BOOLEAN /\ (NextOf(f) \in Sessions => NextOf(f).batch \in BOOLEAN)
      BY <1>6 DEF Sessions
    <3>. QED
      BY <1>6, <3>1, <3>2, <3>3
  <2>. QED
    BY <2>1, <2>2
<1>8. t \in Sessions
  BY <1>7, IdleType
<1>. HIDE DEF t
<1>9. TypeOK'
  BY <1>1, <1>5, <1>8 DEF IInv, TypeOK, tables
<1>10. StoredWithItsVote'
  BY <1>5 DEF IInv, StoredWithItsVote, tables
<1>11. Fits(k)'
  <2>1. task'[k] = t /\ UNCHANGED stored
    BY <1>1, <1>5 DEF tables
  <2>2. CASE t = Idle
    BY <1>5, <2>1, <2>2, TasksAssumption DEF Fits, Idle, Working
  <2>3. CASE t # Idle
    <3>1. t.dirty \subseteq stored /\ t.dirty # {}
      BY <1>1, <1>7, <2>3 DEF Fits
    <3>2. t.batch => k \in Relays
      BY <1>1, <1>7, <2>3 DEF Fits
    <3>. QED
      BY <1>1, <1>5, <1>7, <2>1, <2>3, <3>1, <3>2 DEF Fits, Working
  <2>. QED
    BY <2>2, <2>3
<1>12. \A v \in Tasks \ {k} : task'[v] = task[v] /\ (writer' = v => writer = v)
  BY <1>1, <1>5, TasksAssumption
<1>13. stored \subseteq stored'
  BY <1>5 DEF tables
<1>. QED
  BY <1>9, <1>10, <1>11, <1>12, <1>13, MoveInv

-----------------------------------------------------------------------------
(* The other actions *)

LEMMA InitInv ==
  ASSUME Init
  PROVE  IInv
<1>1. NoRow \in Rows /\ NothingParked \in Parked
  BY DEF NoRow, Rows, NothingParked, Parked
<1>2. TypeOK
  BY <1>1, IdleType DEF Init, TypeOK
<1>3. StoredWithItsVote
  BY DEF Init, StoredWithItsVote
<1>4. SessionInv
  BY TasksAssumption DEF Init, SessionInv, Fits, Idle, Down, Working
<1>. QED
  BY <1>2, <1>3, <1>4 DEF IInv

\* What the invariant says of a session that is between two receipts.
LEMMA AtRest ==
  ASSUME IInv, NEW k \in Tasks, task[k].at \in {"idle", "down", "pay", "note", "load"}
  PROVE  task[k].dirty = {} /\ writer # k
  BY DEF IInv, SessionInv, Fits

LEMMA ReceiveInv ==
  ASSUME IInv, NEW k \in Tasks, NEW z \in Receipts, Receive(k, z)
  PROVE  IInv'
<1>. DEFINE s == [Idle EXCEPT !.at = "check", !.target = TargetOf[z], !.queue = <<z>>]
<1>1. <<z>> \in Seq(Receipts) /\ <<z>> # <<>> /\ TargetOf[z] \in Targets
  BY TargetAssumption
<1>2. s \in Sessions
  BY <1>1, IdleType DEF Idle, Sessions, Steps
<1>3. /\ s.queue # <<>> /\ s.target \in Targets /\ s.at = "check" /\ s.dirty = {} /\ ~s.batch
  BY <1>1 DEF Idle
<1>4. task[k].dirty = {} /\ parked \in [Relays -> Parked]
  BY AtRest DEF Receive, IInv, TypeOK
<1>5. task' = [task EXCEPT ![k] = s] /\ parked' = parked /\ UNCHANGED <<tables, writer, past>>
  BY DEF Receive
<1>. HIDE DEF s
<1>. QED
  BY <1>2, <1>3, <1>4, <1>5, SessionStep

\* The task goes to another step of the same receipt.
LEMMA MoveOn ==
  ASSUME IInv, NEW k \in Tasks, task[k].at \in Working,
         NEW at \in {"check", "load", "signer", "profile", "apply"},
         task' = [task EXCEPT ![k] = [task[k] EXCEPT !.at = at]],
         UNCHANGED <<tables, writer, parked, past>>,
         at = "load" => task[k].dirty = {},
         task[k].at # "answer"
  PROVE  IInv'
<1>. DEFINE s == [task[k] EXCEPT !.at = at]
<1>1. task[k] \in Sessions /\ Fits(k) /\ parked \in [Relays -> Parked]
  BY DEF IInv, TypeOK, SessionInv
<1>2. s \in Sessions
  BY <1>1 DEF Sessions, Steps
<1>3. /\ s.queue # <<>> /\ s.target \in Targets /\ s.at = at /\ s.dirty = task[k].dirty
      /\ s.batch => k \in Relays
      /\ s.dirty # {} => s.batch
  BY <1>1 DEF Fits, Sessions
<1>4. task' = [task EXCEPT ![k] = s] /\ parked' = parked /\ UNCHANGED <<tables, writer, past>>
  OBVIOUS
<1>. HIDE DEF s
<1>. QED
  BY <1>1, <1>2, <1>3, <1>4, SessionStep

LEMMA UnknownInv ==
  ASSUME IInv, NEW k \in Tasks, Unknown(k)
  PROVE  IInv'
<1>1. task[k].at = "check" /\ UNCHANGED <<tables, writer, parked, past>>
  BY DEF Unknown
<1>2. CASE task[k].batch
  <2>1. task' = [task EXCEPT ![k] = [task[k] EXCEPT !.at = "signer"]]
    BY <1>2 DEF Unknown
  <2>. QED
    BY <1>1, <2>1, MoveOn DEF Working
<1>3. CASE ~task[k].batch
  <2>1. task' = [task EXCEPT ![k] = [task[k] EXCEPT !.at = "load"]]
    BY <1>3 DEF Unknown
  <2>2. task[k].dirty = {}
    BY <1>1, <1>3 DEF IInv, SessionInv, Fits
  <2>. QED
    BY <1>1, <2>1, <2>2, MoveOn DEF Working
<1>. QED
  BY <1>2, <1>3

LEMMA LoadInv ==
  ASSUME IInv, NEW k \in Tasks, Load(k)
  PROVE  IInv'
<1>. DEFINE at == IF task[k].batch THEN "check" ELSE "signer"
            s == [task[k] EXCEPT !.at = at, !.base = row[task[k].target],
                                 !.mem = row[task[k].target]]
<1>1. /\ task[k] \in Sessions /\ Fits(k) /\ task[k].at = "load" /\ parked \in [Relays -> Parked]
      /\ row \in [Targets -> Rows] /\ task[k].target \in Targets
  BY DEF IInv, TypeOK, SessionInv, Load, Fits, Working
<1>2. s \in Sessions /\ s.at \in {"check", "signer"}
  BY <1>1 DEF Sessions, Steps
<1>3. /\ s.queue # <<>> /\ s.target \in Targets /\ s.dirty = task[k].dirty /\ s.dirty = {}
      /\ s.batch => k \in Relays
  BY <1>1, AtRest DEF Fits, Sessions, Working
<1>4. task' = [task EXCEPT ![k] = s] /\ parked' = parked /\ UNCHANGED <<tables, writer, past>>
  BY DEF Load
<1>. HIDE DEF s
<1>. QED
  BY <1>1, <1>2, <1>3, <1>4, SessionStep

LEMMA TargetArrivesInv ==
  ASSUME IInv, NEW k \in Tasks, NEW t \in Targets, TargetArrives(k, t)
  PROVE  IInv'
<1>. DEFINE s == [Idle EXCEPT !.at = "note", !.batch = TRUE, !.target = t, !.queue = parked[k][t]]
            p == [parked EXCEPT ![k][t] = <<>>]
<1>1. /\ k \in Relays /\ task[k].at = "idle" /\ parked[k][t] # <<>>
      /\ parked \in [Relays -> Parked] /\ task' = [task EXCEPT ![k] = s] /\ parked' = p
      /\ UNCHANGED <<tables, writer, past>>
  BY DEF TargetArrives, IInv, TypeOK
<1>2. parked[k][t] \in Seq(Receipts) /\ p \in [Relays -> Parked]
  BY <1>1 DEF Parked
<1>3. s \in Sessions
  BY <1>2, IdleType DEF Idle, Sessions, Steps
<1>4. s.queue # <<>> /\ s.target \in Targets /\ s.at = "note" /\ s.dirty = {} /\ task[k].dirty = {}
  BY <1>1, AtRest DEF Idle
<1>. HIDE DEF s, p
<1>. QED
  BY <1>1, <1>2, <1>3, <1>4, SessionStep

LEMMA ReadVoteInv ==
  ASSUME IInv, NEW k \in Tasks, NEW t \in Targets, ReadVote(k, t)
  PROVE  IInv'
<1>. DEFINE s == [Idle EXCEPT !.at = "pay", !.target = t, !.base = row[t], !.mem = Lowered(row[t])]
<1>1. row[t] \in Rows
  BY DEF IInv, TypeOK
<1>2. Lowered(row[t]) \in Rows
  <2>1. \A n \in Nat : Floored(n) \in Nat
    BY AmountsAssumption DEF Floored
  <2>. QED
    BY <1>1, <2>1 DEF Lowered, Rows
<1>3. s \in Sessions
  BY <1>1, <1>2, IdleType DEF Idle, Sessions, Steps
<1>4. s.target \in Targets /\ s.at = "pay" /\ s.dirty = {} /\ ~s.batch
  BY DEF Idle
<1>5. task[k].dirty = {} /\ parked \in [Relays -> Parked]
  BY AtRest DEF ReadVote, IInv, TypeOK
<1>6. task' = [task EXCEPT ![k] = s] /\ parked' = parked /\ UNCHANGED <<tables, writer, past>>
  BY DEF ReadVote
<1>. HIDE DEF s
<1>. QED
  BY <1>3, <1>4, <1>5, <1>6, SessionStep DEF Working

LEMMA ConnectInv ==
  ASSUME IInv, NEW k \in Tasks, Connect(k)
  PROVE  IInv'
<1>1. Idle.dirty = {} /\ Idle.at = "idle" /\ ~Idle.batch
  BY DEF Idle
<1>2. task[k].dirty = {} /\ parked \in [Relays -> Parked]
  BY AtRest DEF Connect, IInv, TypeOK
<1>3. task' = [task EXCEPT ![k] = Idle] /\ parked' = parked /\ UNCHANGED <<tables, writer, past>>
  BY DEF Connect
<1>. QED
  BY <1>1, <1>2, <1>3, IdleType, SessionStep DEF Working

LEMMA ParkInv ==
  ASSUME IInv, NEW k \in Tasks, Park(k)
  PROVE  IInv'
<1>1. /\ task[k] \in Sessions /\ Fits(k) /\ task[k].at = "load" /\ k \in Relays
      /\ parked \in [Relays -> Parked]
  BY DEF IInv, TypeOK, SessionInv, Park
<1>2. task[k].target \in Targets /\ task[k].queue # <<>> /\ task[k].queue \in Seq(Receipts)
  BY <1>1 DEF Fits, Working, Sessions
<1>3. Head(task[k].queue) \in Receipts
  BY <1>2
<1>. DEFINE p == [parked EXCEPT ![k][task[k].target] = Append(@, Head(task[k].queue))]
<1>4. p \in [Relays -> Parked]
  BY <1>1, <1>2, <1>3 DEF Parked
<1>5. parked' = parked \/ parked' = p
  BY DEF Park
<1>6. PICK q \in [Relays -> Parked] : parked' = q
  BY <1>1, <1>4, <1>5
<1>. QED
  BY <1>1, <1>6, GoOnInv DEF Park, Working

\* Actions that touch no session.
LEMMA OutsideInv ==
  ASSUME IInv, TypeOK', UNCHANGED <<stored, votes, writer, task>>
  PROVE  IInv'
  BY DEF IInv, StoredWithItsVote, SessionInv, Fits

LEMMA WrongTargetInv ==
  ASSUME IInv, NEW k \in Tasks, NEW t \in Targets, WrongTarget(k, t)
  PROVE  IInv'
<1>1. /\ parked \in [Relays -> Parked] /\ parked' = [parked EXCEPT ![k][t] = <<>>]
      /\ k \in Relays /\ UNCHANGED <<tables, writer, task, past>>
  BY DEF WrongTarget, IInv, TypeOK
<1>2. parked' \in [Relays -> Parked]
  BY <1>1 DEF Parked
<1>3. TypeOK'
  BY <1>1, <1>2 DEF IInv, TypeOK, tables
<1>. QED
  BY <1>1, <1>3, OutsideInv DEF tables

LEMMA ConfirmVoteInv ==
  ASSUME IInv, NEW t \in Targets, ConfirmVote(t)
  PROVE  IInv'
<1>1. row \in [Targets -> Rows] /\ past \in [Targets -> {"exact", "raced", "voted"}]
  BY DEF IInv, TypeOK
<1>2. Lowered(row[t]) \in Rows
  <2>1. \A n \in Nat : Floored(n) \in Nat
    BY AmountsAssumption DEF Floored
  <2>. QED
    BY <1>1, <2>1 DEF Lowered, Rows
<1>3. row' = [row EXCEPT ![t] = Lowered(row[t])] /\ past' = [past EXCEPT ![t] = "voted"]
  BY DEF ConfirmVote
<1>4. TypeOK'
  BY <1>1, <1>2, <1>3 DEF ConfirmVote, IInv, TypeOK
<1>. QED
  BY <1>4, OutsideInv DEF ConfirmVote

LEMMA PostInv ==
  ASSUME IInv, NEW t \in Targets, Post(t)
  PROVE  IInv'
<1>1. [stored |-> TRUE, clank |-> PostSats, ext |-> 0] \in Rows
  BY AmountsAssumption DEF Rows
<1>2. row' \in [Targets -> Rows] /\ profiles' \subseteq Targets
  BY <1>1 DEF Post, IInv, TypeOK
<1>3. TypeOK'
  BY <1>2 DEF Post, IInv, TypeOK
<1>. QED
  BY <1>3, OutsideInv DEF Post

LEMMA StoreNoteInv ==
  ASSUME IInv, NEW k \in Tasks, StoreNote(k)
  PROVE  IInv'
<1>. DEFINE s == [task[k] EXCEPT !.at = "load"]
<1>1. /\ task[k] \in Sessions /\ Fits(k) /\ task[k].at = "note" /\ task[k].target \in Targets
      /\ task \in [Tasks -> Sessions] /\ row \in [Targets -> Rows]
  BY DEF IInv, TypeOK, SessionInv, StoreNote, Fits, Working
<1>2. s \in Sessions
  BY <1>1 DEF Sessions, Steps
<1>3. /\ s.queue = task[k].queue /\ s.target = task[k].target /\ s.at = "load" /\ s.dirty = {}
      /\ s.batch = task[k].batch /\ s.queue # <<>> /\ writer # k
  BY <1>1, AtRest DEF Sessions, Fits, Working
<1>4. /\ task' = [task EXCEPT ![k] = s]
      /\ UNCHANGED <<stored, votes, profiles, writer, parked, past>>
  BY DEF StoreNote
<1>5. row' \in [Targets -> Rows]
  <2>1. [NoRow EXCEPT !.stored = TRUE] \in Rows
    BY DEF NoRow, Rows
  <2>. QED
    BY <1>1, <2>1 DEF StoreNote
<1>. HIDE DEF s
<1>6. TypeOK'
  BY <1>1, <1>2, <1>4, <1>5 DEF IInv, TypeOK
<1>7. StoredWithItsVote'
  BY <1>4 DEF IInv, StoredWithItsVote
<1>8. Fits(k)'
  BY <1>1, <1>3, <1>4 DEF Fits, Working
<1>9. \A v \in Tasks \ {k} : task'[v] = task[v] /\ (writer' = v => writer = v)
  BY <1>1, <1>4
<1>. QED
  BY <1>4, <1>6, <1>7, <1>8, <1>9, MoveInv

LEMMA CrashInv ==
  ASSUME IInv, Crash
  PROVE  IInv'
<1>1. /\ task' = [k \in Tasks |-> IF k \in Relays THEN Down ELSE Idle]
      /\ parked' = [k \in Relays |-> NothingParked] /\ writer' = None
      /\ UNCHANGED <<tables, past>>
  BY DEF Crash
<1>2. NothingParked \in Parked
  BY DEF NothingParked, Parked
<1>3. TypeOK'
  BY <1>1, <1>2, IdleType DEF IInv, TypeOK, tables
<1>4. StoredWithItsVote'
  BY <1>1 DEF IInv, StoredWithItsVote, tables
<1>5. SessionInv'
  BY <1>1, TasksAssumption DEF SessionInv, Fits, Idle, Down, Working
<1>. QED
  BY <1>3, <1>4, <1>5 DEF IInv

-----------------------------------------------------------------------------
(* Every step *)

LEMMA StepInv ==
  ASSUME IInv, NEW k \in Tasks, Step(k)
  PROVE  IInv'
<1>1. parked \in [Relays -> Parked] /\ task[k].at \in Steps
  BY DEF IInv, TypeOK, Sessions
<1>2. ASSUME task[k].at \in Working, GoOn(k, task[k]), UNCHANGED <<tables, parked, past>>
      PROVE  IInv'
  BY <1>1, <1>2, GoOnInv
<1>3. CASE Known(k)
  BY <1>2, <1>3 DEF Known, Working
<1>4. CASE RefuseStranger(k) \/ Refuse(k) \/ Answer(k)
  BY <1>2, <1>4 DEF RefuseStranger, Refuse, Answer, Working
<1>5. CASE Unknown(k)
  BY <1>5, UnknownInv
<1>6. CASE Load(k)
  BY <1>6, LoadInv
<1>7. CASE Park(k)
  BY <1>7, ParkInv
<1>8. CASE Accept(k)
  BY <1>8, MoveOn DEF Accept, Working
<1>9. CASE FetchProfile(k)
  BY <1>9, MoveOn DEF FetchProfile, Working
<1>10. CASE StoreProfile(k)
  BY <1>10, StoreProfileInv
<1>11. CASE ProfileRace(k)
  <2>1. CASE Fail(k)
    BY <2>1, FailInv
  <2>2. CASE GoOn(k, task[k]) /\ UNCHANGED <<tables, parked, past>>
    BY <1>2, <1>11, <2>2 DEF ProfileRace, Working
  <2>. QED
    BY <1>11, <2>1, <2>2 DEF ProfileRace
<1>12. CASE Credit(k)
  BY <1>12, CreditInv
<1>13. CASE Duplicate(k)
  BY <1>13, DuplicateInv
<1>14. CASE StoreNote(k)
  BY <1>14, StoreNoteInv
<1>15. CASE CastVote(k)
  BY <1>15, CastVoteInv
<1>16. CASE DropVote(k) \/ LockTimeout(k)
  BY <1>16, FailInv DEF DropVote, LockTimeout
<1>. QED
  BY <1>3, <1>4, <1>5, <1>6, <1>7, <1>8, <1>9, <1>10, <1>11, <1>12, <1>13, <1>14, <1>15, <1>16
  DEF Step

LEMMA EnvironmentInv ==
  ASSUME IInv, Environment
  PROVE  IInv'
<1>1. CASE \E k \in Tasks, z \in Receipts : Receive(k, z)
  BY <1>1, ReceiveInv
<1>2. CASE \E k \in Tasks, t \in Targets : TargetArrives(k, t) \/ WrongTarget(k, t) \/ ReadVote(k, t)
  BY <1>2, TargetArrivesInv, WrongTargetInv, ReadVoteInv
<1>3. CASE \E k \in Tasks : Connect(k) \/ Disconnect(k)
  BY <1>3, ConnectInv, FailInv DEF Disconnect
<1>4. CASE \E t \in Targets : ConfirmVote(t) \/ Post(t)
  BY <1>4, ConfirmVoteInv, PostInv
<1>5. CASE Crash
  BY <1>5, CrashInv
<1>. QED
  BY <1>1, <1>2, <1>3, <1>4, <1>5 DEF Environment

LEMMA NextInv == IInv /\ [Next]_vars => IInv'
<1>. SUFFICES ASSUME IInv, [Next]_vars
              PROVE  IInv'
  OBVIOUS
<1>1. CASE Environment
  BY <1>1, EnvironmentInv
<1>2. CASE \E k \in Tasks : Step(k)
  BY <1>2, StepInv
<1>3. CASE UNCHANGED vars
  BY <1>3 DEF vars, tables, IInv, TypeOK, StoredWithItsVote, SessionInv, Fits
<1>. QED
  BY <1>1, <1>2, <1>3 DEF Next

\* Sessions are always as Fits says: a session holds uncommitted credits only while its
\* handler runs, only of receipts that are stored, and only then the write lock.
THEOREM Always == Spec => []IInv
<1>. QED
  BY InitInv, NextInv, PTL DEF Spec

-----------------------------------------------------------------------------
(* The properties *)

\* Every variable keeps its type; tallies stay natural numbers under any votes.
THEOREM TypeCorrect == Spec => []TypeOK
<1>1. IInv => TypeOK
  BY DEF IInv
<1>. QED
  BY <1>1, Always, PTL

\* A receipt is stored exactly when its vote is: no failure, duplicate or late commit of an
\* ingest batch separates the two.
THEOREM VoteWithReceipt == Spec => []StoredWithItsVote
<1>1. IInv => StoredWithItsVote
  BY DEF IInv
<1>. QED
  BY <1>1, Always, PTL

\* The write lock is kept across an await only by a running handler with an uncommitted
\* duplicate.
THEOREM LockRarely == Spec => []LockOnlyOfDuplicates
<1>1. IInv => LockOnlyOfDuplicates
  BY DEF IInv, SessionInv, Fits, LockOnlyOfDuplicates
<1>. QED
  BY <1>1, Always, PTL

\* A second vote for a receipt comes from a commit with that receipt among its uncommitted
\* duplicates, and such a commit is an ingest batch's.
LEMMA CommitRepeats ==
  ASSUME IInv, NEW k \in Tasks, task[k].at \in {"profile", "apply"}, NEW z \in Receipts,
         z \in task[k].dirty
  PROVE  \E q \in Relays : task[q].batch /\ z \in task[q].dirty
  BY DEF IInv, SessionInv, Fits

LEMMA VotesOfStep ==
  ASSUME IInv, NEW k \in Tasks, Step(k), NEW z \in Receipts, votes'[z] > votes[z], votes[z] > 0
  PROVE  \E q \in Relays : task[q].batch /\ z \in task[q].dirty
<1>1. votes \in [Receipts -> Nat] /\ stored \subseteq Receipts /\ Fits(k) /\ task[k] \in Sessions
  BY DEF IInv, TypeOK, SessionInv
<1>2. votes' # votes
  BY <1>1
<1>3. CASE StoreProfile(k)
  <2>1. task[k].at = "profile" /\ Commit(k, task[k].mem, {})
    BY <1>3 DEF StoreProfile
  <2>2. z \in task[k].dirty
    BY <1>1, <2>1 DEF Commit
  <2>. QED
    BY <2>1, <2>2, CommitRepeats
<1>4. CASE Credit(k)
  <2>. DEFINE h == Head(task[k].queue)
  <2>1. task[k].at = "apply" /\ h \notin stored /\ Commit(k, Raised(task[k].mem, h), {h})
    BY <1>4 DEF Credit
  <2>2. z \in stored
    BY DEF IInv, StoredWithItsVote
  <2>. HIDE DEF h
  <2>3. z \in task[k].dirty
    BY <1>1, <2>1, <2>2 DEF Commit
  <2>. QED
    BY <2>1, <2>3, CommitRepeats
<1>5. CASE CastVote(k)
  <2>1. task[k].at = "pay" /\ Commit(k, task[k].mem, {})
    BY <1>5 DEF CastVote
  <2>2. task[k].dirty = {}
    BY <2>1, AtRest
  <2>. QED
    BY <1>1, <2>1, <2>2 DEF Commit
<1>. QED
  BY <1>2, <1>3, <1>4, <1>5
  DEF Step, Known, Unknown, Load, RefuseStranger, Park, Refuse, Accept, FetchProfile,
      ProfileRace, Duplicate, Answer, StoreNote, DropVote, LockTimeout, Fail, tables

\* No step but the commit of an ingest batch with an uncommitted duplicate gives a receipt a
\* second vote.
THEOREM RepeatsAreBatches == Spec => OnlyBatchesRepeatVotes
<1>1. IInv /\ [Next]_vars =>
        [\A z \in Receipts :
           votes'[z] > votes[z] /\ votes[z] > 0 =>
             \E k \in Relays : task[k].batch /\ z \in task[k].dirty]_vars
  <2>. SUFFICES ASSUME IInv, Next, NEW z \in Receipts, votes'[z] > votes[z], votes[z] > 0
                PROVE  \E k \in Relays : task[k].batch /\ z \in task[k].dirty
    BY DEF vars
  <2>1. CASE Environment
    <3>1. votes' = votes
      BY <2>1 DEF Environment, Receive, TargetArrives, WrongTarget, ReadVote, Connect,
                  Disconnect, Fail, ConfirmVote, Post, Crash, tables
    <3>2. votes[z] \in Nat
      BY DEF IInv, TypeOK
    <3>. QED
      BY <3>1, <3>2
  <2>2. CASE \E k \in Tasks : Step(k)
    BY <2>2, VotesOfStep
  <2>. QED
    BY <2>1, <2>2 DEF Next
<1>. QED
  BY <1>1, Always, PTL DEF Spec, OnlyBatchesRepeatVotes

=============================================================================
