-------------------------- MODULE ProfileFetchProofs ------------------------
(***************************************************************************)
(* Theorems of EventStore and of ProfileFetch, for any number of callers   *)
(* and versions: what store_event does to the events of an author, locked  *)
(* or not; that ProfileFetch implements EventStore, whose theorems it      *)
(* inherits; and that GET /profile does not go back to an older profile.   *)
(***************************************************************************)
EXTENDS ProfileFetch, TLAPS


\* A version that is to be deleted is older than the one that replaces it.
OldIsOlder ==
  \A w \in Writers :
    /\ task[w].at \in {"get", "select", "commit", "done"} => task[w].event \in Versions
    /\ task[w].at \in {"get", "select"} => task[w].old = None
    /\ task[w].at = "commit" /\ task[w].old # None =>
         <<task[w].event, task[w].old>> \in Supersedes

\* A paid route holds the lock until its insert, so what it read is what is stored.
PaidReadsLocked ==
  \A w \in Writers :
    task[w].caller = "paid" =>
      /\ task[w].at \in {"get", "select", "commit"} => writer = w
      /\ task[w].at = "commit" => rows \subseteq {task[w].old}

IInv == TypeOK /\ OldIsOlder /\ SuccessIsKept /\ PaidReadsLocked

-----------------------------------------------------------------------------
(* The rows *)

\* Only Insert changes the rows, and what it deletes is older than what it adds.
LEMMA KeptStays ==
  ASSUME TypeOK, OldIsOlder, [Next]_vars
  PROVE  \A e \in Versions : Kept(e) => Kept(e)'
<1>1. CASE UNCHANGED rows
  BY <1>1 DEF Kept
<1>2. ASSUME NEW w \in Writers, Insert(w)
      PROVE  \A e \in Versions : Kept(e) => Kept(e)'
  <2>. DEFINE n == task[w].event
              o == task[w].old
  <2>1. rows' = (rows \ {o}) \cup {n}
    BY <1>2 DEF Insert
  <2>2. n \in Versions /\ (o # None => <<n, o>> \in Supersedes)
    BY <1>2 DEF Insert, OldIsOlder
  <2>3. \A m \in rows : m \in Versions
    BY DEF TypeOK
  <2>4. ASSUME NEW e \in Versions, e \in rows
        PROVE  Kept(e)'
    <3>1. CASE e = o
      BY <3>1, <2>1, <2>2, NoneAssumption DEF Kept
    <3>2. CASE e # o
      BY <3>2, <2>1, <2>4 DEF Kept
    <3>. QED
      BY <3>1, <3>2
  <2>5. ASSUME NEW e \in Versions, NEW m \in rows, <<m, e>> \in Supersedes
        PROVE  Kept(e)'
    <3>1. CASE m = o
      <4>1. o \in Versions /\ o # None
        BY <3>1, <2>3, NoneAssumption
      <4>2. <<n, e>> \in Supersedes
        BY <4>1, <3>1, <2>2, <2>5, SupersedesAssumption
      <4>. QED
        BY <4>2, <2>1 DEF Kept
    <3>2. CASE m # o
      BY <3>2, <2>1, <2>5 DEF Kept
    <3>. QED
      BY <3>1, <3>2
  <2>. QED
    BY <2>4, <2>5 DEF Kept
<1>3. ASSUME NEW w \in Writers, Step(w), ~Insert(w)
      PROVE  UNCHANGED rows
  BY <1>3 DEF Step, GetHit, GetMiss, SelectNone, SelectOld, SelectNewer, SelectRaises,
              InsertRace, LockTimeout, Finish
<1>4. ASSUME NEW w \in Writers, NEW caller \in Callers, NEW e \in Versions, Begin(w, caller, e)
      PROVE  UNCHANGED rows
  BY <1>4 DEF Begin
<1>5. ASSUME Crash
      PROVE  UNCHANGED rows
  BY <1>5 DEF Crash
<1>6. ASSUME UNCHANGED vars
      PROVE  UNCHANGED rows
  BY <1>6 DEF vars
<1>. QED
  BY <1>1, <1>2, <1>3, <1>4, <1>5, <1>6 DEF Next

-----------------------------------------------------------------------------
(* The invariant *)

LEMMA InitInv == Init => IInv
  BY DEF Init, IInv, TypeOK, OldIsOlder, SuccessIsKept, PaidReadsLocked, Tasks, Steps, Idle,
         CallerNames

\* What the other conjuncts say of one writer, so that a step is looked at writer by writer.
Fits(w) ==
  /\ task[w].at \in {"get", "select", "commit", "done"} => task[w].event \in Versions
  /\ task[w].at \in {"get", "select"} => task[w].old = None
  /\ task[w].at = "commit" /\ task[w].old # None =>
       <<task[w].event, task[w].old>> \in Supersedes
  /\ task[w].at = "done" => Kept(task[w].event)
  /\ task[w].caller = "paid" =>
       /\ task[w].at \in {"get", "select", "commit"} => writer = w
       /\ task[w].at = "commit" => rows \subseteq {task[w].old}

LEMMA FitsAll == IInv <=> TypeOK /\ \A w \in Writers : Fits(w)
  BY DEF IInv, OldIsOlder, SuccessIsKept, PaidReadsLocked, Fits

LEMMA FitsAllNext == IInv' <=> TypeOK' /\ \A w \in Writers : Fits(w)'
  BY DEF IInv, OldIsOlder, SuccessIsKept, PaidReadsLocked, Fits

\* A writer that does not move still fits, unless the lock or the rows change under it.
LEMMA OthersFit ==
  ASSUME TypeOK, NEW v \in Writers, Fits(v), UNCHANGED task[v],
         \A e \in Versions : Kept(e) => Kept(e)',
         writer = v => UNCHANGED <<rows, writer>>
  PROVE  Fits(v)'
<1>1. task[v].at \in {"get", "select", "commit"} /\ task[v].caller = "paid" =>
        UNCHANGED <<rows, writer>>
  BY DEF Fits
<1>2. task'[v] = task[v]
  OBVIOUS
<1>. QED
  BY <1>1, <1>2 DEF Fits

\* A session closes without touching the rows.
LEMMA CloseInv ==
  ASSUME IInv, NEW w \in Writers, Close(w), UNCHANGED rows
  PROVE  IInv'
<1>1. TypeOK'
  BY DEF IInv, TypeOK, Close, Tasks, Steps, CallerNames, Idle
<1>2. ASSUME NEW v \in Writers
      PROVE  Fits(v)'
  <2>1. CASE v = w
    BY <2>1 DEF IInv, TypeOK, Close, Idle, Fits
  <2>2. CASE v # w
    <3>1. Fits(v)
      BY FitsAll
    <3>2. UNCHANGED task[v] /\ (writer = v => UNCHANGED <<rows, writer>>)
      BY <2>2 DEF Close, IInv, TypeOK
    <3>3. \A e \in Versions : Kept(e) => Kept(e)'
      BY DEF Kept
    <3>. QED
      BY <3>1, <3>2, <3>3, OthersFit DEF IInv
  <2>. QED
    BY <2>1, <2>2
<1>. QED
  BY <1>1, <1>2, FitsAllNext

\* One writer moves within store_event.
LEMMA MoveInv ==
  ASSUME IInv, [Next]_vars, NEW w \in Writers, TypeOK', Fits(w)',
         \A v \in Writers \ {w} : UNCHANGED task[v] /\ (writer = v => UNCHANGED <<rows, writer>>)
  PROVE  IInv'
<1>1. ASSUME NEW v \in Writers, v # w
      PROVE  Fits(v)'
  <2>1. Fits(v)
    BY FitsAll
  <2>2. \A e \in Versions : Kept(e) => Kept(e)'
    BY KeptStays DEF IInv
  <2>. QED
    BY <1>1, <2>1, <2>2, OthersFit DEF IInv
<1>. QED
  BY <1>1, FitsAllNext

LEMMA BeginInv ==
  ASSUME IInv, NEW w \in Writers, NEW caller \in Callers, NEW e \in Versions, Begin(w, caller, e)
  PROVE  IInv'
<1>1. TypeOK'
  BY CallersAssumption DEF IInv, TypeOK, Begin, LockFirst, Tasks, Steps, CallerNames
<1>2. Fits(w)'
  BY DEF IInv, TypeOK, Begin, LockFirst, Fits
<1>3. \A v \in Writers \ {w} : UNCHANGED task[v] /\ (writer = v => UNCHANGED <<rows, writer>>)
  BY NoneAssumption DEF IInv, TypeOK, Begin, LockFirst
<1>4. [Next]_vars
  BY DEF Next
<1>. QED
  BY <1>1, <1>2, <1>3, <1>4, MoveInv

LEMMA GetInv ==
  ASSUME IInv, NEW w \in Writers, GetHit(w) \/ GetMiss(w)
  PROVE  IInv'
<1>1. TypeOK'
  BY DEF IInv, TypeOK, GetHit, GetMiss, Goto, Tasks, Steps
<1>2. Fits(w)'
  <2>1. Fits(w) /\ task \in [Writers -> Tasks]
    BY FitsAll DEF IInv, TypeOK
  <2>2. CASE GetHit(w)
    BY <2>1, <2>2 DEF GetHit, Goto, Fits, Kept, Tasks
  <2>3. CASE GetMiss(w)
    BY <2>1, <2>3 DEF GetMiss, Goto, Fits, Tasks
  <2>. QED
    BY <2>2, <2>3
<1>3. \A v \in Writers \ {w} : UNCHANGED task[v] /\ UNCHANGED <<rows, writer>>
  BY DEF IInv, TypeOK, GetHit, GetMiss, Goto
<1>4. [Next]_vars
  BY DEF Next, Step
<1>. QED
  BY <1>1, <1>2, <1>3, <1>4, MoveInv

LEMMA SelectInv ==
  ASSUME IInv, NEW w \in Writers, SelectNone(w) \/ SelectOld(w) \/ SelectNewer(w)
  PROVE  IInv'
<1>1. TypeOK'
  <2>1. task \in [Writers -> Tasks] /\ rows \subseteq Versions /\ UNCHANGED <<rows, writer>>
    BY DEF IInv, TypeOK, SelectNone, SelectOld, SelectNewer
  <2>2. task' \in [Writers -> Tasks]
    <3>1. ASSUME NEW o \in rows, task' = [task EXCEPT ![w].at = "commit", ![w].old = o]
          PROVE  task' \in [Writers -> Tasks]
      BY <2>1, <3>1 DEF Tasks, Steps
    <3>2. ASSUME NEW step \in Steps, Goto(w, step)
          PROVE  task' \in [Writers -> Tasks]
      BY <2>1, <3>2 DEF Tasks, Goto
    <3>. QED
      BY <3>1, <3>2 DEF SelectNone, SelectOld, SelectNewer, Steps
  <2>. QED
    BY <2>1, <2>2 DEF IInv, TypeOK
<1>2. Fits(w)'
  <2>1. Fits(w) /\ task \in [Writers -> Tasks] /\ rows \subseteq Versions
    BY FitsAll DEF IInv, TypeOK
  <2>2. CASE SelectNone(w)
    BY <2>1, <2>2 DEF SelectNone, Goto, Fits, Tasks
  <2>3. CASE SelectOld(w)
    <3>1. PICK o \in rows :
            /\ <<task[w].event, o>> \in Supersedes
            /\ task' = [task EXCEPT ![w].at = "commit", ![w].old = o]
      BY <2>3 DEF SelectOld
    <3>2. task'[w] = [task[w] EXCEPT !.at = "commit", !.old = o]
      BY <2>1, <3>1
    <3>3. rows \subseteq {o} /\ task[w].at = "select" /\ UNCHANGED <<rows, writer>>
      BY <2>3 DEF SelectOld, AtMostOne
    <3>. QED
      BY <2>1, <3>1, <3>2, <3>3 DEF Fits, Tasks
  <2>4. CASE SelectNewer(w)
    BY <2>1, <2>4 DEF SelectNewer, Goto, Fits, Tasks, Kept
  <2>. QED
    BY <2>2, <2>3, <2>4
<1>3. \A v \in Writers \ {w} : UNCHANGED task[v] /\ UNCHANGED <<rows, writer>>
  BY DEF IInv, TypeOK, SelectNone, SelectOld, SelectNewer, Goto
<1>4. [Next]_vars
  BY DEF Next, Step
<1>. QED
  BY <1>1, <1>2, <1>3, <1>4, MoveInv

LEMMA CommitInv ==
  ASSUME IInv, NEW w \in Writers, Insert(w) \/ InsertRace(w)
  PROVE  IInv'
<1>1. task[w].at = "commit" /\ task[w].event \in Versions
  BY FitsAll DEF Insert, InsertRace, Fits
<1>2. TypeOK'
  BY <1>1 DEF IInv, TypeOK, Insert, InsertRace, Goto, Tasks, Steps
<1>3. Fits(w)'
  <2>1. task' = [task EXCEPT ![w].at = "done"] /\ task[w].event \in rows'
    BY DEF Insert, InsertRace, Goto
  <2>. QED
    BY <1>1, <2>1 DEF IInv, TypeOK, Fits, Kept, Tasks
<1>4. \A v \in Writers \ {w} : UNCHANGED task[v] /\ writer # v
  BY NoneAssumption DEF IInv, TypeOK, Insert, InsertRace, Goto
<1>5. [Next]_vars
  BY DEF Next, Step
<1>. QED
  BY <1>2, <1>3, <1>4, <1>5, MoveInv

LEMMA StepInv == IInv /\ [Next]_vars => IInv'
<1>. SUFFICES ASSUME IInv, [Next]_vars
             PROVE  IInv'
  OBVIOUS
<1>1. ASSUME NEW w \in Writers, Step(w)
      PROVE  IInv'
  <2>1. CASE GetHit(w) \/ GetMiss(w)
    BY <2>1, GetInv
  <2>2. CASE SelectNone(w) \/ SelectOld(w) \/ SelectNewer(w)
    BY <2>2, SelectInv
  <2>3. CASE Insert(w) \/ InsertRace(w)
    BY <2>3, CommitInv
  <2>4. CASE SelectRaises(w) \/ LockTimeout(w) \/ Finish(w)
    BY <2>4, CloseInv DEF SelectRaises, LockTimeout, Finish
  <2>. QED
    BY <1>1, <2>1, <2>2, <2>3, <2>4 DEF Step
<1>2. ASSUME NEW w \in Writers, NEW caller \in Callers, NEW e \in Versions, Begin(w, caller, e)
      PROVE  IInv'
  BY <1>2, BeginInv
<1>3. CASE Crash
  BY <1>3 DEF IInv, TypeOK, OldIsOlder, SuccessIsKept, PaidReadsLocked, Crash, Tasks, Steps, Idle,
              CallerNames
<1>4. CASE UNCHANGED vars
  BY <1>4 DEF IInv, TypeOK, OldIsOlder, SuccessIsKept, PaidReadsLocked, vars, Kept
<1>. QED
  BY <1>1, <1>2, <1>3, <1>4 DEF Next

LEMMA AlwaysInv == Spec => []IInv
  BY InitInv, StepInv, PTL DEF Spec

-----------------------------------------------------------------------------
(* The theorems *)

\* Every variable keeps its type.
THEOREM TypeCorrect == Spec => []TypeOK
<1>1. IInv => TypeOK
  BY DEF IInv
<1>. QED
  BY <1>1, AlwaysInv, PTL

\* store_event's success, the idempotent one of a lost race included, means that the event or a
\* later one of its author and kind is stored.
THEOREM Success == Spec => []SuccessIsKept
<1>1. IInv => SuccessIsKept
  BY DEF IInv
<1>. QED
  BY <1>1, AlwaysInv, PTL

\* No race between callers, locked or not, loses the latest version.
THEOREM Latest == Spec => LatestStays
<1>1. IInv /\ [Next]_vars => [\A e \in Versions : Kept(e) => Kept(e)']_vars
  BY KeptStays DEF IInv
<1>. QED
  BY <1>1, AlwaysInv, PTL DEF Spec, LatestStays

\* A paid route, which reads under the lock, never adds a second row.
THEOREM PaidSafe == Spec => PaidNeverSplits
<1>1. ASSUME IInv, [Next]_vars, NEW w \in Writers,
             task[w].caller = "paid", task[w].at = "commit", task'[w].at = "done", AtMostOne
      PROVE  AtMostOne'
  <2>1. writer = w /\ rows \subseteq {task[w].old} /\ task \in [Writers -> Tasks]
    BY <1>1 DEF IInv, PaidReadsLocked, TypeOK
  <2>2. PICK v \in Writers : Step(v) \/ \E caller \in Callers, e \in Versions : Begin(v, caller, e)
    <3>1. ~Crash
      BY <1>1 DEF Crash, Idle
    <3>2. ~UNCHANGED vars
      BY <1>1 DEF vars
    <3>. QED
      BY <1>1, <3>1, <3>2 DEF Next
  <2>3. v = w
    <3>. SUFFICES ASSUME v # w
                 PROVE  task'[w] = task[w]
      BY <1>1
    <3>. QED
      BY <2>1, <2>2 DEF Step, GetHit, GetMiss, SelectNone, SelectOld, SelectNewer, SelectRaises,
         Insert, InsertRace, LockTimeout, Finish, Begin, Goto, Close
  <2>4. Insert(w)
    BY <1>1, <2>1, <2>2, <2>3, NoneAssumption DEF Step, GetHit, GetMiss, SelectNone, SelectOld,
       SelectNewer, SelectRaises, InsertRace, LockTimeout, Finish, Begin
  <2>. QED
    BY <2>1, <2>4 DEF Insert, AtMostOne
<1>2. IInv /\ [Next]_vars =>
        [\A w \in Writers :
           task[w].caller = "paid" /\ task[w].at = "commit" /\ task'[w].at = "done" /\ AtMostOne
             => AtMostOne']_vars
  BY <1>1
<1>. QED
  BY <1>2, AlwaysInv, PTL DEF Spec, PaidNeverSplits

-----------------------------------------------------------------------------
(* The requests that fetch a profile *)

\* A request that waits is one of the two callers that fetch.
AskersFetch == \A w \in Writers : asking[w].on => asking[w].caller \in {"profile", "ingest"}

\* What was read or answered is still stored, or a later version is.
SeenKept == \A w \in Writers : asking[w].on /\ asking[w].seen # None => Kept(asking[w].seen)

ShownKept == shown # None => Kept(shown)

FInv == FetchTypeOK /\ IInv /\ AskersFetch /\ SeenKept /\ ShownKept

-----------------------------------------------------------------------------
(* Implementation of EventStore *)

LEMMA AskStores == \A w \in Writers : Ask(w) \/ FetchFails(w) => UNCHANGED vars
  BY DEF Ask, AskMissing, AskRefresh, AskLud16, AnswerLocal, AnswerMiss, FetchFails, Wait, allVars

LEMMA ServeStores == \A w \in Writers : Serve(w) => Step(w)
  BY DEF Serve, StoreStep, StoreRaises, FinishFetch, Step

LEMMA FetchedStores ==
  ASSUME AskersFetch, NEW w \in Writers, NEW e \in Versions, Fetched(w, e)
  PROVE  Next
<1>1. asking[w].caller \in Callers
  BY FetchCallersAssumption DEF AskersFetch, Fetched
<1>. QED
  BY <1>1 DEF Fetched, Next

\* A fetch ends where a store begins; every other step of a fetch leaves the store alone.
LEMMA StepStores == AskersFetch /\ [FetchNext]_allVars => [Next]_vars
<1>. SUFFICES ASSUME AskersFetch, [FetchNext]_allVars
             PROVE  [Next]_vars
  OBVIOUS
<1>1. ASSUME NEW w \in Writers, Ask(w) \/ FetchFails(w)
      PROVE  UNCHANGED vars
  BY <1>1, AskStores
<1>2. ASSUME NEW w \in Writers, Serve(w)
      PROVE  Next
  BY <1>2, ServeStores DEF Next
<1>3. ASSUME NEW w \in Writers, NEW e \in Versions, Fetched(w, e)
      PROVE  Next
  BY <1>3, FetchedStores
<1>4. ASSUME NEW w \in Writers, NEW caller \in Callers, NEW e \in Versions,
             BeginOther(w, caller, e)
      PROVE  Next
  BY <1>4 DEF BeginOther, Next
<1>5. CASE Tick
  BY <1>5 DEF Tick
<1>6. CASE Restart
  BY <1>6 DEF Restart, Next
<1>7. ASSUME NEW e \in Versions, PublishOutside(e)
      PROVE  UNCHANGED vars
  BY <1>7 DEF PublishOutside
<1>8. CASE UNCHANGED allVars
  BY <1>8 DEF allVars
<1>. QED
  BY <1>1, <1>2, <1>3, <1>4, <1>5, <1>6, <1>7, <1>8 DEF FetchNext

-----------------------------------------------------------------------------
(* The invariant *)

LEMMA LocalRowStored == TypeOK /\ rows # {} => LocalRow \in rows /\ LocalRow \in Versions
  BY DEF LocalRow, TypeOK

LEMMA LocalRowType == TypeOK => LocalRow \in Versions \cup {None}
  BY DEF LocalRow, TypeOK

LEMMA FetchInitInv == FetchInit => FInv
<1>. SUFFICES ASSUME FetchInit
             PROVE  FInv
  OBVIOUS
<1>1. IInv
  BY InitInv DEF FetchInit
<1>2. FetchTypeOK
  BY <1>1, MissTTLAssumption, MaxCrashesAssumption
     DEF IInv, FetchInit, FetchTypeOK, Requests, NotAsking
<1>3. AskersFetch /\ SeenKept /\ ShownKept
  BY DEF FetchInit, AskersFetch, SeenKept, ShownKept, NotAsking
<1>. QED
  BY <1>1, <1>2, <1>3 DEF FInv

\* The requests that wait after a step of one of them.
LEMMA AskingSet ==
  ASSUME FInv, NEW w \in Writers, NEW r \in Requests, asking' = [asking EXCEPT ![w] = r],
         r.on => r.caller \in {"profile", "ingest"} /\ (r.seen # None => Kept(r.seen)'),
         \A e \in Versions : Kept(e) => Kept(e)'
  PROVE  asking' \in [Writers -> Requests] /\ AskersFetch' /\ SeenKept'
<1>1. asking \in [Writers -> Requests]
  BY DEF FInv, FetchTypeOK
<1>2. asking' \in [Writers -> Requests]
  BY <1>1
<1>3. AskersFetch'
  BY <1>1 DEF FInv, AskersFetch
<1>4. ASSUME NEW v \in Writers, asking'[v].on, asking'[v].seen # None
      PROVE  Kept(asking[v].seen)'
  <2>1. CASE v = w
    <3>1. asking'[v] = r
      BY <1>1, <2>1
    <3>2. r.on /\ r.seen # None
      BY <1>4, <3>1
    <3>. QED
      BY <3>1, <3>2 DEF Kept
  <2>2. CASE v # w
    <3>1. asking'[v] = asking[v] /\ asking[v] \in Requests
      BY <1>1, <2>2
    <3>2. asking[v].seen \in Versions /\ Kept(asking[v].seen)
      BY <1>4, <3>1 DEF FInv, SeenKept, Requests
    <3>3. Kept(asking[v].seen) => Kept(asking[v].seen)'
      BY <3>1, <3>2 DEF Kept
    <3>. QED
      BY <3>2, <3>3
  <2>. QED
    BY <2>1, <2>2
<1>. QED
  BY <1>2, <1>3, <1>4 DEF SeenKept

\* What EventStore's theorems say of a step.
LEMMA StoreSide ==
  ASSUME FInv, [FetchNext]_allVars
  PROVE  IInv' /\ \A e \in Versions : Kept(e) => Kept(e)'
<1>1. [Next]_vars
  BY StepStores DEF FInv
<1>. QED
  BY <1>1, StepInv, KeptStays DEF FInv, IInv

LEMMA AskInv ==
  ASSUME FInv, NEW w \in Writers, Ask(w)
  PROVE  FInv'
<1>1. UNCHANGED vars /\ IInv' /\ \A e \in Versions : Kept(e) => Kept(e)'
  BY AskStores DEF FInv, IInv, TypeOK, OldIsOlder, SuccessIsKept, PaidReadsLocked, vars, Kept
<1>2. LocalRow \in Versions \cup {None} /\ (LocalRow # None => Kept(LocalRow))
  BY LocalRowType, LocalRowStored DEF FInv, IInv, Kept, LocalRow
<1>3. CASE UNCHANGED asking
  <2>1. UNCHANGED <<outside, asking, crashes, miss>>
    BY <1>3 DEF Ask, AskMissing, AskRefresh, AskLud16, AnswerLocal, AnswerMiss, Wait, allVars,
                fetchVars
  <2>2. shown' = shown \/ shown' = LocalRow
    BY DEF Ask, AskMissing, AskRefresh, AskLud16, AnswerLocal, AnswerMiss, Wait, allVars, fetchVars
  <2>3. shown' \in Versions \cup {None}
    BY <1>2, <2>2 DEF FInv, FetchTypeOK
  <2>4. ShownKept'
    BY <1>1, <1>2, <2>2 DEF FInv, ShownKept, Kept, vars
  <2>5. FetchTypeOK'
    BY <1>1, <2>1, <2>3 DEF FInv, FetchTypeOK, IInv
  <2>6. AskersFetch' /\ SeenKept'
    BY <1>1, <2>1 DEF FInv, AskersFetch, SeenKept, Kept, vars
  <2>. QED
    BY <1>1, <2>4, <2>5, <2>6 DEF FInv
<1>4. ASSUME NEW caller \in {"profile", "ingest"}, Wait(w, caller)
      PROVE  FInv'
  <2>1. PICK q \in Requests : q = [on |-> TRUE, caller |-> caller, seen |-> LocalRow]
    BY <1>2 DEF Requests, CallerNames
  <2>2. asking' = [asking EXCEPT ![w] = q] /\ UNCHANGED <<outside, miss, shown, crashes>>
    BY <1>4, <2>1 DEF Wait
  <2>3. q.caller = caller /\ q.seen = LocalRow /\ q.seen \in Versions \cup {None}
    BY <1>2, <2>1
  <2>4. q.seen # None => Kept(q.seen)'
    BY <1>1, <1>2, <2>3
  <2>6. asking' \in [Writers -> Requests] /\ AskersFetch' /\ SeenKept'
    BY <1>1, <2>2, <2>3, <2>4, AskingSet
  <2>7. ShownKept'
    BY <1>1, <2>2 DEF FInv, ShownKept, Kept, vars
  <2>. QED
    BY <1>1, <2>2, <2>6, <2>7 DEF FInv, FetchTypeOK, IInv
<1>. QED
  BY <1>3, <1>4 DEF Ask, AskMissing, AskRefresh, AskLud16, AnswerLocal, AnswerMiss, allVars,
                    fetchVars

\* The requests that do not change them leave what they saw kept.
LEMMA AskersStay ==
  ASSUME FInv, asking' = asking, \A e \in Versions : Kept(e) => Kept(e)'
  PROVE  asking' \in [Writers -> Requests] /\ AskersFetch' /\ SeenKept'
<1>1. asking' \in [Writers -> Requests] /\ AskersFetch'
  BY DEF FInv, FetchTypeOK, AskersFetch
<1>2. ASSUME NEW v \in Writers, asking'[v].on, asking'[v].seen # None
      PROVE  Kept(asking[v].seen)'
  <2>1. asking[v].seen \in Versions /\ Kept(asking[v].seen)
    BY <1>2 DEF FInv, FetchTypeOK, SeenKept, Requests
  <2>2. PICK e \in Versions : e = asking[v].seen
    BY <2>1
  <2>3. Kept(e)'
    BY <2>1, <2>2
  <2>. QED
    BY <2>2, <2>3 DEF Kept
<1>. QED
  BY <1>1, <1>2 DEF SeenKept

\* A request is done, or stores what it fetched.
LEMMA AskerDone ==
  ASSUME FInv, NEW w \in Writers, \A e \in Versions : Kept(e) => Kept(e)',
         asking' = [asking EXCEPT ![w] = NotAsking] \/ asking' = [asking EXCEPT ![w].on = FALSE]
  PROVE  asking' \in [Writers -> Requests] /\ AskersFetch' /\ SeenKept'
<1>1. asking \in [Writers -> Requests]
  BY DEF FInv, FetchTypeOK
<1>2. /\ asking' \in [Writers -> Requests]
      /\ ~asking'[w].on
      /\ \A v \in Writers : v # w => asking'[v] = asking[v]
  <2>1. CASE asking' = [asking EXCEPT ![w] = NotAsking]
    BY <1>1, <2>1 DEF Requests, NotAsking
  <2>2. CASE asking' = [asking EXCEPT ![w].on = FALSE]
    BY <1>1, <2>2 DEF Requests
  <2>. QED
    BY <2>1, <2>2
<1>3. AskersFetch'
  BY <1>2 DEF FInv, AskersFetch
<1>4. ASSUME NEW v \in Writers, asking'[v].on, asking'[v].seen # None
      PROVE  Kept(asking[v].seen)'
  <2>1. asking'[v] = asking[v]
    BY <1>2, <1>4
  <2>2. asking[v].seen \in Versions /\ Kept(asking[v].seen)
    BY <1>1, <1>4, <2>1 DEF FInv, SeenKept, Requests
  <2>3. PICK e \in Versions : e = asking[v].seen
    BY <2>2
  <2>4. Kept(e)'
    BY <2>2, <2>3
  <2>. QED
    BY <2>1, <2>3, <2>4 DEF Kept
<1>. QED
  BY <1>2, <1>3, <1>4 DEF SeenKept

LEMMA FailsInv ==
  ASSUME FInv, NEW w \in Writers, FetchFails(w)
  PROVE  FInv'
<1>1. UNCHANGED vars /\ IInv' /\ \A e \in Versions : Kept(e) => Kept(e)'
  BY AskStores DEF FInv, IInv, TypeOK, OldIsOlder, SuccessIsKept, PaidReadsLocked, vars, Kept
<1>2. asking' \in [Writers -> Requests] /\ AskersFetch' /\ SeenKept'
  BY <1>1, AskerDone DEF FetchFails
<1>3. /\ asking[w].on /\ asking[w] \in Requests
      /\ shown' = shown \/ (asking[w].seen # None /\ shown' = asking[w].seen)
      /\ miss' = MissTTL /\ UNCHANGED <<outside, crashes>>
  BY DEF FetchFails, FInv, FetchTypeOK
<1>4. shown' \in Versions \cup {None}
  BY <1>3 DEF FInv, FetchTypeOK, Requests
<1>5. ShownKept'
  BY <1>1, <1>3 DEF FInv, ShownKept, SeenKept, Kept, vars
<1>6. miss' \in 0..MissTTL
  BY <1>3, MissTTLAssumption
<1>. QED
  BY <1>1, <1>2, <1>3, <1>4, <1>5, <1>6 DEF FInv, FetchTypeOK, IInv

LEMMA ServeInv ==
  ASSUME FInv, NEW w \in Writers, Serve(w)
  PROVE  FInv'
<1>1. IInv' /\ \A e \in Versions : Kept(e) => Kept(e)'
  BY StoreSide DEF FetchNext
<1>2. UNCHANGED <<outside, miss, crashes>>
  BY DEF Serve, StoreStep, StoreRaises, FinishFetch, fetchVars
<1>3. asking' = asking \/ asking' = [asking EXCEPT ![w] = NotAsking]
  BY DEF Serve, StoreStep, StoreRaises, FinishFetch, fetchVars
<1>4. asking' \in [Writers -> Requests] /\ AskersFetch' /\ SeenKept'
  BY <1>1, <1>3, AskersStay, AskerDone
<1>5. shown' \in Versions \cup {None} /\ ShownKept'
  <2>1. CASE shown' = shown
    BY <1>1, <2>1 DEF FInv, FetchTypeOK, ShownKept, Kept
  <2>2. CASE shown' # shown
    <3>1. FinishFetch(w) /\ shown' = LocalRow /\ UNCHANGED rows
      BY <2>2 DEF Serve, StoreStep, StoreRaises, FinishFetch, fetchVars, Reread, Finish
    <3>2. shown' \in Versions \cup {None}
      BY <3>1, LocalRowType DEF FInv, IInv
    <3>3. shown' # None => shown' \in rows'
      BY <3>1, LocalRowStored DEF LocalRow, FInv, IInv
    <3>. QED
      BY <3>2, <3>3 DEF ShownKept, Kept
  <2>. QED
    BY <2>1, <2>2
<1>. QED
  BY <1>1, <1>2, <1>4, <1>5 DEF FInv, FetchTypeOK, IInv

LEMMA FetchedInv ==
  ASSUME FInv, NEW w \in Writers, NEW e \in Versions, Fetched(w, e)
  PROVE  FInv'
<1>1. IInv' /\ \A v \in Versions : Kept(v) => Kept(v)'
  BY StoreSide DEF FetchNext
<1>2. miss' \in 0..MissTTL /\ UNCHANGED <<outside, shown, crashes, rows>>
  BY MissTTLAssumption DEF Fetched, Begin
<1>3. asking' \in [Writers -> Requests] /\ AskersFetch' /\ SeenKept'
  BY <1>1, AskerDone DEF Fetched
<1>4. ShownKept'
  BY <1>2 DEF FInv, ShownKept, Kept
<1>. QED
  BY <1>1, <1>2, <1>3, <1>4 DEF FInv, FetchTypeOK, IInv

\* The rest of the program and the world outside.
LEMMA OutsideInv ==
  ASSUME FInv, [FetchNext]_allVars,
         \/ Tick \/ Restart \/ UNCHANGED allVars \/ \E e \in Versions : PublishOutside(e)
         \/ \E w \in Writers, caller \in Callers, e \in Versions : BeginOther(w, caller, e)
  PROVE  FInv'
<1>1. IInv' /\ \A v \in Versions : Kept(v) => Kept(v)'
  BY StoreSide
<1>2. UNCHANGED <<rows, shown>>
  BY DEF Tick, Restart, PublishOutside, BeginOther, Begin, Crash, allVars, fetchVars, vars
<1>3. outside' \subseteq Versions /\ crashes' \in 0..MaxCrashes /\ miss' \in 0..MissTTL
  BY MissTTLAssumption, MaxCrashesAssumption
     DEF FInv, FetchTypeOK, Tick, Restart, PublishOutside, BeginOther, allVars, fetchVars
<1>4. asking' \in [Writers -> Requests] /\ AskersFetch' /\ SeenKept'
  <2>1. CASE asking' = asking
    BY <1>1, <2>1, AskersStay
  <2>2. CASE Restart
    BY <2>2 DEF Restart, AskersFetch, SeenKept, NotAsking, Requests
  <2>. QED
    BY <2>1, <2>2 DEF Tick, PublishOutside, BeginOther, allVars, fetchVars
<1>5. shown' \in Versions \cup {None} /\ ShownKept'
  BY <1>2 DEF FInv, FetchTypeOK, ShownKept, Kept
<1>. QED
  BY <1>1, <1>3, <1>4, <1>5 DEF FInv, FetchTypeOK, IInv

LEMMA FetchStepInv == FInv /\ [FetchNext]_allVars => FInv'
<1>. SUFFICES ASSUME FInv, [FetchNext]_allVars
             PROVE  FInv'
  OBVIOUS
<1>1. ASSUME NEW w \in Writers, Ask(w) \/ FetchFails(w) \/ Serve(w)
      PROVE  FInv'
  BY <1>1, AskInv, FailsInv, ServeInv
<1>2. ASSUME NEW w \in Writers, NEW e \in Versions, Fetched(w, e)
      PROVE  FInv'
  BY <1>2, FetchedInv
<1>. QED
  BY <1>1, <1>2, OutsideInv DEF FetchNext

LEMMA AlwaysFInv == FetchSpec => []FInv
  BY FetchInitInv, FetchStepInv, PTL DEF FetchSpec

-----------------------------------------------------------------------------
(* The theorems *)

\* Every variable keeps its type.
THEOREM FetchTypeCorrect == FetchSpec => []FetchTypeOK
<1>1. FInv => FetchTypeOK
  BY DEF FInv
<1>. QED
  BY <1>1, AlwaysFInv, PTL

\* Fetching profiles from external relays is one of the callers EventStore allows for: what is
\* proved of EventStore holds of profiles, whatever the relays, the miss cache and the crashes do.
THEOREM FetchImplementsStore == FetchSpec => Spec
<1>1. FetchInit => Init
  BY DEF FetchInit
<1>2. FInv /\ [FetchNext]_allVars => [Next]_vars
  BY StepStores DEF FInv
<1>. QED
  BY <1>1, <1>2, AlwaysFInv, PTL DEF FetchSpec, Spec

\* What EventStore promises holds with the fetches that ask external relays: a profile stored
\* is kept or superseded, the latest stays, and a paid route never splits an author's rows.
THEOREM FetchKeepsProfiles ==
  FetchSpec => []SuccessIsKept /\ LatestStays /\ PaidNeverSplits
BY FetchImplementsStore, Success, Latest, PaidSafe, PTL

\* What GET /profile reads while one row is stored is not older than a version that is kept.
LEMMA ReadNotOlder ==
  ASSUME TypeOK, AtMostOne, NEW v \in Versions, Kept(v)
  PROVE  <<v, LocalRow>> \notin Supersedes
<1>1. rows # {}
  BY DEF Kept
<1>2. LocalRow \in rows /\ LocalRow \in Versions
  BY <1>1, LocalRowStored
<1>3. CASE v \in rows
  <2>1. v = LocalRow
    BY <1>2, <1>3 DEF AtMostOne
  <2>. QED
    BY <2>1, SupersedesAssumption
<1>4. ASSUME NEW m \in rows, <<m, v>> \in Supersedes
      PROVE  <<v, LocalRow>> \notin Supersedes
  <2>1. m = LocalRow
    BY <1>2 DEF AtMostOne
  <2>2. <<m, v>> \in Supersedes /\ <<v, m>> \in Supersedes => <<m, m>> \in Supersedes
    BY <1>2, <2>1, SupersedesAssumption
  <2>. QED
    BY <1>2, <1>4, <2>1, <2>2, SupersedesAssumption
<1>. QED
  BY <1>3, <1>4 DEF Kept

\* GET /profile goes back to an older profile only with the row it read before a fetch that failed.
THEOREM ProfileMovesOn == FetchSpec => AnswersMoveOn
<1>1. ASSUME FInv, [FetchNext]_allVars, <<shown, shown'>> \in Supersedes
      PROVE  \E w \in Writers : asking[w].on /\ ~asking'[w].on /\ asking[w].seen = shown'
  <2>1. shown \in Versions /\ Kept(shown) /\ shown' # shown
    BY <1>1, SupersedesAssumption, NoneAssumption DEF FInv, FetchTypeOK, ShownKept
  <2>2. TypeOK
    BY <1>1 DEF FInv, IInv
  <2>3. ~(AtMostOne /\ shown' = LocalRow)
    BY <1>1, <2>1, <2>2, ReadNotOlder
  <2>4. PICK w \in Writers : FetchFails(w)
    <3>1. ASSUME NEW w \in Writers, Ask(w)
          PROVE  FALSE
      BY <2>1, <2>3, <3>1 DEF Ask, AskMissing, AskRefresh, AskLud16, AnswerLocal, AnswerMiss,
         Wait, allVars, fetchVars
    <3>2. ASSUME NEW w \in Writers, Serve(w)
          PROVE  FALSE
      BY <2>1, <2>3, <3>2 DEF Serve, StoreStep, StoreRaises, FinishFetch, fetchVars, Reread
    <3>3. ASSUME NEW w \in Writers, NEW e \in Versions, Fetched(w, e)
          PROVE  FALSE
      BY <2>1, <3>3 DEF Fetched
    <3>. QED
      BY <1>1, <2>1, <3>1, <3>2, <3>3 DEF FetchNext, BeginOther, Tick, Restart, PublishOutside,
         allVars, fetchVars
  <2>5. asking[w].on /\ asking[w].seen = shown' /\ ~asking'[w].on
    BY <1>1, <2>1, <2>4 DEF FetchFails, FInv, FetchTypeOK, NotAsking
  <2>. QED
    BY <2>5
<1>2. FInv /\ [FetchNext]_allVars =>
        [(<<shown, shown'>> \in Supersedes) =>
           \E w \in Writers : asking[w].on /\ ~asking'[w].on /\ asking[w].seen = shown']_allVars
  BY <1>1
<1>. QED
  BY <1>2, AlwaysFInv, PTL DEF FetchSpec, AnswersMoveOn

=============================================================================
