----------------------------- MODULE ProfileFetch ---------------------------
(***************************************************************************)
(* Profiles fetched from external relays, composed with EventStore: GET    *)
(* /profile and the ingest's look-up of an author's lud16 read what is     *)
(* stored, ask the external relays unless a recent miss is remembered, and *)
(* store what the first relay answers.                                     *)
(*                                                                         *)
(* The rows are those of one author; a request is a writer of EventStore   *)
(* from the moment it has a profile to store.                              *)
(***************************************************************************)
EXTENDS EventStore

CONSTANTS
  Payable,    \* the versions with a lud16
  MissTTL,    \* KIND0_NEGATIVE_CACHE_TTL, in ticks
  MaxCrashes  \* bound

ASSUME PayableAssumption == Payable \subseteq Versions
ASSUME FetchCallersAssumption == {"profile", "ingest"} \subseteq Callers
ASSUME MissTTLAssumption == MissTTL \in Nat \ {0}
ASSUME MaxCrashesAssumption == MaxCrashes \in Nat

VARIABLES
  outside, \* the versions that some external relay answers with
  asking,  \* the requests that wait for the external relays
  miss,    \* the author's entry in _kind0_miss_cache: ticks until it expires
  shown,   \* history: the version that GET /profile answered last
  crashes

fetchVars == <<outside, asking, miss, shown, crashes>>
allVars == <<vars, fetchVars>>

\* seen: the row that GET /profile read before it asked.
Requests == [on : BOOLEAN, caller : CallerNames \cup {None}, seen : Versions \cup {None}]
NotAsking == [on |-> FALSE, caller |-> None, seen |-> None]

FetchTypeOK ==
  /\ TypeOK
  /\ outside \subseteq Versions
  /\ asking \in [Writers -> Requests]
  /\ miss \in 0..MissTTL
  /\ shown \in Versions \cup {None}
  /\ crashes \in 0..MaxCrashes

FetchInit ==
  /\ Init
  /\ outside = {}
  /\ asking = [w \in Writers |-> NotAsking]
  /\ miss = 0
  /\ shown = None
  /\ crashes = 0

Free(w) == task[w].at = "idle" /\ ~asking[w].on

\* scalar_one_or_none: what is stored, or an exception.
LocalRow == IF rows = {} THEN None ELSE CHOOSE e \in rows : TRUE

Wait(w, caller) ==
  /\ asking' = [asking EXCEPT ![w] = [on |-> TRUE, caller |-> caller, seen |-> LocalRow]]
  /\ UNCHANGED <<vars, outside, miss, shown, crashes>>

-----------------------------------------------------------------------------
(* Asking *)

\* The fast path: a stored profile is answered.
AnswerLocal(w) ==
  /\ Free(w) /\ AtMostOne /\ rows # {}
  /\ shown' = LocalRow
  /\ UNCHANGED <<vars, outside, asking, miss, crashes>>

\* Mutant of AnswerMiss: every request renews the entry.
AnswerMissRenewed(w) ==
  /\ Free(w) /\ rows = {} /\ miss > 0
  /\ miss' = MissTTL
  /\ UNCHANGED <<vars, outside, asking, shown, crashes>>

\* Nothing is stored and a miss is remembered: "found": false, and nobody is asked.
AnswerMiss(w) ==
  /\ Free(w) /\ rows = {} /\ miss > 0
  /\ UNCHANGED allVars

\* GET /profile asks when nothing is stored.
AskMissing(w) ==
  /\ Free(w) /\ rows = {} /\ miss = 0
  /\ Wait(w, "profile")

\* ?refresh=1 asks in any case.
AskRefresh(w) ==
  /\ Free(w) /\ AtMostOne
  /\ Wait(w, "profile")

\* A receipt of a note whose author has no lud16 here: get_author_lud16 raises for two rows.
AskLud16(w) ==
  /\ Free(w) /\ AtMostOne /\ rows \cap Payable = {} /\ miss = 0
  /\ Wait(w, "ingest")

-----------------------------------------------------------------------------
(* What the external relays say *)

\* The first relay that has a profile decides; the others are cancelled.
Fetched(w, e) ==
  /\ asking[w].on /\ e \in outside
  /\ miss' = 0
  /\ asking' = [asking EXCEPT ![w].on = FALSE]
  /\ Begin(w, asking[w].caller, e)
  /\ UNCHANGED <<outside, shown, crashes>>

\* No relay answers in time, or none has a profile.  GET /profile answers with the row it read
\* before, if there was one.
FetchFails(w) ==
  /\ asking[w].on
  /\ miss' = MissTTL
  /\ asking' = [asking EXCEPT ![w] = NotAsking]
  /\ shown' = IF asking[w].seen # None /\ asking[w].caller = "profile" THEN asking[w].seen ELSE shown
  /\ UNCHANGED <<vars, outside, crashes>>

\* Mutant of Reread: GET /profile answers with the row that it read first.
SeenFirst(w) == IF asking[w].seen = None THEN LocalRow ELSE asking[w].seen

\* GET /profile reads the row again after it stored the profile.
Reread(w) == LocalRow

FinishFetch(w) ==
  /\ Finish(w)
  /\ asking' = [asking EXCEPT ![w] = NotAsking]
  /\ shown' = IF task[w].caller = "profile" /\ AtMostOne THEN Reread(w) ELSE shown
  /\ UNCHANGED <<outside, miss, crashes>>

\* The store fails: get_profile raises, the ingest loop reconnects.
StoreRaises(w) ==
  /\ SelectRaises(w) \/ LockTimeout(w)
  /\ asking' = [asking EXCEPT ![w] = NotAsking]
  /\ UNCHANGED <<outside, miss, shown, crashes>>

StoreStep(w) ==
  /\ \/ GetHit(w) \/ GetMiss(w) \/ SelectNone(w) \/ SelectOld(w) \/ SelectNewer(w)
     \/ Insert(w) \/ InsertRace(w)
  /\ UNCHANGED fetchVars

\* The relay's own clients store profiles too.
BeginOther(w, caller, e) ==
  /\ Free(w) /\ caller \in Callers \ {"profile", "ingest"}
  /\ Begin(w, caller, e)
  /\ UNCHANGED fetchVars

-----------------------------------------------------------------------------
(* The environment *)

Tick ==
  /\ miss > 0
  /\ miss' = miss - 1
  /\ UNCHANGED <<vars, outside, asking, shown, crashes>>

\* The author publishes a profile elsewhere.
PublishOutside(e) ==
  /\ e \notin outside
  /\ outside' = outside \cup {e}
  /\ UNCHANGED <<vars, asking, miss, shown, crashes>>

\* The process dies, and the cache with it.
Restart ==
  /\ crashes < MaxCrashes
  /\ \/ Crash
     \/ /\ \E w \in Writers : asking[w].on
        /\ \A w \in Writers : task[w] = Idle
        /\ UNCHANGED vars
  /\ asking' = [w \in Writers |-> NotAsking]
  /\ miss' = 0
  /\ crashes' = crashes + 1
  /\ UNCHANGED <<outside, shown>>

-----------------------------------------------------------------------------

Ask(w) == AskMissing(w) \/ AskRefresh(w) \/ AskLud16(w) \/ AnswerLocal(w) \/ AnswerMiss(w)

Serve(w) == StoreStep(w) \/ StoreRaises(w) \/ FinishFetch(w)

FetchNext ==
  \/ \E w \in Writers :
       \/ Ask(w) \/ FetchFails(w) \/ Serve(w)
       \/ \E e \in Versions : Fetched(w, e)
       \/ \E caller \in Callers, e \in Versions : BeginOther(w, caller, e)
  \/ Tick
  \/ Restart
  \/ \E e \in Versions : PublishOutside(e)

FetchSpec == FetchInit /\ [][FetchNext]_allVars

\* Awaits end and time passes; and, for EventuallyProfiled, somebody asks again and again, without
\* refresh, and of the fetches made again and again one reaches a relay that has a profile.
FetchFairness ==
  /\ \A w \in Writers : WF_allVars(Serve(w))
  /\ WF_allVars(Tick)
  /\ SF_allVars(\E w \in Writers : AskMissing(w))
  /\ SF_allVars(\E w \in Writers, e \in Versions : Fetched(w, e))

FairFetchSpec == FetchSpec /\ FetchFairness

-----------------------------------------------------------------------------
(* Properties *)

\* The miss cache delays but never starves: a profile that an external relay has is stored in
\* the end, however often it was missed and however many requests were answered from the cache.
EventuallyProfiled == outside # {} ~> rows # {}

\* GET /profile never answers with an older profile than before, whatever its requests race
\* for, except with the row it read before a fetch that failed.
AnswersMoveOn ==
  [][(<<shown, shown'>> \in Supersedes) =>
       \E w \in Writers : asking[w].on /\ ~asking'[w].on /\ asking[w].seen = shown']_allVars

=============================================================================
