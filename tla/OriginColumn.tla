----------------------------- MODULE OriginColumn ---------------------------
(***************************************************************************)
(* init_db on databases of every age, and the notes whose tallies and      *)
(* origin it migrates.  SQLite commits every ALTER on its own, and the     *)
(* backfill of origin is decided by a flag in memory, so a boot that dies  *)
(* is taken up by the next one at whatever columns it left.                *)
(*                                                                         *)
(* The notes are of kind 1; the other tables get columns in the same way.  *)
(***************************************************************************)
EXTENDS Integers

CONSTANTS
  Notes,
  Eras,     \* the columns of nostr_events that an old database has; {} is no table
  Old,      \* bound: the notes that an old database may hold
  Credited, \* bound: the notes that are voted for and zapped
  MaxSats,  \* bound: the largest tally
  MaxBoots, \* bound
  NoRow

Columns == {"value_sats", "zap_sats", "sats_clank", "sats_ext", "origin"}
ThisEra == {"sats_clank", "sats_ext", "origin"}

\* The tallies were renamed before origin came, and came together or one by one.
ASSUME ErasAssumption ==
  Eras \subseteq
    {{}, {"value_sats"}, {"value_sats", "zap_sats"}, {"sats_clank"}, {"sats_clank", "sats_ext"}}
ASSUME BoundsAssumption ==
  Old \subseteq Notes /\ Credited \subseteq Notes /\ MaxSats \in Nat /\ MaxBoots \in Nat

VARIABLES
  columns,   \* of nostr_events
  rows,      \* its notes; a tally is in the column of its old name or of its new one
  boot,      \* the next step of init_db, "up" or "down"
  justAdded, \* origin_just_added
  boots,
  posted,    \* history: notes stored as posted here since the column exists
  ingested   \* history: notes the backfill has to find, unless a crash came between

dbVars == <<columns, rows, boot, justAdded, boots, posted, ingested>>

Tally == 0..MaxSats
Rows == [clank : Tally, ext : Tally, origin : {"clankfeed", "external"}]
Steps ==
  {"create", "renameClank", "renameExt", "addClank", "addExt", "addOrigin", "backfill"}

ASSUME NoRowAssumption == NoRow \notin Rows

DbTypeOK ==
  /\ columns \subseteq Columns
  /\ rows \in [Notes -> Rows \cup {NoRow}]
  /\ boot \in Steps \cup {"up", "down"}
  /\ justAdded \in BOOLEAN
  /\ boots \in 0..MaxBoots
  /\ posted \subseteq Notes
  /\ ingested \subseteq Notes

Stored == {n \in Notes : rows[n] # NoRow}

\* An old database holds notes without an origin; a tally without a column is 0.
DbInit ==
  /\ columns \in Eras
  /\ rows \in [Notes -> {r \in Rows : r.origin = "clankfeed"} \cup {NoRow}]
  /\ Stored \subseteq Old
  /\ columns = {} => Stored = {}
  /\ columns \cap {"value_sats", "sats_clank"} = {} => \A n \in Stored : rows[n].clank = 0
  /\ columns \cap {"zap_sats", "sats_ext"} = {} => \A n \in Stored : rows[n].ext = 0
  /\ boot = "down"
  /\ justAdded = FALSE
  /\ boots = 0
  /\ posted = {}
  /\ ingested = {}

-----------------------------------------------------------------------------
(* init_db *)

Start ==
  /\ boot = "down" /\ boots < MaxBoots
  /\ boot' = "create"
  /\ justAdded' = FALSE
  /\ boots' = boots + 1
  /\ UNCHANGED <<columns, rows, posted, ingested>>

\* create_all leaves a table that exists as it is.
CreateAll ==
  /\ boot = "create"
  /\ columns' = IF columns = {} THEN ThisEra ELSE columns
  /\ boot' = "renameClank"
  /\ UNCHANGED <<rows, justAdded, boots, posted, ingested>>

\* Mutant of Renames: the old column is renamed only while the database has no new column at all.
RenamesAllOrNone(old, new) == old \in columns /\ columns \cap {"sats_clank", "sats_ext"} = {}

Renames(old, new) == old \in columns /\ new \notin columns

Rename(step, old, new, next) ==
  /\ boot = step
  /\ columns' = IF Renames(old, new) THEN (columns \ {old}) \cup {new} ELSE columns
  /\ boot' = next
  /\ UNCHANGED <<rows, justAdded, boots, posted, ingested>>

\* What is in a column that is added: the default, and not what an old column holds.
Emptied(column, n) ==
  IF rows[n] = NoRow THEN NoRow
  ELSE CASE column = "sats_clank" -> [rows[n] EXCEPT !.clank = 0]
         [] column = "sats_ext" -> [rows[n] EXCEPT !.ext = 0]
         [] column = "origin" -> [rows[n] EXCEPT !.origin = "clankfeed"]

AddColumn(step, column, next) ==
  /\ boot = step
  /\ IF column \in columns
       THEN UNCHANGED <<columns, rows>>
       ELSE /\ columns' = columns \cup {column}
            /\ rows' = [n \in Notes |-> Emptied(column, n)]
  /\ boot' = next
  /\ UNCHANGED <<boots, posted>>

AddTally ==
  /\ \/ AddColumn("addClank", "sats_clank", "addExt")
     \/ AddColumn("addExt", "sats_ext", "addOrigin")
  /\ UNCHANGED <<justAdded, ingested>>

\* Ingested notes were credited by zaps only.
LooksIngested(n) == rows[n] # NoRow /\ rows[n].clank = 0 /\ rows[n].ext > 0

\* Mutant of AddOrigin: the columns of the next table, which exist, reset the flag.
AddOriginUnflagged ==
  /\ AddColumn("addOrigin", "origin", "backfill")
  /\ justAdded' = FALSE
  /\ ingested' = IF "origin" \in columns THEN ingested ELSE {n \in Notes : LooksIngested(n)}

AddOrigin ==
  /\ AddColumn("addOrigin", "origin", "backfill")
  /\ justAdded' = ("origin" \notin columns)
  /\ ingested' = IF "origin" \in columns THEN ingested ELSE {n \in Notes : LooksIngested(n)}

\* Mutant of BackfillDue: the backfill runs at every boot.
BackfillAlways == TRUE

\* In memory: true in the boot that added the column, and in no other.
BackfillDue == justAdded

Backfill ==
  /\ boot = "backfill"
  /\ rows' = [n \in Notes |->
                IF BackfillDue /\ LooksIngested(n) THEN [rows[n] EXCEPT !.origin = "external"]
                ELSE rows[n]]
  /\ boot' = "up"
  /\ justAdded' = FALSE
  /\ UNCHANGED <<columns, boots, posted, ingested>>

\* The process dies.  Between the column and the backfill it takes the flag with it.
Crash ==
  /\ boot # "down"
  /\ boot' = "down"
  /\ justAdded' = FALSE
  /\ ingested' = IF boot = "backfill" /\ justAdded THEN {} ELSE ingested
  /\ UNCHANGED <<columns, rows, boots, posted>>

Boot ==
  \/ Start \/ CreateAll
  \/ Rename("renameClank", "value_sats", "sats_clank", "renameExt")
  \/ Rename("renameExt", "zap_sats", "sats_ext", "addClank")
  \/ AddTally \/ AddOrigin \/ Backfill

-----------------------------------------------------------------------------
(* The program, once it is up *)

\* store_event of a note posted here, at a price.
Post(n) ==
  /\ boot = "up" /\ rows[n] = NoRow /\ MaxSats > 0
  /\ rows' = [rows EXCEPT ![n] = [clank |-> 1, ext |-> 0, origin |-> "clankfeed"]]
  /\ posted' = posted \cup {n}
  /\ UNCHANGED <<columns, boot, justAdded, boots, ingested>>

\* store_event of a note from an external relay: its receipts are credited afterwards.
Ingest(n) ==
  /\ boot = "up" /\ rows[n] = NoRow
  /\ rows' = [rows EXCEPT ![n] = [clank |-> 0, ext |-> 0, origin |-> "external"]]
  /\ UNCHANGED <<columns, boot, justAdded, boots, posted, ingested>>

SetTallies(n, clank, ext) ==
  /\ boot = "up" /\ rows[n] # NoRow
  /\ clank <= MaxSats /\ ext <= MaxSats
  /\ rows' = [rows EXCEPT ![n].clank = clank, ![n].ext = ext]
  /\ UNCHANGED <<columns, boot, justAdded, boots, posted, ingested>>

\* The author's leg of a zap, and the relay's.
Zap(n) ==
  \/ SetTallies(n, rows[n].clank, rows[n].ext + 1)
  \/ SetTallies(n, rows[n].clank + 1, rows[n].ext + 1)

\* Mutant of Floored: the floor at 0 is missing.
NotFloored(sats) == sats

Floored(sats) == IF sats < 0 THEN 0 ELSE sats

Vote(n) ==
  \E sats \in {-1, 1} :
    SetTallies(n, Floored(rows[n].clank + sats), Floored(rows[n].ext + sats))

Credit == \E n \in Stored \cap Credited : Zap(n) \/ Vote(n)

DbNext ==
  \/ Boot \/ Crash \/ Credit
  \/ \E n \in Notes : Post(n) \/ Ingest(n)

DbSpec == DbInit /\ [][DbNext]_dbVars

-----------------------------------------------------------------------------
(* Properties *)

\* FEED-1 (relay.py:169): an external note without any tally is not in the feed.
Hidden(n) == rows[n].origin = "external" /\ rows[n].ext = 0 /\ rows[n].clank = 0

Feed == {n \in Stored : ~Hidden(n)}

\* A note that was stored as posted here stays in the feed, whatever votes and zaps make of its
\* tallies and however often the process dies and boots: the backfill never takes it for an
\* ingested one.
PostedHereIsShown ==
  \A n \in posted : rows[n] # NoRow /\ rows[n].origin = "clankfeed" /\ n \in Feed

\* No boot loses a tally, wherever the one before it died: an old column is renamed before a
\* new one of its name could be added.
TalliesSurvive ==
  [][boot # "up" =>
       \A n \in Notes :
         rows[n] # NoRow =>
           rows'[n] # NoRow /\ rows'[n].clank = rows[n].clank /\ rows'[n].ext = rows[n].ext]_dbVars

\* Once the program serves, the ingested notes of a database older than the column are external,
\* unless the process died between the column and the backfill.
BackfilledUnlessCrashed == boot = "up" => \A n \in ingested : rows[n].origin = "external"

=============================================================================
