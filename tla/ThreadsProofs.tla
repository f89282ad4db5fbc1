---------------------------- MODULE ThreadsProofs ---------------------------
(***************************************************************************)
(* Theorems of OriginColumn and of Threads, for any notes and eras, any    *)
(* number of boots, requests and relays, and any limits.                   *)
(*                                                                         *)
(* Of the migrations: no tally is lost, a note posted here is never taken  *)
(* for an ingested one, and the backfill finds what it has to unless the   *)
(* process died before it.  Each rests on what the columns say about the   *)
(* rows: a tally without a column is 0, no note was posted before the      *)
(* column of its origin.                                                   *)
(*                                                                         *)
(* Of the threads: they implement OriginColumn, so all of this holds of    *)
(* them; and a page lacks only what newer replies crowd out.  The latter   *)
(* rests on two facts about rows and sets: what is stored stays, and the   *)
(* newest of a set are all newer than the rest of it (NewestFull).         *)
(***************************************************************************)
EXTENDS Threads, FiniteSetTheorems, TLAPS

HasClank == {"value_sats", "sats_clank"} \cap columns # {}
HasExt == {"zap_sats", "sats_ext"} \cap columns # {}

\* The columns at each step of a boot; an old name is gone before its new column is added.
Migrated ==
  /\ boot \in {"renameExt", "addClank"} => ~Renames("value_sats", "sats_clank")
  /\ boot \in {"addClank", "addExt"} => ~Renames("zap_sats", "sats_ext")
  /\ boot \in {"addExt", "addOrigin", "backfill", "up"} => "sats_clank" \in columns
  /\ boot \in {"addOrigin", "backfill", "up"} => "sats_ext" \in columns
  /\ boot \in {"backfill", "up"} => "origin" \in columns

TalliesHaveColumns ==
  \A n \in Notes : rows[n] # NoRow =>
    (~HasClank => rows[n].clank = 0) /\ (~HasExt => rows[n].ext = 0)

PostedHere ==
  /\ "origin" \notin columns => posted = {}
  /\ \A n \in posted : rows[n] # NoRow /\ rows[n].origin = "clankfeed"

\* justAdded holds between the column and the backfill of one boot, before anything is posted.
JustAdded == justAdded => boot = "backfill" /\ posted = {}

Found ==
  \/ boot = "backfill" /\ justAdded /\ \A n \in ingested : LooksIngested(n)
  \/ ingested = {}
  \/ /\ "origin" \in columns
     /\ \A n \in ingested : rows[n] # NoRow /\ rows[n].origin = "external"

Inv == DbTypeOK /\ Migrated /\ TalliesHaveColumns /\ PostedHere /\ JustAdded /\ Found

-----------------------------------------------------------------------------
(* Rows *)

LEMMA RowOf ==
  ASSUME DbTypeOK, NEW n \in Notes, rows[n] # NoRow
  PROVE  rows[n] \in Rows
BY DEF DbTypeOK

LEMMA EmptiedRow ==
  ASSUME DbTypeOK, NEW n \in Notes, rows[n] # NoRow,
         NEW column \in {"sats_clank", "sats_ext", "origin"}
  PROVE  /\ Emptied(column, n) \in Rows
         /\ Emptied(column, n).clank = IF column = "sats_clank" THEN 0 ELSE rows[n].clank
         /\ Emptied(column, n).ext = IF column = "sats_ext" THEN 0 ELSE rows[n].ext
         /\ Emptied(column, n).origin = IF column = "origin" THEN "clankfeed" ELSE rows[n].origin
<1> USE RowOf, BoundsAssumption DEF Rows, Tally
<1>1. CASE column = "sats_clank"
  BY <1>1 DEF Emptied
<1>2. CASE column = "sats_ext"
  BY <1>2 DEF Emptied
<1>3. CASE column = "origin"
  BY <1>3 DEF Emptied
<1> QED BY <1>1, <1>2, <1>3

\* What adding a column does to the rows.
LEMMA AddColumnRows ==
  ASSUME DbTypeOK, NEW step, NEW next, NEW column \in {"sats_clank", "sats_ext", "origin"},
         AddColumn(step, column, next), column \notin columns
  PROVE  /\ rows' \in [Notes -> Rows \cup {NoRow}]
         /\ columns' = columns \cup {column}
         /\ \A n \in Notes :
              /\ rows'[n] = NoRow <=> rows[n] = NoRow
              /\ rows[n] # NoRow =>
                   /\ rows'[n].clank = IF column = "sats_clank" THEN 0 ELSE rows[n].clank
                   /\ rows'[n].ext = IF column = "sats_ext" THEN 0 ELSE rows[n].ext
                   /\ rows'[n].origin = IF column = "origin" THEN "clankfeed" ELSE rows[n].origin
<1>1. rows' = [n \in Notes |-> Emptied(column, n)] /\ columns' = columns \cup {column}
  BY DEF AddColumn
<1>2. \A n \in Notes : rows[n] = NoRow => Emptied(column, n) = NoRow
  BY DEF Emptied
<1> QED BY <1>1, <1>2, EmptiedRow, NoRowAssumption

\* What a vote or a zap does to the rows.
LEMMA TalliesRows ==
  ASSUME DbTypeOK, NEW m \in Notes, NEW clank \in Nat, NEW ext \in Nat, SetTallies(m, clank, ext)
  PROVE  /\ rows' \in [Notes -> Rows \cup {NoRow}]
         /\ \A k \in Notes : rows[k] # NoRow =>
              rows'[k] # NoRow /\ rows'[k].origin = rows[k].origin
<1>1. PICK row : row = [rows[m] EXCEPT !.clank = clank, !.ext = ext]
  OBVIOUS
<1>2. rows' = [rows EXCEPT ![m] = row] /\ rows[m] # NoRow /\ clank <= MaxSats /\ ext <= MaxSats
  BY <1>1 DEF SetTallies
<1>3. rows[m] \in Rows /\ rows \in [Notes -> Rows \cup {NoRow}]
  BY <1>2 DEF DbTypeOK
<1>4. clank \in Tally /\ ext \in Tally
  BY <1>2, BoundsAssumption DEF Tally
<1>5. row \in Rows /\ row.origin = rows[m].origin
  BY <1>1, <1>3, <1>4 DEF Rows
<1>6. rows' \in [Notes -> Rows \cup {NoRow}] /\ rows'[m] = row
  BY <1>2, <1>3, <1>5
<1>7. \A k \in Notes : k # m => rows'[k] = rows[k]
  BY <1>2, <1>3
<1> QED BY <1>5, <1>6, <1>7, NoRowAssumption

LEMMA CreditForm ==
  ASSUME DbTypeOK, Credit
  PROVE  \E m \in Notes, clank \in Nat, ext \in Nat : SetTallies(m, clank, ext)
<1>1. PICK n \in Stored : Zap(n) \/ Vote(n)
  BY DEF Credit
<1>2. n \in Notes /\ rows[n].clank \in Nat /\ rows[n].ext \in Nat
  BY RowOf, BoundsAssumption DEF Stored, Rows, Tally
<1>3. CASE Zap(n)
  BY <1>2, <1>3 DEF Zap
<1>4. CASE Vote(n)
  BY <1>2, <1>4 DEF Vote, Floored
<1> QED BY <1>1, <1>3, <1>4

-----------------------------------------------------------------------------
(* Types *)

LEMMA Types ==
  ASSUME Inv, DbNext
  PROVE  DbTypeOK'
<1> USE BoundsAssumption DEF DbTypeOK
<1>0. DbTypeOK
  BY DEF Inv
<1> USE <1>0
<1>1. CASE Start
  <2>1. boots' \in 0..MaxBoots
    BY <1>1 DEF Start
  <2> QED BY <1>1, <2>1 DEF Start, Steps
<1>2. CASE CreateAll
  BY <1>2 DEF CreateAll, Steps, ThisEra, Columns
<1>3. ASSUME NEW step, NEW old, NEW new \in Columns, NEW next \in Steps, Rename(step, old, new, next)
      PROVE  DbTypeOK'
  BY <1>3 DEF Rename
<1>4. ASSUME NEW step, NEW column \in {"sats_clank", "sats_ext", "origin"}, NEW next \in Steps,
             AddColumn(step, column, next)
      PROVE  columns' \subseteq Columns /\ rows' \in [Notes -> Rows \cup {NoRow}]
             /\ boot' \in Steps /\ boots' = boots /\ posted' = posted
  <2>1. boot' = next /\ boots' = boots /\ posted' = posted
    BY <1>4 DEF AddColumn
  <2>2. CASE column \in columns
    BY <1>4, <2>1, <2>2 DEF AddColumn
  <2>3. CASE column \notin columns
    <3>1. rows' \in [Notes -> Rows \cup {NoRow}] /\ columns' = columns \cup {column}
      BY <1>4, <2>3, AddColumnRows
    <3> QED BY <2>1, <3>1 DEF Columns
  <2> QED BY <2>2, <2>3
<1>5. CASE AddTally
  BY <1>4, <1>5 DEF AddTally, Steps
<1>6. CASE AddOrigin
  BY <1>4, <1>6 DEF AddOrigin, Steps
<1>7. CASE Backfill
  <2>1. ASSUME NEW n \in Notes PROVE rows'[n] \in Rows \cup {NoRow}
    BY <1>7, RowOf DEF Backfill, LooksIngested, Rows
  <2> QED BY <1>7, <2>1 DEF Backfill
<1>8. CASE Crash
  BY <1>8 DEF Crash
<1>10. CASE Credit
  <2>1. PICK m \in Notes, clank \in Nat, ext \in Nat : SetTallies(m, clank, ext)
    BY <1>10, CreditForm
  <2>2. rows' \in [Notes -> Rows \cup {NoRow}]
    BY <2>1, TalliesRows
  <2> QED BY <2>1, <2>2 DEF SetTallies
<1>11. ASSUME NEW n \in Notes, Post(n) \/ Ingest(n)
       PROVE  DbTypeOK'
  BY <1>11 DEF Post, Ingest, Rows, Tally
<1>12. CASE \/ Rename("renameClank", "value_sats", "sats_clank", "renameExt")
            \/ Rename("renameExt", "zap_sats", "sats_ext", "addClank")
  BY <1>3, <1>12 DEF Steps, Columns
<1> QED BY <1>1, <1>2, <1>5, <1>6, <1>7, <1>8, <1>10, <1>11, <1>12 DEF DbNext, Boot

-----------------------------------------------------------------------------
(* Steps *)

\* A step outside init_db takes no row away and moves no origin but that of the note it stores.
LEMMA UpSteps ==
  ASSUME Inv, Credit \/ \E n \in Notes : Post(n) \/ Ingest(n)
  PROVE  Inv'
<1> USE NoRowAssumption DEF Inv, DbTypeOK
<1>1. boot = "up" /\ boot' = "up" /\ columns' = columns /\ justAdded' = justAdded
      /\ ingested' = ingested
  BY DEF Credit, Zap, Vote, SetTallies, Post, Ingest
<1>2. \A k \in Notes : rows[k] # NoRow => rows'[k] # NoRow /\ rows'[k].origin = rows[k].origin
  <2>1. CASE Credit
    BY <2>1, CreditForm, TalliesRows
  <2>2. ASSUME NEW n \in Notes, Post(n) \/ Ingest(n)
        PROVE  \A k \in Notes : rows[k] # NoRow => rows'[k] = rows[k]
    BY <2>2 DEF Post, Ingest
  <2> QED BY <2>1, <2>2
<1>3. \A k \in posted' : k \in Notes /\ (k \notin posted => rows'[k] # NoRow /\ rows'[k].origin = "clankfeed")
  <2>1. CASE Credit
    BY <2>1 DEF Credit, Zap, Vote, SetTallies
  <2>2. ASSUME NEW n \in Notes, Ingest(n) PROVE posted' = posted
    BY <2>2 DEF Ingest
  <2>3. ASSUME NEW n \in Notes, Post(n)
        PROVE  posted' = posted \cup {n} /\ rows'[n].origin = "clankfeed" /\ rows'[n] # NoRow
    <3>1. PICK row : row = [clank |-> 1, ext |-> 0, origin |-> "clankfeed"]
      OBVIOUS
    <3>2. row \in Rows
      BY <2>3, <3>1, BoundsAssumption DEF Post, Rows, Tally
    <3>3. rows'[n] = row
      BY <2>3, <3>1 DEF Post
    <3> QED BY <2>3, <3>1, <3>2, <3>3 DEF Post
  <2> QED BY <2>1, <2>2, <2>3
<1>4. DbTypeOK'
  BY Types DEF DbNext
<1>5. Migrated'
  BY <1>1 DEF Migrated, Renames
<1>6. HasClank' /\ HasExt'
  BY <1>1 DEF Migrated, HasClank, HasExt
<1>7. TalliesHaveColumns'
  BY <1>6 DEF TalliesHaveColumns
<1>8. PostedHere'
  <2>1. "origin" \in columns'
    BY <1>1 DEF Migrated
  <2>2. \A k \in posted : k \in Notes /\ rows[k] # NoRow /\ rows[k].origin = "clankfeed"
    BY DEF PostedHere
  <2> QED BY <1>2, <1>3, <2>1, <2>2 DEF PostedHere
<1>9. JustAdded'
  BY <1>1 DEF JustAdded
<1>10. Found'
  BY <1>1, <1>2 DEF Found
<1> QED BY <1>4, <1>5, <1>7, <1>8, <1>9, <1>10

\* A step of a boot, or a crash, that leaves the rows alone.
LEMMA QuietSteps ==
  ASSUME Inv,
         \/ Start \/ CreateAll \/ Crash
         \/ Rename("renameClank", "value_sats", "sats_clank", "renameExt")
         \/ Rename("renameExt", "zap_sats", "sats_ext", "addClank")
  PROVE  Inv' /\ rows' = rows
<1> USE DEF Inv
<1>1. rows' = rows /\ posted' = posted
  BY DEF Start, CreateAll, Crash, Rename
<1>2. DbTypeOK'
  BY Types DEF DbNext, Boot
<1>3. Migrated'
  <2>1. CASE Start \/ CreateAll \/ Crash
    BY <2>1 DEF Start, CreateAll, Crash, Migrated
  <2>2. CASE Rename("renameClank", "value_sats", "sats_clank", "renameExt")
    BY <2>2 DEF Rename, Renames, Migrated
  <2>3. CASE Rename("renameExt", "zap_sats", "sats_ext", "addClank")
    BY <2>3 DEF Rename, Renames, Migrated
  <2> QED BY <2>1, <2>2, <2>3
<1>4. (HasClank => HasClank') /\ (HasExt => HasExt')
  <2>1. CASE Start \/ CreateAll \/ Crash
    BY <2>1 DEF Start, CreateAll, Crash, ThisEra, HasClank, HasExt
  <2>2. CASE Rename("renameClank", "value_sats", "sats_clank", "renameExt")
    BY <2>2 DEF Rename, Renames, HasClank, HasExt
  <2>3. CASE Rename("renameExt", "zap_sats", "sats_ext", "addClank")
    BY <2>3 DEF Rename, Renames, HasClank, HasExt
  <2> QED BY <2>1, <2>2, <2>3
<1>5. TalliesHaveColumns'
  BY <1>1, <1>4 DEF TalliesHaveColumns
<1>6. "origin" \in columns => "origin" \in columns'
  BY DEF Start, CreateAll, Crash, Rename, ThisEra
<1>7. PostedHere'
  BY <1>1, <1>6 DEF PostedHere
<1>8. justAdded' => justAdded /\ boot = "renameClank"
  BY DEF Start, CreateAll, Crash, Rename, JustAdded
<1>9. JustAdded'
  BY <1>8 DEF JustAdded
<1>10. Found'
  <2>1. CASE Crash
    BY <1>1, <2>1 DEF Found, Crash, JustAdded
  <2>2. CASE ~Crash
    <3>1. ingested' = ingested /\ boot # "backfill"
      BY <2>2 DEF Start, CreateAll, Rename
    <3> QED BY <1>1, <1>6, <3>1 DEF Found
  <2> QED BY <2>1, <2>2
<1> QED BY <1>1, <1>2, <1>3, <1>5, <1>7, <1>9, <1>10

\* What adding a column leaves of the rows: a tally is 0 if its column is missing.
LEMMA AddKeeps ==
  ASSUME Inv, AddTally \/ AddOrigin
  PROVE  /\ columns \subseteq columns'
         /\ \A n \in Notes : rows[n] # NoRow =>
              /\ rows'[n] # NoRow
              /\ rows'[n].clank = rows[n].clank /\ rows'[n].ext = rows[n].ext
              /\ "origin" \in columns => rows'[n].origin = rows[n].origin
              /\ posted # {} => rows'[n].origin = rows[n].origin
         /\ \A n \in Notes : rows'[n] # NoRow => rows[n] # NoRow
<1> USE DEF Inv
<1>1. ASSUME NEW step, NEW next, NEW column \in {"sats_clank", "sats_ext", "origin"},
             AddColumn(step, column, next), column \in columns
      PROVE  columns' = columns /\ rows' = rows
  BY <1>1 DEF AddColumn
<1>2. CASE AddColumn("addClank", "sats_clank", "addExt") /\ "sats_clank" \notin columns
  <2>1. \A n \in Notes : rows[n] # NoRow => rows[n].clank = 0
    BY <1>2 DEF AddColumn, Migrated, Renames, HasClank, TalliesHaveColumns
  <2> QED BY <1>2, <2>1, AddColumnRows
<1>3. CASE AddColumn("addExt", "sats_ext", "addOrigin") /\ "sats_ext" \notin columns
  <2>1. \A n \in Notes : rows[n] # NoRow => rows[n].ext = 0
    BY <1>3 DEF AddColumn, Migrated, Renames, HasExt, TalliesHaveColumns
  <2> QED BY <1>3, <2>1, AddColumnRows
<1>4. CASE AddColumn("addOrigin", "origin", "backfill") /\ "origin" \notin columns
  <2>1. posted = {}
    BY <1>4 DEF PostedHere
  <2> QED BY <1>4, <2>1, AddColumnRows
<1> QED BY <1>1, <1>2, <1>3, <1>4 DEF AddTally, AddOrigin

LEMMA AddSteps ==
  ASSUME Inv, AddTally \/ AddOrigin
  PROVE  Inv'
<1> USE DEF Inv
<1>1. DbTypeOK'
  BY Types DEF DbNext, Boot
<1>2. columns \subseteq columns'
  BY AddKeeps
<1>3. \A n \in Notes : rows[n] # NoRow =>
        /\ rows'[n] # NoRow
        /\ rows'[n].clank = rows[n].clank /\ rows'[n].ext = rows[n].ext
        /\ "origin" \in columns => rows'[n].origin = rows[n].origin
        /\ posted # {} => rows'[n].origin = rows[n].origin
  BY AddKeeps
<1>4. \A n \in Notes : rows'[n] # NoRow => rows[n] # NoRow
  BY AddKeeps
<1>5. posted' = posted
  BY DEF AddTally, AddOrigin, AddColumn
<1>6. Migrated'
  <2>1. CASE AddColumn("addClank", "sats_clank", "addExt")
    BY <2>1 DEF AddColumn, Migrated, Renames
  <2>2. CASE AddColumn("addExt", "sats_ext", "addOrigin")
    BY <2>2 DEF AddColumn, Migrated, Renames
  <2>3. CASE AddColumn("addOrigin", "origin", "backfill")
    BY <2>3 DEF AddColumn, Migrated, Renames
  <2> QED BY <2>1, <2>2, <2>3 DEF AddTally, AddOrigin
<1>7. TalliesHaveColumns'
  <2>1. (HasClank => HasClank') /\ (HasExt => HasExt')
    BY <1>2 DEF HasClank, HasExt
  <2> QED BY <1>3, <1>4, <2>1 DEF TalliesHaveColumns
<1>8. PostedHere'
  <2>1. \A n \in posted : n \in Notes /\ rows[n] # NoRow /\ rows[n].origin = "clankfeed"
    BY DEF PostedHere, DbTypeOK
  <2>2. "origin" \notin columns' => posted = {}
    BY <1>2 DEF PostedHere
  <2> QED BY <1>3, <1>5, <2>1, <2>2 DEF PostedHere
<1>9. JustAdded'
  <2>1. CASE AddTally
    BY <2>1 DEF AddTally, AddColumn, JustAdded
  <2>2. CASE AddOrigin
    BY <1>5, <2>2 DEF AddOrigin, AddColumn, PostedHere, JustAdded
  <2> QED BY <2>1, <2>2
<1>10. Found'
  <2>1. CASE ingested' = ingested
    <3>1. boot # "backfill"
      BY DEF AddTally, AddOrigin, AddColumn
    <3>2. \A n \in ingested : n \in Notes
      BY DEF DbTypeOK
    <3> QED BY <1>2, <1>3, <2>1, <3>1, <3>2 DEF Found
  <2>2. CASE ingested' # ingested
    <3>1. AddOrigin /\ "origin" \notin columns
      BY <2>2 DEF AddTally, AddOrigin
    <3>2. boot' = "backfill" /\ justAdded' /\ ingested' = {n \in Notes : LooksIngested(n)}
      BY <3>1 DEF AddOrigin, AddColumn
    <3>3. \A n \in ingested' : LooksIngested(n)'
      BY <1>3, <3>2 DEF LooksIngested
    <3> QED BY <3>2, <3>3 DEF Found
  <2> QED BY <2>1, <2>2
<1> QED BY <1>1, <1>6, <1>7, <1>8, <1>9, <1>10

LEMMA BackfillSteps ==
  ASSUME Inv, Backfill
  PROVE  /\ Inv'
         /\ \A n \in Notes : rows[n] # NoRow =>
              rows'[n] # NoRow /\ rows'[n].clank = rows[n].clank /\ rows'[n].ext = rows[n].ext
<1> USE DEF Inv
<1>1. DbTypeOK'
  BY Types DEF DbNext, Boot
<1>2. ASSUME NEW n \in Notes, rows[n] # NoRow
      PROVE  /\ rows'[n] # NoRow
             /\ rows'[n].clank = rows[n].clank /\ rows'[n].ext = rows[n].ext
             /\ rows'[n].origin = IF justAdded /\ LooksIngested(n) THEN "external" ELSE rows[n].origin
  <2>1. rows[n] \in Rows
    BY <1>2, RowOf
  <2>2. PICK row : row = [rows[n] EXCEPT !.origin = "external"]
    OBVIOUS
  <2>3. row \in Rows /\ row.clank = rows[n].clank /\ row.ext = rows[n].ext /\ row.origin = "external"
    BY <2>1, <2>2 DEF Rows
  <2>4. rows'[n] = IF justAdded /\ LooksIngested(n) THEN row ELSE rows[n]
    BY <2>2 DEF Backfill, BackfillDue
  <2> QED BY <1>2, <2>3, <2>4, NoRowAssumption
<1>3. \A n \in Notes : rows'[n] # NoRow => rows[n] # NoRow
  BY DEF Backfill, BackfillDue, LooksIngested
<1>4. boot = "backfill" /\ boot' = "up" /\ ~justAdded' /\ columns' = columns /\ posted' = posted
      /\ ingested' = ingested
  BY DEF Backfill
<1>5. "origin" \in columns
  BY <1>4 DEF Migrated
<1>6. Migrated'
  BY <1>4 DEF Migrated
<1>7. TalliesHaveColumns'
  BY <1>2, <1>3, <1>4 DEF TalliesHaveColumns, HasClank, HasExt
<1>8. PostedHere'
  <2>1. \A n \in posted : n \in Notes /\ rows[n] # NoRow /\ rows[n].origin = "clankfeed" /\ ~justAdded
    BY DEF PostedHere, JustAdded, DbTypeOK
  <2> QED BY <1>2, <1>4, <1>5, <2>1 DEF PostedHere
<1>9. JustAdded'
  BY <1>4 DEF JustAdded
<1>10. Found'
  <2>1. CASE justAdded /\ \A n \in ingested : LooksIngested(n)
    <3>1. \A n \in ingested : n \in Notes /\ rows[n] # NoRow
      BY <2>1 DEF DbTypeOK, LooksIngested
    <3> QED BY <1>2, <1>4, <1>5, <2>1, <3>1 DEF Found
  <2>2. CASE ingested = {}
    BY <1>4, <2>2 DEF Found
  <2>3. CASE \A n \in ingested : rows[n] # NoRow /\ rows[n].origin = "external"
    <3>1. \A n \in ingested : n \in Notes
      BY DEF DbTypeOK
    <3> QED BY <1>2, <1>4, <1>5, <2>3, <3>1 DEF Found
  <2> QED BY <2>1, <2>2, <2>3 DEF Found
<1> QED BY <1>1, <1>2, <1>6, <1>7, <1>8, <1>9, <1>10

-----------------------------------------------------------------------------
(* The theorems *)

LEMMA Initially ==
  ASSUME DbInit
  PROVE  Inv
<1>1. DbTypeOK
  <2>1. columns \subseteq Columns
    BY ErasAssumption DEF DbInit, Columns
  <2>2. rows \in [Notes -> Rows \cup {NoRow}]
    BY DEF DbInit
  <2>3. boots \in 0..MaxBoots
    BY BoundsAssumption DEF DbInit
  <2>4. boot = "down" /\ justAdded = FALSE /\ posted = {} /\ ingested = {}
    BY DEF DbInit
  <2> QED BY <2>1, <2>2, <2>3, <2>4 DEF DbTypeOK
<1>2. TalliesHaveColumns
  BY DEF DbInit, TalliesHaveColumns, HasClank, HasExt, Stored
<1> QED BY <1>1, <1>2 DEF DbInit, Inv, Migrated, PostedHere, JustAdded, Found

LEMMA Stepwise ==
  ASSUME Inv, [DbNext]_dbVars
  PROVE  Inv'
<1>1. CASE UNCHANGED dbVars
  BY <1>1 DEF dbVars, Inv, DbTypeOK, Migrated, Renames, TalliesHaveColumns, HasClank, HasExt,
              PostedHere, JustAdded, Found, LooksIngested
<1>2. CASE DbNext
  BY <1>2, UpSteps, QuietSteps, AddSteps, BackfillSteps DEF DbNext, Boot
<1> QED BY <1>1, <1>2

LEMMA Always == DbSpec => []Inv
BY Initially, Stepwise, PTL DEF DbSpec

\* The tables and the steps of init_db keep their types, whatever age the database has.
THEOREM DbTypeCorrect == DbSpec => []DbTypeOK
<1>1. Inv => DbTypeOK
  BY DEF Inv
<1> QED BY <1>1, Always, PTL

\* A note that was posted here stays in the feed, whatever happens to its tallies and however
\* often the process boots: the flag of the backfill is only up before the first post.
THEOREM PostedStay == DbSpec => []PostedHereIsShown
<1>1. Inv => PostedHereIsShown
  BY DEF Inv, DbTypeOK, PostedHere, PostedHereIsShown, Feed, Stored, Hidden
<1> QED BY <1>1, Always, PTL

\* The backfill finds every ingested note of an old database, unless the process died between the
\* column and the backfill.
THEOREM Backfilled == DbSpec => []BackfilledUnlessCrashed
<1>1. Inv => BackfilledUnlessCrashed
  BY DEF Inv, Found, BackfilledUnlessCrashed
<1> QED BY <1>1, Always, PTL

\* No boot loses a tally, at whatever columns the one before it died.
THEOREM TalliesKept == DbSpec => TalliesSurvive
<1>1. ASSUME Inv, [DbNext]_dbVars, boot # "up"
      PROVE  \A n \in Notes : rows[n] # NoRow =>
               rows'[n] # NoRow /\ rows'[n].clank = rows[n].clank /\ rows'[n].ext = rows[n].ext
  <2>1. CASE UNCHANGED dbVars
    BY <2>1 DEF dbVars
  <2>2. CASE DbNext
    <3>1. ~Credit /\ \A n \in Notes : ~Post(n) /\ ~Ingest(n)
      BY <1>1 DEF Credit, Zap, Vote, SetTallies, Post, Ingest
    <3> QED BY <1>1, <2>2, <3>1, QuietSteps, AddKeeps, BackfillSteps DEF DbNext, Boot
  <2> QED BY <1>1, <2>1, <2>2
<1>2. Inv /\ [DbNext]_dbVars =>
        [boot # "up" =>
           \A n \in Notes : rows[n] # NoRow =>
             rows'[n] # NoRow /\ rows'[n].clank = rows[n].clank /\ rows'[n].ext = rows[n].ext]_dbVars
  BY <1>1
<1> QED BY <1>2, Always, PTL DEF DbSpec, TalliesSurvive

-----------------------------------------------------------------------------
(* The newest of a set of notes *)

\* Induction, as the existence of a smallest number.
LEMMA LeastNat ==
  ASSUME NEW N \in SUBSET Nat, N # {}
  PROVE  \E m \in N : \A n \in N : m <= n
<1>. DEFINE R == {ss \in Nat \X Nat : ss[1] < ss[2]}
<1>1. IsWellFoundedOn(R, Nat)
  BY NatLessThanWellFounded DEF OpToRel
<1>2. PICK m \in N : \A n \in N : <<n, m>> \notin R
  <2> HIDE DEF R
  <2> QED BY <1>1, WFMin
<1>3. ASSUME NEW n \in N PROVE m <= n
  <2>1. ~(n < m)
    BY <1>2
  <2> QED BY <2>1
<1> QED BY <1>3

\* The notes of a set that are newer than a.
Above(notes, a) == {b \in notes : At[b] > At[a]}

LEMMA AboveFinite ==
  ASSUME NEW notes \in SUBSET Notes, NEW a
  PROVE  /\ IsFiniteSet(notes) /\ IsFiniteSet(Above(notes, a))
         /\ Cardinality(Above(notes, a)) \in Nat
<1>1. IsFiniteSet(notes)
  BY NotesAssumption, FS_Subset
<1>2. Above(notes, a) \in SUBSET notes
  BY DEF Above
<1> QED BY <1>1, <1>2, FS_Subset, FS_CardinalityType

LEMMA NewestAbove ==
  ASSUME NEW limit, NEW notes
  PROVE  Newest(limit, notes) = {a \in notes : Cardinality(Above(notes, a)) < limit}
BY DEF Newest, Above

\* A newer note has fewer notes above it.
LEMMA AboveShrinks ==
  ASSUME NEW notes \in SUBSET Notes, NEW a \in notes, NEW b \in notes, At[b] > At[a]
  PROVE  Cardinality(Above(notes, b)) < Cardinality(Above(notes, a))
<1>1. At[a] \in Nat /\ At[b] \in Nat /\ \A n \in notes : At[n] \in Nat
  BY AtAssumption
<1>2. Above(notes, b) \in SUBSET Above(notes, a) /\ b \in Above(notes, a) \ Above(notes, b)
  BY <1>1 DEF Above
<1>3. Cardinality(Above(notes, b)) <= Cardinality(Above(notes, a))
      /\ Cardinality(Above(notes, b)) # Cardinality(Above(notes, a))
  BY <1>2, AboveFinite, FS_Subset
<1>4. Cardinality(Above(notes, b)) \in Nat /\ Cardinality(Above(notes, a)) \in Nat
  BY AboveFinite
<1> QED BY <1>3, <1>4

\* What is left out is older than all that is kept.
LEMMA NewestIsNewer ==
  ASSUME NEW limit \in Nat, NEW notes \in SUBSET Notes,
         NEW a \in notes \ Newest(limit, notes), NEW b \in Newest(limit, notes)
  PROVE  At[b] > At[a]
<1>1. a \in Notes /\ b \in Notes /\ b \in notes
  BY NewestAbove
<1>2. At[a] \in Nat /\ At[b] \in Nat /\ a # b
  BY <1>1, AtAssumption
<1>3. Cardinality(Above(notes, b)) < limit /\ ~(Cardinality(Above(notes, a)) < limit)
  BY NewestAbove
<1>4. Cardinality(Above(notes, b)) \in Nat /\ Cardinality(Above(notes, a)) \in Nat
  BY AboveFinite
<1>5. ~(At[a] > At[b])
  <2>1. At[a] > At[b] => Cardinality(Above(notes, a)) < Cardinality(Above(notes, b))
    BY <1>1, AboveShrinks
  <2> QED BY <1>3, <1>4, <2>1
<1>6. At[a] # At[b]
  BY <1>1, <1>2, AtAssumption
<1> QED BY <1>2, <1>5, <1>6

\* If something is left out, the limit is reached.
LEMMA NewestFull ==
  ASSUME NEW limit \in Nat \ {0}, NEW notes \in SUBSET Notes,
         NEW out \in notes \ Newest(limit, notes)
  PROVE  Cardinality(Newest(limit, notes)) = limit
<1> DEFINE top == Newest(limit, notes)
           rank(a) == Cardinality(Above(notes, a))
<1>1. /\ top \in SUBSET notes
      /\ \A a \in notes : rank(a) \in Nat /\ (a \in top <=> rank(a) < limit)
  BY NewestAbove, AboveFinite
<1>2. \A a, b \in notes : At[b] > At[a] => rank(b) < rank(a)
  BY AboveShrinks
<1>3. \A a \in notes \ top, b \in top : At[b] > At[a]
  BY NewestIsNewer
<1>4. \A a \in notes : Above(notes, a) = {b \in notes : At[b] > At[a]}
  BY DEF Above
<1>5. \A a \in notes : At[a] \in Nat
  BY AtAssumption
<1> HIDE DEF top, rank
\* The newest of those that are left out has exactly the kept ones above it.
<1>6. PICK a \in notes \ top : \A b \in notes \ top : rank(a) <= rank(b)
  <2> DEFINE N == {rank(b) : b \in notes \ top}
  <2>1. N \in SUBSET Nat /\ N # {}
    BY <1>1 DEF top
  <2>2. PICK m \in N : \A n \in N : m <= n
    BY <2>1, LeastNat
  <2> QED BY <2>2
<1>7. Above(notes, a) = top
  <2>1. top \subseteq Above(notes, a)
    BY <1>1, <1>3, <1>4, <1>6
  <2>2. ASSUME NEW b \in Above(notes, a), b \notin top
        PROVE  FALSE
    <3>1. b \in notes /\ rank(b) < rank(a) /\ rank(a) <= rank(b)
      BY <1>2, <1>4, <1>6, <2>2
    <3> QED BY <1>1, <1>6, <3>1
  <2> QED BY <2>1, <2>2
<1>8. Cardinality(top) \in Nat /\ Cardinality(top) >= limit
  <2>1. Cardinality(top) = rank(a)
    BY <1>7 DEF rank
  <2> QED BY <1>1, <1>6, <2>1
\* The oldest of the kept ones has all the others above it.
<1>9. top # {} /\ IsFiniteSet(top)
  <2>1. IsFiniteSet(top)
    BY <1>1, AboveFinite
  <2> QED BY <1>8, <2>1, FS_EmptySet
<1>10. PICK y \in top : \A b \in top : At[y] <= At[b]
  <2> DEFINE N == {At[b] : b \in top}
  <2>1. N \in SUBSET Nat /\ N # {}
    BY <1>1, <1>5, <1>9
  <2>2. PICK m \in N : \A n \in N : m <= n
    BY <2>1, LeastNat
  <2> QED BY <2>2
<1>11. top \ {y} \in SUBSET Above(notes, y)
  <2>1. ASSUME NEW b \in top, b # y PROVE At[b] > At[y]
    <3>1. At[b] # At[y]
      BY <1>1, <1>10, <2>1, AtAssumption
    <3> QED BY <1>1, <1>5, <1>10, <3>1
  <2> QED BY <1>1, <1>4, <1>10, <2>1
<1>12. Cardinality(top \ {y}) <= rank(y)
  BY <1>11, AboveFinite, FS_Subset DEF rank
<1>13. Cardinality(top \ {y}) = Cardinality(top) - 1
  BY <1>9, <1>10, FS_RemoveElement
<1>14. rank(y) \in Nat /\ rank(y) < limit
  BY <1>1, <1>10
<1> QED BY <1>8, <1>12, <1>13, <1>14 DEF top

-----------------------------------------------------------------------------
(* The requests for a thread *)

\* What stored notes make of a request: it has only replies to its parent, those it owes are
\* stored, and its page lacks only what newer replies crowd out.
Answers(e, stored) ==
  /\ \A n \in e.due : n \in stored /\ e.parent \in ParentsOf[n]
  /\ \A n \in e.got : e.parent \in ParentsOf[n]
  /\ e.at = "count" =>
       /\ \A n \in e.page : n \in stored /\ e.parent \in ParentsOf[n]
       /\ \A n \in e.due \ e.page :
            /\ Cardinality(e.page) = PageLimit
            /\ \A newer \in e.page : At[newer] > At[n]

FeedInv ==
  /\ Inv
  /\ FeedTypeOK
  /\ \A q \in Requests : req[q] # NoRequest => Answers(req[q], Stored)

LEMMA AnswersStay ==
  ASSUME NEW e, NEW stored, NEW more, stored \subseteq more, Answers(e, stored)
  PROVE  Answers(e, more)
BY DEF Answers

\* No step of the feed, and none of init_db, takes a note away.
LEMMA StoredStays ==
  ASSUME Inv, [DbNext]_dbVars
  PROVE  Stored \subseteq Stored'
<1>1. CASE UNCHANGED dbVars
  BY <1>1 DEF dbVars, Stored
<1>2. CASE Credit
  <2>1. DbTypeOK
    BY DEF Inv
  <2> QED BY <1>2, <2>1, CreditForm, TalliesRows DEF Stored
<1>3. ASSUME NEW n \in Notes, Post(n) \/ Ingest(n)
      PROVE  Stored \subseteq Stored'
  BY <1>3 DEF Inv, DbTypeOK, Post, Ingest, Stored
<1>4. CASE Boot \/ Crash
  BY <1>4, QuietSteps, AddKeeps, BackfillSteps DEF Boot, Stored
<1> QED BY <1>1, <1>2, <1>3, <1>4 DEF DbNext

\* What a step of the feed is to the database.
LEMMA FeedStepIsDbStep ==
  ASSUME [FeedNext]_feedVars
  PROVE  [DbNext]_dbVars
BY DEF FeedNext, feedVars, Die, Elsewhere, Elapse, Expand, Answer, StoreReply, Step, Merge, Hydrated,
       HydrateFails, List, Count, PublishOutside, DbNext

\* A step of one request.
LEMMA OneRequest ==
  ASSUME FeedTypeOK, NEW q \in Requests, NEW e \in Expansions \cup {NoRequest},
         req' = [req EXCEPT ![q] = e]
  PROVE  /\ req' \in [Requests -> Expansions \cup {NoRequest}]
         /\ req'[q] = e
         /\ \A k \in Requests : k # q => req'[k] = req[k]
BY DEF FeedTypeOK

\* The same, when the request answers for what it has.
LEMMA OneStep ==
  ASSUME FeedInv, NEW q \in Requests, NEW e \in Expansions \cup {NoRequest},
         req' = [req EXCEPT ![q] = e], e # NoRequest => Answers(e, Stored),
         UNCHANGED <<dbVars, held>>, fresh' \in [Expanded -> 0..HydrateTTL]
  PROVE  FeedInv'
<1>1. Stored' = Stored
  BY DEF dbVars, Stored
<1>2. Inv'
  BY Stepwise DEF FeedInv
<1>3. FeedTypeOK'
  BY <1>2, OneRequest DEF FeedInv, FeedTypeOK, Inv
<1>4. \A k \in Requests : req'[k] # NoRequest => Answers(req'[k], Stored)
  BY OneRequest DEF FeedInv
<1> QED BY <1>1, <1>2, <1>3, <1>4 DEF FeedInv

LEMMA PageShows ==
  ASSUME NEW p, PageLimit \in Nat \ {0}
  PROVE  /\ Page(p) \subseteq Replies(p) /\ Replies(p) \subseteq Notes
         /\ \A n \in Replies(p) \ Page(p) :
              /\ Cardinality(Page(p)) = PageLimit
              /\ \A newer \in Page(p) : At[newer] > At[n]
<1>1. Replies(p) \in SUBSET Notes
  BY DEF Replies, Stored
<1>2. Page(p) \subseteq Replies(p)
  BY NewestAbove DEF Page
<1> QED BY <1>1, <1>2, NewestFull, NewestIsNewer DEF Page

LEMMA RequestSteps ==
  ASSUME FeedInv, NEW q \in Requests,
         \/ \E p \in Expanded, refresh \in BOOLEAN : Expand(q, p, refresh)
         \/ \E r \in Relays : Answer(q, r)
         \/ Step(q)
  PROVE  FeedInv'
<1>1. FeedTypeOK /\ (req[q] # NoRequest => req[q] \in Expansions /\ Answers(req[q], Stored))
  BY DEF FeedInv, FeedTypeOK
<1>2. fresh \in [Expanded -> 0..HydrateTTL] /\ held \in [Relays -> SUBSET Notes]
  BY <1>1 DEF FeedTypeOK
<1>3. ASSUME NEW p \in Expanded, NEW refresh \in BOOLEAN, Expand(q, p, refresh)
      PROVE  FeedInv'
  <2>1. PICK e : e = [at |-> IF fresh[p] = 0 \/ refresh THEN "ask" ELSE "list", parent |-> p,
                      waiting |-> Relays, got |-> {}, due |-> Replies(p), page |-> {}]
    OBVIOUS
  <2>2. e \in Expansions
    BY <2>1 DEF Expansions, Replies, Stored
  <2>3. Answers(e, Stored)
    BY <2>1 DEF Answers, Replies
  <2>4. req' = [req EXCEPT ![q] = e] /\ UNCHANGED <<dbVars, held, fresh>>
    BY <1>3, <2>1 DEF Expand
  <2> QED BY <1>2, <2>2, <2>3, <2>4, OneStep
<1>4. ASSUME NEW r \in Relays, Answer(q, r)
      PROVE  FeedInv'
  <2>1. PICK new : new = Newest(FetchLimit, {n \in held[r] : req[q].parent \in ParentsOf[n]})
    OBVIOUS
  <2>2. PICK e : e = [req[q] EXCEPT !.waiting = @ \ {r}, !.got = @ \cup new]
    OBVIOUS
  <2>3. req' = [req EXCEPT ![q] = e] /\ req[q] # NoRequest /\ UNCHANGED <<dbVars, held, fresh>>
        /\ req[q].at = "ask"
    BY <1>4, <2>1, <2>2 DEF Answer, Doing
  <2>4. new \in SUBSET Notes /\ \A n \in new : req[q].parent \in ParentsOf[n]
    BY <1>2, <2>1, NewestAbove
  <2>5. req[q] \in Expansions
    BY <1>1, <2>3
  <2>6. e \in Expansions /\ e.at = "ask" /\ e.parent = req[q].parent /\ e.due = req[q].due
        /\ e.got = req[q].got \cup new
    BY <2>2, <2>3, <2>4, <2>5 DEF Expansions
  <2>7. Answers(e, Stored)
    BY <1>1, <2>3, <2>4, <2>6 DEF Answers
  <2> QED BY <1>2, <2>3, <2>6, <2>7, OneStep
<1>5. CASE Merge(q)
  <2>1. PICK e : e = [req[q] EXCEPT !.at = "store", !.waiting = {}]
    OBVIOUS
  <2>2. req' = [req EXCEPT ![q] = e] /\ req[q] # NoRequest /\ UNCHANGED <<dbVars, held, fresh>>
    BY <1>5, <2>1 DEF Merge, Doing
  <2>3. req[q] \in Expansions
    BY <1>1, <2>2
  <2>4. e \in Expansions /\ e.at = "store" /\ e.parent = req[q].parent /\ e.due = req[q].due
        /\ e.got = req[q].got
    BY <2>1, <2>3 DEF Expansions
  <2>5. Answers(e, Stored)
    BY <1>1, <2>2, <2>4 DEF Answers
  <2> QED BY <1>2, <2>2, <2>4, <2>5, OneStep
<1>6. CASE Hydrated(q)
  <2>1. PICK e : e = [req[q] EXCEPT !.at = "list", !.got = {}, !.due = @ \cup req[q].got]
    OBVIOUS
  <2>2. req' = [req EXCEPT ![q] = e] /\ req[q] # NoRequest /\ UNCHANGED <<dbVars, held>>
        /\ req[q].got \subseteq Stored /\ fresh' = [fresh EXCEPT ![req[q].parent] = HydrateTTL]
    BY <1>6, <2>1 DEF Hydrated, Doing
  <2>3. req[q] \in Expansions
    BY <1>1, <2>2
  <2>4. e \in Expansions /\ e.at = "list" /\ e.parent = req[q].parent
        /\ e.due = req[q].due \cup req[q].got /\ e.got = {}
    BY <2>1, <2>3 DEF Expansions
  <2>5. Answers(e, Stored)
    BY <1>1, <2>2, <2>4 DEF Answers
  <2>6. fresh' \in [Expanded -> 0..HydrateTTL]
    <3>1. HydrateTTL \in 0..HydrateTTL
      BY LimitsAssumption
    <3> QED BY <1>2, <2>2, <3>1
  <2> QED BY <2>2, <2>4, <2>5, <2>6, OneStep
<1>7. CASE HydrateFails(q)
  <2>1. PICK e : e = [req[q] EXCEPT !.at = "list", !.got = {}]
    OBVIOUS
  <2>2. req' = [req EXCEPT ![q] = e] /\ req[q] # NoRequest /\ UNCHANGED <<dbVars, held, fresh>>
    BY <1>7, <2>1 DEF HydrateFails, Doing
  <2>3. req[q] \in Expansions
    BY <1>1, <2>2
  <2>4. e \in Expansions /\ e.at = "list" /\ e.parent = req[q].parent /\ e.due = req[q].due
        /\ e.got = {}
    BY <2>1, <2>3 DEF Expansions
  <2>5. Answers(e, Stored)
    BY <1>1, <2>2, <2>4 DEF Answers
  <2> QED BY <1>2, <2>2, <2>4, <2>5, OneStep
<1>8. CASE List(q)
  <2>1. PICK e : e = [req[q] EXCEPT !.at = "count", !.page = Page(req[q].parent)]
    OBVIOUS
  <2>2. req' = [req EXCEPT ![q] = e] /\ req[q] # NoRequest /\ UNCHANGED <<dbVars, held, fresh>>
    BY <1>8, <2>1 DEF List, Doing
  <2>3. PICK page : page = Page(req[q].parent)
    OBVIOUS
  <2>4. /\ page \subseteq Replies(req[q].parent) /\ page \subseteq Notes
        /\ \A n \in Replies(req[q].parent) \ page :
             /\ Cardinality(page) = PageLimit
             /\ \A newer \in page : At[newer] > At[n]
    BY <2>3, PageShows, LimitsAssumption
  <2>5. req[q] \in Expansions
    BY <1>1, <2>2
  <2>6. e \in Expansions /\ e.at = "count" /\ e.parent = req[q].parent /\ e.due = req[q].due
        /\ e.got = req[q].got /\ e.page = page
    BY <2>1, <2>3, <2>4, <2>5 DEF Expansions
  <2>7. Answers(e, Stored)
    BY <1>1, <2>2, <2>4, <2>6 DEF Answers, Replies
  <2> QED BY <1>2, <2>2, <2>6, <2>7, OneStep
<1>9. CASE Count(q)
  BY <1>2, <1>9, OneStep DEF Count
<1> QED BY <1>3, <1>4, <1>5, <1>6, <1>7, <1>8, <1>9 DEF Step

LEMMA FeedInitially ==
  ASSUME FeedInit
  PROVE  FeedInv
<1>1. Inv
  BY Initially DEF FeedInit
<1>2. FeedTypeOK
  BY <1>1, LimitsAssumption DEF FeedInit, FeedTypeOK, Inv
<1> QED BY <1>1, <1>2 DEF FeedInv, FeedInit

LEMMA FeedStepwise ==
  ASSUME FeedInv, [FeedNext]_feedVars
  PROVE  FeedInv'
<1>1. Inv /\ FeedTypeOK /\ Inv' /\ Stored \subseteq Stored'
  BY FeedStepIsDbStep, Stepwise, StoredStays DEF FeedInv
<1>2. DbTypeOK'
  BY <1>1 DEF Inv
<1>3. \A q \in Requests : req[q] # NoRequest => Answers(req[q], Stored')
  BY <1>1, AnswersStay DEF FeedInv
<1>4. CASE UNCHANGED threadVars
  BY <1>1, <1>2, <1>3, <1>4 DEF threadVars, FeedInv, FeedTypeOK
<1>5. CASE Die
  BY <1>1, <1>2, <1>5, LimitsAssumption DEF Die, FeedInv, FeedTypeOK
<1>6. CASE Elapse
  <2>1. \A p \in Expanded :
          fresh[p] \in 0..HydrateTTL /\ (IF fresh[p] > 0 THEN fresh[p] - 1 ELSE 0) \in 0..HydrateTTL
    BY <1>1, LimitsAssumption DEF FeedTypeOK
  <2>2. fresh' \in [Expanded -> 0..HydrateTTL]
    BY <1>6, <2>1 DEF Elapse
  <2> QED BY <1>1, <1>2, <1>3, <1>6, <2>2 DEF Elapse, FeedInv, FeedTypeOK
<1>7. ASSUME NEW r \in Relays, NEW n \in Notes, PublishOutside(r, n)
      PROVE  FeedInv'
  <2>1. held' \in [Relays -> SUBSET Notes]
    BY <1>1, <1>7 DEF PublishOutside, FeedTypeOK
  <2> QED BY <1>1, <1>2, <1>3, <1>7, <2>1 DEF PublishOutside, FeedInv, FeedTypeOK
<1> QED BY <1>4, <1>5, <1>6, <1>7, RequestSteps
        DEF FeedNext, feedVars, Elsewhere, StoreReply

LEMMA FeedAlways == FeedSpec => []FeedInv
BY FeedInitially, FeedStepwise, PTL DEF FeedSpec

\* Threads do nothing to the notes that OriginColumn does not allow: its theorems hold of them,
\* and the feed of FeedSpec is the one that the migrations leave.
THEOREM FeedImplementsDb == FeedSpec => DbSpec
<1>1. FeedInit => DbInit
  BY DEF FeedInit
<1> QED BY <1>1, FeedStepIsDbStep, PTL DEF FeedSpec, DbSpec

\* What hydration stores takes no posted note out of the feed, hides no backfilled one and costs
\* no tally.
THEOREM FeedKeepsNotes == FeedSpec => []PostedHereIsShown /\ []BackfilledUnlessCrashed /\ TalliesSurvive
BY FeedImplementsDb, PostedStay, Backfilled, TalliesKept, PTL

\* The requests for threads, what the relays hold and the entries of _replies_hydrate_at keep
\* their types.
THEOREM FeedTypeCorrect == FeedSpec => []FeedTypeOK
<1>1. FeedInv => FeedTypeOK
  BY DEF FeedInv
<1> QED BY <1>1, FeedAlways, PTL

\* A page lacks a reply it owes only if it is full of newer ones, and its total covers it, however
\* many requests, ingests and crashes come between the fetch, the page and the count.
THEOREM PagesShowWhatIsDue == FeedSpec => []AnswerShowsWhatIsDue
<1>1. ASSUME FeedInv, NEW q \in Requests, Doing(q, "count")
      PROVE  /\ Cardinality(req[q].page) <= Total(req[q].parent)
             /\ \A n \in req[q].due \ req[q].page :
                  /\ Cardinality(req[q].page) = PageLimit
                  /\ \A newer \in req[q].page : At[newer] > At[n]
  <2>1. Answers(req[q], Stored) /\ req[q].at = "count"
    BY <1>1 DEF FeedInv, Doing
  <2>2. req[q].page \in SUBSET Replies(req[q].parent) /\ Replies(req[q].parent) \in SUBSET Notes
    BY <2>1 DEF Answers, Replies, Stored
  <2>3. Cardinality(req[q].page) <= Total(req[q].parent)
    BY <2>2, NotesAssumption, FS_Subset DEF Total
  <2> QED BY <2>1, <2>3 DEF Answers
<1>2. FeedInv => AnswerShowsWhatIsDue
  BY <1>1 DEF AnswerShowsWhatIsDue
<1> QED BY <1>2, FeedAlways, PTL

-----------------------------------------------------------------------------
(* The counts of a batch *)

\* The note of a batch under which a row is counted is the first one that it replies to.
LEMMA FirstParentIs ==
  ASSUME NEW batch \in Seq(Notes), NEW n, NEW i \in 1..Len(batch), batch[i] \in ParentsOf[n]
  PROVE  \E k \in 1..i :
           /\ batch[k] \in ParentsOf[n]
           /\ \A j \in 1..(k - 1) : batch[j] \notin ParentsOf[n]
           /\ FirstParent(batch, n) = batch[k]
<1> DEFINE I == {k \in 1..Len(batch) : batch[k] \in ParentsOf[n]}
<1>1. I \in SUBSET Nat /\ I # {} /\ Len(batch) \in Nat
  OBVIOUS
<1>2. PICK m \in I : \A k \in I : m <= k
  BY <1>1, LeastNat
<1>3. Min(I) = m
  <2>1. \A x \in I : (\A k \in I : x <= k) => x = m
    BY <1>1, <1>2
  <2> QED BY <1>2, <2>1 DEF Min
<1>4. FirstParent(batch, n) = batch[m]
  BY <1>1, <1>3 DEF FirstParent, SelectInSeq
<1>5. m \in 1..i /\ \A j \in 1..(m - 1) : batch[j] \notin ParentsOf[n]
  BY <1>1, <1>2
<1> QED BY <1>2, <1>4, <1>5

\* A batch names its notes once.
LEMMA Batches ==
  ASSUME NEW batch \in SetToSeqs(Threads)
  PROVE  /\ batch \in Seq(Notes)
         /\ \A i, j \in 1..Len(batch) : batch[i] = batch[j] => i = j
<1>1. Threads \in SUBSET Notes
  BY ParentsAssumption DEF Threads
<1>2. IsFiniteSet(Threads) /\ Cardinality(Threads) \in Nat
  BY <1>1, NotesAssumption, FS_Subset, FS_CardinalityType
<1>3. /\ batch \in [1..Cardinality(Threads) -> Threads]
      /\ \A i, j \in 1..Cardinality(Threads) : i # j => batch[i] # batch[j]
  BY DEF SetToSeqs
<1>4. batch \in Seq(Threads) /\ Len(batch) = Cardinality(Threads)
  BY <1>2, <1>3
<1>5. batch \in Seq(Notes)
  BY <1>1, <1>2, <1>3
<1> QED BY <1>3, <1>4, <1>5

\* What is counted for a note of a batch are its replies, less those to the notes before it.
LEMMA CountedFor ==
  ASSUME NEW batch \in SetToSeqs(Threads), NEW i \in 1..Len(batch)
  PROVE  {n \in Counted(batch) : FirstParent(batch, n) = batch[i]}
           = Replies(batch[i]) \ UNION {Replies(batch[j]) : j \in 1..(i - 1)}
<1> DEFINE earlier == UNION {Replies(batch[j]) : j \in 1..(i - 1)}
<1>1. batch \in Seq(Notes) /\ \A k, j \in 1..Len(batch) : batch[k] = batch[j] => k = j
  BY Batches
<1>2. Len(batch) \in Nat /\ ToSet(batch) = {batch[k] : k \in 1..Len(batch)}
  BY <1>1 DEF ToSet
<1>3. ASSUME NEW n \in Counted(batch), FirstParent(batch, n) = batch[i]
      PROVE  n \in Replies(batch[i]) \ earlier
  <2>1. PICK l \in 1..Len(batch) : n \in Replies(batch[l])
    BY <1>2, <1>3 DEF Counted
  <2>2. n \in Stored /\ batch[l] \in ParentsOf[n]
    BY <2>1 DEF Replies
  <2>3. PICK k \in 1..l : /\ batch[k] \in ParentsOf[n]
                          /\ \A j \in 1..(k - 1) : batch[j] \notin ParentsOf[n]
                          /\ FirstParent(batch, n) = batch[k]
    BY <1>1, <2>2, FirstParentIs
  <2>4. k \in 1..Len(batch) /\ batch[k] = batch[i]
    BY <1>2, <1>3, <2>3
  <2>5. k = i
    <3> HIDE DEF earlier
    <3> QED BY <1>1, <2>4
  <2> QED BY <2>2, <2>3, <2>5 DEF Replies
<1>4. ASSUME NEW n \in Replies(batch[i]), n \notin earlier
      PROVE  n \in Counted(batch) /\ FirstParent(batch, n) = batch[i]
  <2>1. n \in Stored /\ batch[i] \in ParentsOf[n]
    BY DEF Replies
  <2>2. \A j \in 1..(i - 1) : batch[j] \notin ParentsOf[n]
    BY <1>4, <2>1 DEF Replies
  <2>3. PICK k \in 1..i : batch[k] \in ParentsOf[n] /\ FirstParent(batch, n) = batch[k]
    BY <1>1, <2>1, FirstParentIs
  <2>4. k = i
    BY <1>2, <2>2, <2>3
  <2>5. n \in Counted(batch)
    BY <1>2 DEF Counted
  <2> QED BY <2>3, <2>4, <2>5
<1> QED BY <1>3, <1>4

\* reply-counts agrees with the requests for the threads, less what it counted before in its
\* batch: in every state, for every order of any batch of the threads.
THEOREM CountsAgree == FeedSpec => []CountsAgreeUnlessShared
<1>1. ASSUME NEW batch \in SetToSeqs(Threads), NEW i \in 1..Len(batch),
             NEW earlier, earlier = UNION {Replies(batch[j]) : j \in 1..(i - 1)}
      PROVE  ReplyCounts(batch)[batch[i]]
               = Total(batch[i]) - Cardinality(Replies(batch[i]) \cap earlier)
  <2>1. batch[i] \in ToSet(batch)
    BY Batches DEF ToSet
  <2>2. ReplyCounts(batch)[batch[i]] = Cardinality(Replies(batch[i]) \ earlier)
    BY <1>1, <2>1, CountedFor DEF ReplyCounts
  <2>3. IsFiniteSet(Replies(batch[i]))
    BY NotesAssumption, FS_Subset DEF Replies, Stored
  <2> QED BY <2>2, <2>3, FS_Difference DEF Total
<1>2. CountsAgreeUnlessShared
  BY <1>1 DEF CountsAgreeUnlessShared
<1> QED BY <1>2, PTL

=============================================================================
