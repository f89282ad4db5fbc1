--------------------------- MODULE ZapTalliesProofs -------------------------
(***************************************************************************)
(* Theorems of ZapLedger about the tallies: they never exceed what was     *)
(* zapped and posted, and are exact until a vote or a late write.          *)
(*                                                                         *)
(* First, that the sum over a finite set of receipts is what one expects:  *)
(* the fold that defines it takes the receipts in an order of its own, so  *)
(* that one receipt more adds its sats (SumWithout) is a theorem.  Then,   *)
(* which receipts cover the copies of the rows that the sessions hold.     *)
(***************************************************************************)
EXTENDS ZapLedgerProofs, FiniteSetTheorems

-----------------------------------------------------------------------------
(* Sums over finite sets of receipts *)

\* What the receipts in S are worth.
Sum(S) == MapThenSumSet(LAMBDA z : Sats[z], S)

\* The element that the fold takes first.
Pick(S) == CHOOSE x \in S : TRUE

\* g is the iteration of the fold, on the subsets of S.
Iter(g, S) ==
  g = [s \in SUBSET S |-> IF s = {} THEN 0 ELSE Sats[Pick(s)] + g[s \ {Pick(s)}]]

Below(S) == StrictSubsetOrdering(S)

\* Induction over the subsets of a finite set, as the existence of a smallest one among any of
\* them: a set theorem of the library, that strict inclusion is well founded there, takes the
\* place of a rule about an arbitrary predicate.
LEMMA Smallest ==
  ASSUME NEW S, IsFiniteSet(S), NEW Bad \in SUBSET SUBSET S, Bad # {}
  PROVE  \E m \in Bad : \A s \in SUBSET m : s # m => s \notin Bad
<1>1. IsWellFoundedOn(Below(S), SUBSET S)
  BY FS_StrictSubsetOrderingWellFounded, FS_FiniteSubsetsOfFinite DEF Below
<1>2. PICK m \in Bad : \A s \in Bad : <<s, m>> \notin Below(S)
  BY <1>1, WFMin
<1>3. ASSUME NEW s \in SUBSET m, s # m, s \in Bad
      PROVE  FALSE
  <2>1. s \in SUBSET S /\ m \in SUBSET S
    OBVIOUS
  <2>. QED
    BY <1>2, <1>3, <2>1 DEF Below, StrictSubsetOrdering
<1>. QED
  BY <1>3

LEMMA Picked ==
  ASSUME NEW S, S # {}
  PROVE  Pick(S) \in S
  BY DEF Pick

LEMMA IterStep ==
  ASSUME NEW S, NEW g, Iter(g, S), NEW s \in SUBSET S
  PROVE  g[s] = IF s = {} THEN 0 ELSE Sats[Pick(s)] + g[s \ {Pick(s)}]
<1>. DEFINE f == [u \in SUBSET S |-> IF u = {} THEN 0 ELSE Sats[Pick(u)] + g[u \ {Pick(u)}]]
<1>1. g = f
  BY DEF Iter
<1>2. f[s] = IF s = {} THEN 0 ELSE Sats[Pick(s)] + g[s \ {Pick(s)}]
  OBVIOUS
<1>. QED
  BY <1>1, <1>2

LEMMA IterUnique ==
  ASSUME NEW S, NEW T, IsFiniteSet(S), NEW g, NEW h, Iter(g, S), Iter(h, T)
  PROVE  \A s \in SUBSET S : s \in SUBSET T => g[s] = h[s]
<1>. DEFINE Bad == {s \in SUBSET S : s \in SUBSET T /\ g[s] # h[s]}
<1>1. SUFFICES ASSUME Bad # {}
               PROVE  FALSE
  OBVIOUS
<1>2. PICK m \in Bad : \A s \in SUBSET m : s # m => s \notin Bad
  <2>1. Bad \in SUBSET SUBSET S
    OBVIOUS
  <2>. HIDE DEF Bad
  <2>. QED
    BY <1>1, <2>1, Smallest
<1>. DEFINE s == m \ {Pick(m)}
<1>3. /\ g[m] = IF m = {} THEN 0 ELSE Sats[Pick(m)] + g[s]
      /\ h[m] = IF m = {} THEN 0 ELSE Sats[Pick(m)] + h[s]
  BY <1>2, IterStep
<1>4. m # {}
  BY <1>2, <1>3
<1>5. Pick(m) \in m
  BY <1>4, Picked
<1>6. s \in SUBSET m /\ s # m
  BY <1>5
<1>7. s \notin Bad /\ s \in SUBSET S /\ s \in SUBSET T
  BY <1>2, <1>6
<1>8. g[s] = h[s]
  BY <1>7
<1>. QED
  BY <1>2, <1>3, <1>8

LEMMA IterExists ==
  ASSUME NEW S, IsFiniteSet(S)
  PROVE  \E g : Iter(g, S)
<1>. DEFINE Bad == {s \in SUBSET S : ~\E g : Iter(g, s)}
<1>1. SUFFICES ASSUME Bad # {}
               PROVE  FALSE
  OBVIOUS
<1>2. PICK m \in Bad : \A s \in SUBSET m : s # m => s \notin Bad
  <2>1. Bad \in SUBSET SUBSET S
    OBVIOUS
  <2>. HIDE DEF Bad
  <2>. QED
    BY <1>1, <2>1, Smallest
<1>. DEFINE G(s) == CHOOSE g : Iter(g, s)
            R(s) == s \ {Pick(s)}
            h == [s \in SUBSET m |-> IF s = {} THEN 0 ELSE Sats[Pick(s)] + G(R(s))[R(s)]]
<1>3. ASSUME NEW s \in SUBSET m, s # m
      PROVE  Iter(G(s), s) /\ IsFiniteSet(s)
  <2>1. s \notin Bad /\ s \in SUBSET S
    BY <1>2, <1>3
  <2>2. \E g : Iter(g, s)
    BY <2>1
  <2>. QED
    BY <2>1, <2>2, FS_Subset
<1>4. ASSUME NEW s \in SUBSET m, s # {}
      PROVE  R(s) \in SUBSET m /\ R(s) # m /\ Pick(s) \in s
  BY <1>4, Picked
<1>5. ASSUME NEW s \in SUBSET m, s # m
      PROVE  h[s] = G(s)[s]
  <2>1. Iter(G(s), s) /\ IsFiniteSet(s)
    BY <1>3, <1>5
  <2>. HIDE DEF G
  <2>2. G(s)[s] = IF s = {} THEN 0 ELSE Sats[Pick(s)] + G(s)[R(s)]
    BY <2>1, IterStep
  <2>3. CASE s # {}
    <3>1. Iter(G(R(s)), R(s)) /\ IsFiniteSet(R(s))
      BY <1>3, <1>4, <2>3
    <3>2. R(s) \in SUBSET R(s) /\ R(s) \in SUBSET s
      OBVIOUS
    <3>3. G(R(s))[R(s)] = G(s)[R(s)]
      <4>. HIDE DEF R
      <4>. QED BY <2>1, <3>1, <3>2, IterUnique
    <3>. QED
      BY <2>2, <2>3, <3>3
  <2>. QED
    BY <2>2, <2>3
<1>6. ASSUME NEW s \in SUBSET m, s # {}
      PROVE  h[R(s)] = G(R(s))[R(s)]
  <2>. HIDE DEF G, h, R
  <2>. QED
  BY <1>4, <1>5, <1>6
<1>7. Iter(h, m)
  <2>1. ASSUME NEW s \in SUBSET m
        PROVE  (IF s = {} THEN 0 ELSE Sats[Pick(s)] + G(R(s))[R(s)])
             = (IF s = {} THEN 0 ELSE Sats[Pick(s)] + h[R(s)])
    <3>. HIDE DEF G, h, R
    <3>. QED
      BY <1>6
  <2>. HIDE DEF G
  <2>. QED
    BY <2>1 DEF Iter
<1>. QED
  BY <1>2, <1>7

\* The fold is well defined.
LEMMA SumIsIter ==
  ASSUME NEW S, IsFiniteSet(S), NEW T \in SUBSET S, NEW g, Iter(g, S)
  PROVE  Sum(T) = g[T]
<1>. DEFINE h == CHOOSE x : Iter(x, T)
<1>1. Sum(T) = h[T]
  BY DEF Sum, MapThenSumSet, MapThenFoldSet, Iter, Pick
<1>2. IsFiniteSet(T)
  BY FS_Subset
<1>3. Iter(h, T)
  BY <1>2, IterExists
<1>4. T \in SUBSET T
  OBVIOUS
<1>. HIDE DEF h
<1>. QED
  BY <1>1, <1>2, <1>3, <1>4, IterUnique

LEMMA SumEmpty == Sum({}) = 0
<1>1. IsFiniteSet({}) /\ {} \in SUBSET {}
  BY FS_EmptySet
<1>2. PICK g : Iter(g, {})
  BY <1>1, IterExists
<1>. QED
  BY <1>1, <1>2, SumIsIter, IterStep

LEMMA SumNonempty ==
  ASSUME NEW S, IsFiniteSet(S), S # {}
  PROVE  Pick(S) \in S /\ Sum(S) = Sats[Pick(S)] + Sum(S \ {Pick(S)})
<1>1. PICK g : Iter(g, S)
  BY IterExists
<1>. DEFINE T == S \ {Pick(S)}
<1>2. S \in SUBSET S /\ T \in SUBSET S
  OBVIOUS
<1>3. Sum(S) = g[S] /\ Sum(T) = g[T]
  <2>. HIDE DEF T
  <2>. QED BY <1>1, <1>2, SumIsIter
<1>4. g[S] = Sats[Pick(S)] + g[T]
  BY <1>1, <1>2, IterStep
<1>. QED
  BY <1>3, <1>4, Picked

LEMMA SumType ==
  ASSUME NEW S \in SUBSET Receipts, IsFiniteSet(S)
  PROVE  Sum(S) \in Nat
<1>. DEFINE Bad == {s \in SUBSET S : Sum(s) \notin Nat}
<1>1. SUFFICES ASSUME Bad # {}
               PROVE  FALSE
  OBVIOUS
<1>2. PICK m \in Bad : \A s \in SUBSET m : s # m => s \notin Bad
  <2>1. Bad \in SUBSET SUBSET S
    OBVIOUS
  <2>. HIDE DEF Bad
  <2>. QED
    BY <1>1, <2>1, Smallest
<1>3. m # {} /\ IsFiniteSet(m)
  <2>1. m \in SUBSET S /\ Sum(m) \notin Nat
    OBVIOUS
  <2>2. IsFiniteSet(m)
    BY <2>1, FS_Subset
  <2>. QED
    BY <2>1, <2>2, SumEmpty
<1>4. Pick(m) \in m /\ Sum(m) = Sats[Pick(m)] + Sum(m \ {Pick(m)})
  BY <1>3, SumNonempty
<1>5. Sum(m \ {Pick(m)}) \in Nat
  BY <1>2, <1>4
<1>6. Sats[Pick(m)] \in Nat
  BY <1>4, SatsAssumption
<1>. QED
  BY <1>2, <1>4, <1>5, <1>6

\* One more element adds its weight, whichever the fold picks first.
LEMMA SumWithout ==
  ASSUME NEW S \in SUBSET Receipts, IsFiniteSet(S), NEW z \in S
  PROVE  Sum(S) = Sats[z] + Sum(S \ {z})
<1>. DEFINE Bad == {s \in SUBSET S : \E x \in s : Sum(s) # Sats[x] + Sum(s \ {x})}
<1>1. SUFFICES ASSUME Bad # {}
               PROVE  FALSE
  OBVIOUS
<1>2. PICK m \in Bad : \A s \in SUBSET m : s # m => s \notin Bad
  <2>1. Bad \in SUBSET SUBSET S
    OBVIOUS
  <2>. HIDE DEF Bad
  <2>. QED
    BY <1>1, <2>1, Smallest
<1>3. PICK x \in m : Sum(m) # Sats[x] + Sum(m \ {x})
  BY <1>2
<1>. DEFINE p == Pick(m)
<1>4. m # {} /\ IsFiniteSet(m)
  BY <1>2, <1>3, FS_Subset
<1>5. p \in m /\ Sum(m) = Sats[p] + Sum(m \ {p})
  BY <1>4, SumNonempty
<1>6. p # x
  BY <1>3, <1>5
<1>. DEFINE rest == (m \ {p}) \ {x}
<1>7. Sum(m \ {p}) = Sats[x] + Sum(rest)
  <2>1. m \ {p} \in SUBSET m /\ m \ {p} # m /\ m \ {p} \in SUBSET S /\ x \in m \ {p}
    BY <1>2, <1>5, <1>6
  <2>. QED
    BY <1>2, <2>1
<1>8. Sum(m \ {x}) = Sats[p] + Sum(rest)
  <2>1. m \ {x} \in SUBSET m /\ m \ {x} # m /\ m \ {x} \in SUBSET S /\ p \in m \ {x}
    BY <1>2, <1>5, <1>6
  <2>2. (m \ {x}) \ {p} = rest
    OBVIOUS
  <2>. QED
    BY <1>2, <2>1, <2>2
<1>9. Sum(rest) \in Nat /\ Sats[p] \in Nat /\ Sats[x] \in Nat
  <2>1. rest \in SUBSET Receipts /\ rest \in SUBSET m /\ p \in Receipts /\ x \in Receipts
    BY <1>2, <1>5
  <2>. QED
    BY <1>4, <2>1, SumType, FS_Subset, SatsAssumption
<1>. QED
  BY <1>3, <1>5, <1>7, <1>8, <1>9

LEMMA SumMonotone ==
  ASSUME NEW S \in SUBSET Receipts, IsFiniteSet(S), NEW T \in SUBSET S
  PROVE  Sum(T) <= Sum(S)
<1>. DEFINE Bad == {s \in SUBSET S : T \subseteq s /\ ~(Sum(T) <= Sum(s))}
<1>1. SUFFICES ASSUME Bad # {}
               PROVE  FALSE
  <2>1. S \notin Bad
    OBVIOUS
  <2>. QED
    BY <2>1
<1>2. PICK m \in Bad : \A s \in SUBSET m : s # m => s \notin Bad
  <2>1. Bad \in SUBSET SUBSET S
    OBVIOUS
  <2>. HIDE DEF Bad
  <2>. QED
    BY <1>1, <2>1, Smallest
<1>3. m \in SUBSET Receipts /\ IsFiniteSet(m) /\ Sum(T) \in Nat
  <2>1. m \in SUBSET S /\ T \in SUBSET Receipts
    OBVIOUS
  <2>. QED
    BY <2>1, FS_Subset, SumType
<1>4. PICK x \in m : x \notin T
  <2>1. T # m
    BY <1>3
  <2>. QED
    BY <2>1
<1>5. Sum(m) = Sats[x] + Sum(m \ {x}) /\ Sats[x] \in Nat
  BY <1>3, SumWithout, SatsAssumption
<1>6. m \ {x} \notin Bad /\ T \subseteq m \ {x}
  BY <1>2, <1>4
<1>7. Sum(T) <= Sum(m \ {x}) /\ Sum(m \ {x}) \in Nat
  <2>1. Sum(T) <= Sum(m \ {x})
    BY <1>6
  <2>2. m \ {x} \in SUBSET Receipts /\ IsFiniteSet(m \ {x})
    BY <1>3, FS_Subset
  <2>. QED
    BY <2>1, <2>2, SumType
<1>. QED
  BY <1>2, <1>3, <1>5, <1>7

-----------------------------------------------------------------------------
(* What receipts cover of a tally *)

\* The receipts in stored for t.
For(st, t) == {z \in st : TargetOf[z] = t}

\* A tally that owes nothing to anything but the receipts in S, and to the price of the post.
Covers(tally, S) == tally.ext <= Sum(S) /\ tally.clank <= PostSats + Sum(S \cap FeeLegs)

LEMMA SumsOf ==
  ASSUME NEW S \in SUBSET Receipts, IsFiniteSet(S)
  PROVE  Sum(S) \in Nat /\ Sum(S \cap FeeLegs) \in Nat /\ IsFiniteSet(S \cap FeeLegs)
<1>1. S \cap FeeLegs \in SUBSET S /\ S \cap FeeLegs \in SUBSET Receipts
  OBVIOUS
<1>2. IsFiniteSet(S \cap FeeLegs)
  BY <1>1, FS_Subset
<1>. QED
  BY <1>1, <1>2, SumType

LEMMA SumsGrow ==
  ASSUME NEW S \in SUBSET Receipts, IsFiniteSet(S), NEW T \in SUBSET S
  PROVE  Sum(T) <= Sum(S) /\ Sum(T \cap FeeLegs) <= Sum(S \cap FeeLegs)
<1>1. S \cap FeeLegs \in SUBSET Receipts /\ T \cap FeeLegs \in SUBSET (S \cap FeeLegs)
  OBVIOUS
<1>. QED
  BY <1>1, SumMonotone, SumsOf

LEMMA SumsWithout ==
  ASSUME NEW S \in SUBSET Receipts, IsFiniteSet(S), NEW z \in S
  PROVE  /\ Sum(S) = Sum(S \ {z}) + Sats[z] /\ Sats[z] \in Nat \ {0}
         /\ Sum(S \cap FeeLegs) =
              IF z \in FeeLegs THEN Sum((S \ {z}) \cap FeeLegs) + Sats[z]
              ELSE Sum((S \ {z}) \cap FeeLegs)
<1>1. S \ {z} \in SUBSET Receipts /\ IsFiniteSet(S \ {z}) /\ Sats[z] \in Nat \ {0}
  BY FS_Subset, SatsAssumption
<1>2. Sum(S \ {z}) \in Nat /\ Sum((S \ {z}) \cap FeeLegs) \in Nat
  BY <1>1, SumsOf
<1>3. Sum(S) = Sum(S \ {z}) + Sats[z]
  <2>1. Sum(S) = Sats[z] + Sum(S \ {z})
    BY SumWithout
  <2>. QED
    BY <1>1, <1>2, <2>1
<1>4. CASE z \in FeeLegs
  <2>1. S \cap FeeLegs \in SUBSET Receipts /\ z \in S \cap FeeLegs
    BY <1>4
  <2>2. Sum(S \cap FeeLegs) = Sats[z] + Sum((S \cap FeeLegs) \ {z})
    BY <2>1, SumsOf, SumWithout
  <2>3. (S \cap FeeLegs) \ {z} = (S \ {z}) \cap FeeLegs
    OBVIOUS
  <2>4. Sum((S \cap FeeLegs) \ {z}) = Sum((S \ {z}) \cap FeeLegs)
    BY <2>3
  <2>. QED
    BY <1>1, <1>2, <1>3, <1>4, <2>2, <2>4
<1>5. CASE z \notin FeeLegs
  <2>1. S \cap FeeLegs = (S \ {z}) \cap FeeLegs
    BY <1>5
  <2>2. Sum(S \cap FeeLegs) = Sum((S \ {z}) \cap FeeLegs)
    BY <2>1
  <2>. QED
    BY <1>1, <1>3, <1>5, <2>2
<1>. QED
  BY <1>4, <1>5

\* Receipts are never taken away.
LEMMA CoversMore ==
  ASSUME NEW S \in SUBSET Receipts, IsFiniteSet(S), NEW T \in SUBSET S, NEW tally \in Rows,
         Covers(tally, T)
  PROVE  Covers(tally, S)
<1>1. T \in SUBSET Receipts /\ IsFiniteSet(T)
  BY FS_Subset
<1>2. /\ Sum(T) \in Nat /\ Sum(T \cap FeeLegs) \in Nat
      /\ Sum(S) \in Nat /\ Sum(S \cap FeeLegs) \in Nat
  BY <1>1, SumsOf
<1>3. Sum(T) <= Sum(S) /\ Sum(T \cap FeeLegs) <= Sum(S \cap FeeLegs)
  BY SumsGrow
<1>4. tally.ext \in Nat /\ tally.clank \in Nat /\ PostSats \in Nat
  BY AmountsAssumption DEF Rows
<1>. QED
  BY <1>2, <1>3, <1>4 DEF Covers

\* A credit is covered by the receipt that it is for.
LEMMA CoversRaised ==
  ASSUME NEW S \in SUBSET Receipts, IsFiniteSet(S), NEW z \in S, NEW tally \in Rows,
         Covers(tally, S \ {z})
  PROVE  Covers(Raised(tally, z), S)
<1>1. S \ {z} \in SUBSET Receipts /\ IsFiniteSet(S \ {z})
  BY FS_Subset
<1>2. Sum(S \ {z}) \in Nat /\ Sum((S \ {z}) \cap FeeLegs) \in Nat
  BY <1>1, SumsOf
<1>3. tally.ext \in Nat /\ tally.clank \in Nat /\ PostSats \in Nat
  BY AmountsAssumption DEF Rows
<1>4. /\ Raised(tally, z).ext = tally.ext + Sats[z]
      /\ Raised(tally, z).clank = IF z \in FeeLegs THEN tally.clank + Sats[z] ELSE tally.clank
  BY DEF Raised, Rows
<1>5. /\ Sum(S) = Sum(S \ {z}) + Sats[z] /\ Sats[z] \in Nat
      /\ Sum(S \cap FeeLegs) =
           IF z \in FeeLegs THEN Sum((S \ {z}) \cap FeeLegs) + Sats[z]
           ELSE Sum((S \ {z}) \cap FeeLegs)
  BY SumsWithout
<1>. QED
  BY <1>2, <1>3, <1>4, <1>5 DEF Covers

\* A vote takes away, and a late copy takes the row's tally or its own.
LEMMA CoversLowered ==
  ASSUME NEW S \in SUBSET Receipts, IsFiniteSet(S), NEW tally \in Rows, Covers(tally, S)
  PROVE  Covers(Lowered(tally), S)
<1>1. Sum(S) \in Nat /\ Sum(S \cap FeeLegs) \in Nat
  BY SumsOf
<1>2. tally.ext \in Nat /\ tally.clank \in Nat /\ PostSats \in Nat /\ VoteSats \in Nat
  BY AmountsAssumption DEF Rows
<1>3. Floored(tally.ext) <= tally.ext /\ Floored(tally.clank) <= tally.clank
      /\ Floored(tally.ext) \in Nat /\ Floored(tally.clank) \in Nat
  BY <1>2 DEF Floored
<1>4. Lowered(tally).ext = Floored(tally.ext) /\ Lowered(tally).clank = Floored(tally.clank)
  BY DEF Lowered, Rows
<1>. QED
  BY <1>1, <1>2, <1>3, <1>4 DEF Covers

LEMMA OverwrittenIs ==
  ASSUME NEW tally \in Rows, NEW base \in Rows, NEW mem \in Rows
  PROVE  /\ Overwritten(tally, base, mem).stored = tally.stored
         /\ Overwritten(tally, base, mem).ext = IF mem.ext = base.ext THEN tally.ext ELSE mem.ext
         /\ Overwritten(tally, base, mem).clank = IF mem.clank = base.clank THEN tally.clank ELSE mem.clank
  BY DEF Overwritten, Rows

LEMMA CoversOverwritten ==
  ASSUME NEW S, NEW tally \in Rows, NEW base \in Rows, NEW mem \in Rows,
         Covers(tally, S), Covers(mem, S)
  PROVE  Covers(Overwritten(tally, base, mem), S)
  BY OverwrittenIs DEF Covers

LEMMA CoversNothing ==
  ASSUME NEW S \in SUBSET Receipts, IsFiniteSet(S)
  PROVE  Covers(NoRow, S)
<1>1. Sum(S) \in Nat /\ Sum(S \cap FeeLegs) \in Nat /\ PostSats \in Nat
  BY SumsOf, AmountsAssumption
<1>. QED
  BY <1>1 DEF Covers, NoRow

-----------------------------------------------------------------------------
(* What sessions hold *)

\* A receipt of a batch is not in the copy of the row until it is applied.
Held(s) == IF s.batch /\ s.at \in {"signer", "profile", "apply"} THEN {Head(s.queue)} ELSE {}

\* The copy of the row is covered by the receipts in owed; the row that was read, by those that
\* are not dirty.  The copy differs from the row that was read by what is dirty, and is larger.
Kept(s, owed) ==
  /\ s.dirty \subseteq owed
  /\ Covers(s.mem, owed) /\ Covers(s.base, owed \ s.dirty)
  /\ IF s.dirty = {} THEN s.mem = s.base ELSE s.mem.ext > s.base.ext

\* The receipts of a session are for its target, which is stored once it has a copy of the row.
Good(s, st, on) ==
  /\ s.at \in Working => \A i \in 1..Len(s.queue) : TargetOf[s.queue[i]] = s.target
  /\ s.at = "answer" => ~s.batch
  /\ s.at \in {"signer", "profile", "apply", "pay"} => s.target \in on
  /\ s.batch /\ s.at \in {"load", "check"} => s.target \in on
  /\ s.at \in {"check", "signer", "profile", "apply"} => Kept(s, For(st, s.target) \ Held(s))
  /\ s.at = "pay" => Covers(s.mem, For(st, s.target))

LEMMA ForTypes ==
  ASSUME NEW st \in SUBSET Receipts, IsFiniteSet(st), NEW t
  PROVE  /\ For(st, t) \in SUBSET Receipts /\ IsFiniteSet(For(st, t))
         /\ \A S \in SUBSET For(st, t) : S \in SUBSET Receipts /\ IsFiniteSet(S)
<1>1. For(st, t) \in SUBSET st
  BY DEF For
<1>. QED
  BY <1>1, FS_Subset

LEMMA KeptMore ==
  ASSUME NEW S \in SUBSET Receipts, IsFiniteSet(S), NEW T \in SUBSET S, NEW s \in Sessions, Kept(s, T)
  PROVE  Kept(s, S)
<1>1. s.mem \in Rows /\ s.base \in Rows
  BY DEF Sessions
<1>2. T \ s.dirty \in SUBSET (S \ s.dirty) /\ S \ s.dirty \in SUBSET Receipts /\ IsFiniteSet(S \ s.dirty)
  BY FS_Subset
<1>3. Covers(s.mem, S)
  BY <1>1, CoversMore DEF Kept
<1>4. Covers(s.base, S \ s.dirty)
  BY <1>1, <1>2, CoversMore DEF Kept
<1>. QED
  BY <1>3, <1>4 DEF Kept

LEMMA GoodStays ==
  ASSUME NEW st \in SUBSET Receipts, IsFiniteSet(st), NEW before \in SUBSET st,
         NEW on, NEW fewer \in SUBSET on, NEW s \in Sessions, Good(s, before, fewer)
  PROVE  Good(s, st, on)
<1>1. For(before, s.target) \in SUBSET For(st, s.target)
      /\ For(st, s.target) \in SUBSET Receipts /\ IsFiniteSet(For(st, s.target))
  BY ForTypes DEF For
<1>. DEFINE S == For(st, s.target) \ Held(s)
            T == For(before, s.target) \ Held(s)
<1>2. T \in SUBSET S /\ S \in SUBSET Receipts /\ IsFiniteSet(S)
  BY <1>1, FS_Subset
<1>. HIDE DEF S, T
<1>3. Kept(s, T) => Kept(s, S)
  BY <1>2, KeptMore
<1>4. s.mem \in Rows
  BY DEF Sessions
<1>5. Covers(s.mem, For(before, s.target)) => Covers(s.mem, For(st, s.target))
  BY <1>1, <1>4, CoversMore
<1>. QED
  BY <1>3, <1>5 DEF Good, S, T

LEMMA GoodIdle ==
  ASSUME NEW st, NEW on
  PROVE  Good(Idle, st, on) /\ Good(Down, st, on)
  BY DEF Good, Idle, Down, Working

\* A row whose copy is all covered goes on to the next receipt of its batch.
LEMMA NextGood ==
  ASSUME NEW st \in SUBSET Receipts, IsFiniteSet(st), NEW on, NEW s \in Sessions,
         s.batch =>
           /\ \A i \in 1..Len(s.queue) : TargetOf[s.queue[i]] = s.target
           /\ s.target \in on
           /\ \E S \in SUBSET For(st, s.target) : Kept(s, S)
  PROVE  Good(NextOf(s), st, on)
<1>1. CASE s.batch /\ Len(s.queue) > 1
  <2>. DEFINE n == [s EXCEPT !.at = "check", !.queue = Tail(s.queue)]
  <2>1. NextOf(s) = n
    BY <1>1 DEF NextOf
  <2>2. /\ n.at = "check" /\ n.queue = Tail(s.queue) /\ n.target = s.target /\ n.batch = s.batch
        /\ n.mem = s.mem /\ n.base = s.base /\ n.dirty = s.dirty
    BY DEF Sessions
  <2>. HIDE DEF n
  <2>3. \A i \in 1..Len(n.queue) : TargetOf[n.queue[i]] = n.target
    <3>1. s.queue \in Seq(Receipts)
      BY DEF Sessions
    <3>2. ASSUME NEW i \in 1..Len(Tail(s.queue))
          PROVE  Tail(s.queue)[i] = s.queue[i + 1] /\ i + 1 \in 1..Len(s.queue)
      BY <1>1, <3>1
    <3>. QED
      BY <1>1, <2>2, <3>2
  <2>4. Kept(s, For(st, s.target))
    BY <1>1, ForTypes, KeptMore
  <2>5. Kept(n, For(st, n.target))
    BY <2>2, <2>4 DEF Kept
  <2>6. For(st, n.target) \ Held(n) = For(st, n.target)
    BY <2>2 DEF Held
  <2>. QED
    BY <1>1, <2>1, <2>2, <2>3, <2>5, <2>6 DEF Good
<1>. QED
  BY <1>1, GoodIdle DEF NextOf

-----------------------------------------------------------------------------
(* The invariant of the tallies *)

Exact(r, S) == r.ext = Sum(S) /\ r.clank \in {Sum(S \cap FeeLegs), PostSats + Sum(S \cap FeeLegs)}

\* A row, what has become of it, and the receipts stored for it.
RowFits(r, p, S) ==
  /\ Covers(r, S)
  /\ p = "exact" => Exact(r, S)
  /\ ~r.stored => r = NoRow /\ S = {}

RowsFit == \A t \in Targets : RowFits(row[t], past[t], For(stored, t))

ParkedFit ==
  \A k \in Relays, t \in Targets : \A i \in 1..Len(parked[k][t]) : TargetOf[parked[k][t][i]] = t

\* The targets that are stored.
On == {t \in Targets : row[t].stored}

TallyInv ==
  /\ IInv
  /\ IsFiniteSet(stored)
  /\ RowsFit
  /\ ParkedFit
  /\ \A k \in Tasks : Good(task[k], stored, On)

LEMMA TallyTypes ==
  ASSUME TallyInv, NEW k \in Tasks
  PROVE  /\ task[k] \in Sessions /\ Good(task[k], stored, On) /\ Fits(k)
         /\ stored \in SUBSET Receipts /\ IsFiniteSet(stored)
  BY DEF TallyInv, IInv, TypeOK, SessionInv

\* What a step has to show: the sessions it leaves alone stay as they are.
LEMMA FrameOfStep ==
  ASSUME TallyInv, IInv',
         \A v \in Tasks : task'[v] = task[v] \/ Good(task'[v], stored', On'),
         stored \subseteq stored', IsFiniteSet(stored'), On \subseteq On', RowsFit', ParkedFit'
  PROVE  TallyInv'
<1>1. stored' \in SUBSET Receipts
  BY DEF IInv, TypeOK
<1>2. ASSUME NEW v \in Tasks, task'[v] = task[v]
      PROVE  Good(task'[v], stored', On')
  <2>1. task[v] \in Sessions /\ Good(task[v], stored, On)
    BY TallyTypes
  <2>. QED
    BY <1>1, <1>2, <2>1, GoodStays
<1>. QED
  BY <1>2 DEF TallyInv

LEMMA Frame ==
  ASSUME TallyInv, IInv', NEW k \in Tasks, Good(task'[k], stored', On'),
         \A v \in Tasks \ {k} : task'[v] = task[v],
         stored \subseteq stored', IsFiniteSet(stored'), On \subseteq On', RowsFit', ParkedFit'
  PROVE  TallyInv'
  BY FrameOfStep

\* A step that writes nothing but the session of k and what it has parked.
LEMMA FrameOfSession ==
  ASSUME TallyInv, IInv', NEW k \in Tasks, NEW s, Good(s, stored, On),
         task' = [task EXCEPT ![k] = s], UNCHANGED <<row, stored, past>>, ParkedFit'
  PROVE  TallyInv'
<1>1. task'[k] = s /\ \A v \in Tasks \ {k} : task'[v] = task[v]
  BY DEF TallyInv, IInv, TypeOK
<1>2. On' = On /\ RowsFit' /\ IsFiniteSet(stored')
  BY DEF On, RowsFit, TallyInv
<1>. QED
  BY <1>1, <1>2, Frame

LEMMA GoOnTally ==
  ASSUME TallyInv, IInv', NEW k \in Tasks, GoOn(k, task[k]), UNCHANGED <<tables, past>>, ParkedFit',
         task[k].batch => task[k].at \in {"check", "signer", "profile", "apply"}
  PROVE  TallyInv'
<1>. DEFINE s == task[k]
<1>1. /\ s \in Sessions /\ Good(s, stored, On)
      /\ stored \in SUBSET Receipts /\ IsFiniteSet(stored)
  BY TallyTypes
<1>2. s.batch => /\ \A i \in 1..Len(s.queue) : TargetOf[s.queue[i]] = s.target
                 /\ s.target \in On
                 /\ \E S \in SUBSET For(stored, s.target) : Kept(s, S)
  <2>. SUFFICES ASSUME s.batch
                PROVE  /\ \A i \in 1..Len(s.queue) : TargetOf[s.queue[i]] = s.target
                       /\ s.target \in On
                       /\ Kept(s, For(stored, s.target) \ Held(s))
    OBVIOUS
  <2>. QED
    BY <1>1 DEF Good, Working
<1>3. Good(NextOf(s), stored, On)
  <2>. HIDE DEF s
  <2>. QED
    BY <1>1, <1>2, NextGood
<1>. QED
  BY <1>3, FrameOfSession DEF GoOn, tables

LEMMA FailTally ==
  ASSUME TallyInv, IInv', NEW k \in Tasks, Fail(k)
  PROVE  TallyInv'
<1>1. PICK s \in {Idle, Down} : task' = [task EXCEPT ![k] = s]
  BY DEF Fail
<1>2. Good(s, stored, On)
  BY GoodIdle
<1>3. ParkedFit'
  <2>1. ASSUME NEW r \in Relays, NEW t \in Targets, NEW i \in 1..Len(parked'[r][t])
        PROVE  TargetOf[parked'[r][t][i]] = t
    <3>1. parked'[r][t] = parked[r][t] \/ parked'[r][t] = <<>>
      BY DEF TallyInv, IInv, TypeOK, Fail, NothingParked
    <3>. QED
      BY <2>1, <3>1 DEF TallyInv, ParkedFit
  <2>. QED
    BY <2>1 DEF ParkedFit
<1>. QED
  BY <1>1, <1>2, <1>3, FrameOfSession DEF Fail, tables

-----------------------------------------------------------------------------
(* Commits *)

\* A row that a session with something dirty has read is not an exact one.
LEMMA DirtyIsLate ==
  ASSUME NEW S \in SUBSET Receipts, IsFiniteSet(S), NEW owed \in SUBSET S,
         NEW s \in Sessions, Kept(s, owed), s.dirty # {}, NEW r \in Rows, r.ext = Sum(S)
  PROVE  r # s.base
<1>1. PICK z \in s.dirty : TRUE
  OBVIOUS
<1>2. z \in S /\ owed \ s.dirty \in SUBSET (S \ {z})
  BY <1>1 DEF Kept
<1>3. S \ {z} \in SUBSET Receipts /\ IsFiniteSet(S \ {z})
  BY FS_Subset
<1>4. Sum(owed \ s.dirty) <= Sum(S \ {z})
  BY <1>2, <1>3, SumMonotone
<1>5. Sum(S) = Sum(S \ {z}) + Sats[z] /\ Sats[z] \in Nat \ {0}
  BY <1>2, SumsWithout
<1>6. Sum(S \ {z}) \in Nat /\ Sum(owed \ s.dirty) \in Nat /\ s.base.ext \in Nat
  <2>1. owed \ s.dirty \in SUBSET Receipts /\ IsFiniteSet(owed \ s.dirty)
    BY FS_Subset
  <2>. QED
    BY <1>3, <2>1, SumType DEF Sessions, Rows
<1>7. s.base.ext <= Sum(owed \ s.dirty)
  BY DEF Kept, Covers
<1>. QED
  BY <1>4, <1>5, <1>6, <1>7

\* The rows after a commit of k, if what it writes fits.
LEMMA CommitRows ==
  ASSUME TallyInv, NEW k \in Tasks, NEW mem \in Rows, NEW new \in SUBSET Receipts,
         task[k].target \in On, Commit(k, mem, new), stored' = stored \cup new,
         \A z \in new : TargetOf[z] = task[k].target, IsFiniteSet(new),
         Covers(mem, For(stored', task[k].target)),
         /\ past[task[k].target] = "exact" /\ task[k].at # "pay"
         /\ mem = task[k].base \/ row[task[k].target] = task[k].base
         => Exact(Overwritten(row[task[k].target], task[k].base, mem), For(stored', task[k].target))
  PROVE  RowsFit' /\ On' = On /\ IsFiniteSet(stored')
<1>. DEFINE t == task[k].target
            new_row == Overwritten(row[t], task[k].base, mem)
<1>1. /\ task[k] \in Sessions /\ stored \in SUBSET Receipts /\ IsFiniteSet(stored)
      /\ row \in [Targets -> Rows] /\ past \in [Targets -> {"exact", "raced", "voted"}]
      /\ t \in Targets /\ row[t].stored
  BY TallyTypes DEF TallyInv, IInv, TypeOK, On
<1>2. task[k].base \in Rows /\ row[t] \in Rows
  BY <1>1 DEF Sessions
<1>3. stored' \in SUBSET Receipts /\ IsFiniteSet(stored')
  BY <1>1, FS_Union
<1>4. For(stored, t) \in SUBSET For(stored', t)
      /\ For(stored', t) \in SUBSET Receipts /\ IsFiniteSet(For(stored', t))
  BY <1>3, ForTypes DEF For
<1>5. /\ row' = [row EXCEPT ![t] = new_row]
      /\ past' = [past EXCEPT ![t] =
           IF task[k].at = "pay" THEN "voted"
           ELSE IF past[t] = "exact" /\ mem # task[k].base /\ row[t] # task[k].base THEN "raced"
           ELSE past[t]]
  BY DEF Commit
<1>6. new_row \in Rows /\ new_row.stored
  BY <1>1, <1>2, OverwrittenIs DEF Overwritten, Rows
<1>7. Covers(new_row, For(stored', t))
  <2>1. Covers(row[t], For(stored, t))
    BY <1>1 DEF TallyInv, RowsFit, RowFits
  <2>2. Covers(row[t], For(stored', t))
    BY <1>2, <1>4, <2>1, CoversMore
  <2>. QED
    BY <1>2, <2>2, CoversOverwritten
<1>. HIDE DEF new_row
<1>8. past'[t] = "exact" => Exact(new_row, For(stored', t))
  BY <1>1, <1>5 DEF new_row
<1>9. ASSUME NEW u \in Targets, u # t
      PROVE  row'[u] = row[u] /\ past'[u] = past[u] /\ For(stored', u) = For(stored, u)
  BY <1>1, <1>5, <1>9 DEF For
<1>10. row'[t] = new_row
  BY <1>1, <1>5
<1>11. RowsFit'
  BY <1>6, <1>7, <1>8, <1>9, <1>10 DEF RowsFit, RowFits, TallyInv
<1>12. On' = On
  BY <1>1, <1>6, <1>9, <1>10 DEF On
<1>. QED
  BY <1>3, <1>11, <1>12

LEMMA StoreProfileTally ==
  ASSUME TallyInv, IInv', NEW k \in Tasks, StoreProfile(k)
  PROVE  TallyInv'
<1>. DEFINE s == task[k]
            n == [Committed(s, s.mem) EXCEPT !.at = "signer"]
            S == For(stored, s.target)
            owed == S \ Held(s)
<1>1. /\ s \in Sessions /\ Good(s, stored, On) /\ s.at = "profile" /\ s.target \in On
      /\ stored \in SUBSET Receipts /\ IsFiniteSet(stored) /\ Kept(s, owed)
  BY TallyTypes DEF StoreProfile, Good
<1>2. s.mem \in Rows /\ s.base \in Rows /\ s.target \in Targets /\ row[s.target] \in Rows
  BY <1>1 DEF Sessions, On, TallyInv, IInv, TypeOK
<1>3. /\ Commit(k, s.mem, {}) /\ stored' = stored \cup {} /\ stored' = stored
      /\ UNCHANGED parked /\ task' = [task EXCEPT ![k] = n]
  BY DEF StoreProfile
<1>4. S \in SUBSET Receipts /\ IsFiniteSet(S) /\ owed \in SUBSET S
  BY <1>1, ForTypes
<1>5. Covers(s.mem, S)
  BY <1>1, <1>2, <1>4, CoversMore DEF Kept
<1>6. ASSUME past[s.target] = "exact", s.mem = s.base \/ row[s.target] = s.base
      PROVE  Exact(Overwritten(row[s.target], s.base, s.mem), S)
  <2>1. Exact(row[s.target], S)
    BY <1>2, <1>6 DEF TallyInv, RowsFit, RowFits
  <2>2. s.dirty = {}
    <3>. SUFFICES ASSUME s.dirty # {}
                  PROVE  FALSE
      OBVIOUS
    <3>1. row[s.target] # s.base
      BY <1>1, <1>2, <1>4, <2>1, DirtyIsLate DEF Exact
    <3>2. s.mem.ext > s.base.ext /\ s.base.ext \in Nat
      BY <1>1, <1>2 DEF Kept, Rows
    <3>. QED
      BY <1>6, <3>1, <3>2
  <2>3. s.mem = s.base
    BY <1>1, <2>2 DEF Kept
  <2>4. PICK o : o = Overwritten(row[s.target], s.base, s.mem)
    OBVIOUS
  <2>5. o.ext = row[s.target].ext /\ o.clank = row[s.target].clank
    BY <1>2, <2>3, <2>4, OverwrittenIs
  <2>. QED
    BY <2>1, <2>4, <2>5 DEF Exact
<1>7. RowsFit' /\ On' = On /\ IsFiniteSet(stored')
  <2>. HIDE DEF s
  <2>. QED
    BY <1>1, <1>2, <1>3, <1>5, <1>6, CommitRows, FS_EmptySet DEF s
<1>8. /\ n.at = "signer" /\ n.batch = s.batch /\ n.target = s.target /\ n.queue = s.queue
      /\ n.mem = s.mem /\ n.base = s.mem /\ n.dirty = {}
  BY <1>1 DEF Committed, Sessions
<1>. HIDE DEF n
<1>9. Kept(n, owed) /\ Held(n) = Held(s)
  BY <1>1, <1>8 DEF Kept, Held
<1>10. Good(n, stored', On')
  BY <1>1, <1>3, <1>7, <1>8, <1>9 DEF Good, Working
<1>11. task'[k] = n /\ \A v \in Tasks \ {k} : task'[v] = task[v]
  BY <1>3 DEF TallyInv, IInv, TypeOK
<1>12. ParkedFit'
  BY <1>3 DEF TallyInv, ParkedFit
<1>. QED
  BY <1>3, <1>7, <1>10, <1>11, <1>12, Frame

LEMMA CreditTally ==
  ASSUME TallyInv, IInv', NEW k \in Tasks, Credit(k)
  PROVE  TallyInv'
<1>. DEFINE s == task[k]
            z == Head(s.queue)
            mem == Raised(s.mem, z)
            c == Committed(s, mem)
            S == For(stored, s.target)
            more == For(stored \cup {z}, s.target)
            owed == S \ Held(s)
<1>1. /\ s \in Sessions /\ Good(s, stored, On) /\ Fits(k) /\ s.at = "apply" /\ z \notin stored
      /\ stored \in SUBSET Receipts /\ IsFiniteSet(stored)
  BY TallyTypes DEF Credit
<1>2. s.target \in On /\ Kept(s, owed) /\ s.queue # <<>>
      /\ \A i \in 1..Len(s.queue) : TargetOf[s.queue[i]] = s.target
  BY <1>1 DEF Good, Fits, Working
<1>3. s.queue \in Seq(Receipts) /\ s.mem \in Rows /\ s.base \in Rows /\ s.target \in Targets
      /\ row[s.target] \in Rows
  BY <1>1, <1>2 DEF Sessions, On, TallyInv, IInv, TypeOK
<1>4. z \in Receipts /\ TargetOf[z] = s.target
  BY <1>2, <1>3
<1>5. mem \in Rows
  BY <1>3, <1>4, RowTypes
<1>6. /\ Commit(k, mem, {z}) /\ stored' = stored \cup {z}
      /\ UNCHANGED parked /\ task' = [task EXCEPT ![k] = NextOf(c)]
  BY DEF Credit
<1>7. IsFiniteSet({z}) /\ stored \cup {z} \in SUBSET Receipts /\ IsFiniteSet(stored \cup {z})
  BY <1>1, <1>4, FS_Singleton, FS_Union
<1>8. /\ more \in SUBSET Receipts /\ IsFiniteSet(more) /\ z \in more /\ more \ {z} = S
      /\ S \in SUBSET Receipts /\ IsFiniteSet(S) /\ owed \in SUBSET S
  BY <1>1, <1>4, <1>7, ForTypes DEF For
<1>9. Covers(mem, more)
  <2>1. Covers(s.mem, more \ {z})
    BY <1>2, <1>3, <1>8, CoversMore DEF Kept
  <2>. QED
    BY <1>3, <1>8, <2>1, CoversRaised
<1>10. /\ mem.ext = s.mem.ext + Sats[z] /\ Sats[z] \in Nat \ {0}
       /\ mem.clank = IF z \in FeeLegs THEN s.mem.clank + Sats[z] ELSE s.mem.clank
  BY <1>3, <1>4, SatsAssumption DEF Raised, Rows
<1>. HIDE DEF mem, z
<1>11. ASSUME past[s.target] = "exact", mem = s.base \/ row[s.target] = s.base
       PROVE  Exact(Overwritten(row[s.target], s.base, mem), more)
  <2>1. Exact(row[s.target], S)
    BY <1>3, <1>11 DEF TallyInv, RowsFit, RowFits
  <2>2. s.mem.ext \in Nat /\ s.base.ext \in Nat /\ s.mem.clank \in Nat /\ PostSats \in Nat
    BY <1>3, AmountsAssumption DEF Rows
  <2>3. mem.ext # s.base.ext
    BY <1>2, <1>10, <2>2 DEF Kept
  <2>4. row[s.target] = s.base
    BY <1>11, <2>3
  <2>5. s.dirty = {}
    BY <1>1, <1>2, <1>3, <1>8, <2>1, <2>4, DirtyIsLate DEF Exact
  <2>6. s.mem = row[s.target]
    BY <1>2, <2>4, <2>5 DEF Kept
  <2>7. PICK o : o = Overwritten(row[s.target], s.base, mem)
    OBVIOUS
  <2>8. o.ext = mem.ext /\ o.clank = mem.clank
    BY <1>3, <1>5, <2>4, <2>7, OverwrittenIs
  <2>9. /\ Sum(more) = Sum(S) + Sats[z]
        /\ Sum(more \cap FeeLegs) =
             IF z \in FeeLegs THEN Sum(S \cap FeeLegs) + Sats[z] ELSE Sum(S \cap FeeLegs)
    <3>. HIDE DEF more, S
    <3>1. /\ Sum(more) = Sum(more \ {z}) + Sats[z]
          /\ Sum(more \cap FeeLegs) =
               IF z \in FeeLegs THEN Sum((more \ {z}) \cap FeeLegs) + Sats[z]
               ELSE Sum((more \ {z}) \cap FeeLegs)
      BY <1>8, SumsWithout
    <3>. QED
      BY <1>8, <3>1
  <2>10. Sum(S) \in Nat /\ Sum(S \cap FeeLegs) \in Nat
    BY <1>8, SumsOf
  <2>11. /\ s.mem.ext = Sum(S)
         /\ s.mem.clank = Sum(S \cap FeeLegs) \/ s.mem.clank = PostSats + Sum(S \cap FeeLegs)
    BY <2>1, <2>6 DEF Exact
  <2>12. mem.ext = Sum(more)
    BY <1>10, <2>9, <2>11
  <2>13. mem.clank = Sum(more \cap FeeLegs) \/ mem.clank = PostSats + Sum(more \cap FeeLegs)
    BY <1>10, <2>2, <2>9, <2>10, <2>11
  <2>. QED
    BY <2>7, <2>8, <2>12, <2>13 DEF Exact
<1>12. RowsFit' /\ On' = On /\ IsFiniteSet(stored')
  <2>1. {z} \in SUBSET Receipts /\ \A x \in {z} : TargetOf[x] = s.target
    BY <1>4
  <2>. HIDE DEF s
  <2>. QED
    BY <1>2, <1>5, <1>6, <1>7, <1>9, <1>11, <2>1, CommitRows DEF s
<1>13. /\ c.batch = s.batch /\ c.target = s.target /\ c.queue = s.queue /\ c \in Sessions
       /\ c.mem = mem /\ c.base = mem /\ c.dirty = {}
  BY <1>1, <1>5 DEF Committed, Sessions
<1>. HIDE DEF c
<1>14. Kept(c, more)
  BY <1>9, <1>13 DEF Kept
<1>15. Good(NextOf(c), stored', On')
  <2>1. more \in SUBSET For(stored \cup {z}, c.target)
    BY <1>13
  <2>. QED
    BY <1>2, <1>6, <1>7, <1>12, <1>13, <1>14, <2>1, NextGood
<1>16. task'[k] = NextOf(c) /\ \A v \in Tasks \ {k} : task'[v] = task[v]
  BY <1>6 DEF TallyInv, IInv, TypeOK
<1>17. ParkedFit'
  BY <1>6 DEF TallyInv, ParkedFit
<1>. QED
  BY <1>6, <1>12, <1>15, <1>16, <1>17, Frame

\* A vote is written over the row: what it lowers is covered.
LEMMA CastVoteTally ==
  ASSUME TallyInv, IInv', NEW k \in Tasks, CastVote(k)
  PROVE  TallyInv'
<1>. DEFINE s == task[k]
<1>1. /\ s \in Sessions /\ Good(s, stored, On) /\ s.at = "pay" /\ s.target \in On
      /\ Covers(s.mem, For(stored, s.target)) /\ s.mem \in Rows
  BY TallyTypes DEF CastVote, Good, Sessions
<1>2. /\ Commit(k, s.mem, {}) /\ stored' = stored \cup {} /\ stored' = stored
      /\ UNCHANGED parked /\ task' = [task EXCEPT ![k] = Idle]
  BY DEF CastVote
<1>3. RowsFit' /\ On' = On /\ IsFiniteSet(stored')
  BY <1>1, <1>2, CommitRows, FS_EmptySet
<1>4. task'[k] = Idle /\ \A v \in Tasks \ {k} : task'[v] = task[v]
  BY <1>2 DEF TallyInv, IInv, TypeOK
<1>5. ParkedFit'
  BY <1>2 DEF TallyInv, ParkedFit
<1>. QED
  BY <1>2, <1>3, <1>4, <1>5, GoodIdle, Frame

\* A duplicate is in the copy of its session, which writes nothing yet.
LEMMA DuplicateTally ==
  ASSUME TallyInv, IInv', NEW k \in Tasks, Duplicate(k)
  PROVE  TallyInv'
<1>. DEFINE s == task[k]
            z == Head(s.queue)
            mem == Raised(s.mem, z)
            f == [s EXCEPT !.mem = Raised(s.mem, z), !.dirty = s.dirty \cup {z}]
            after == IF k \in Clients THEN [f EXCEPT !.at = "answer"] ELSE NextOf(f)
            S == For(stored, s.target)
<1>1. /\ s \in Sessions /\ Good(s, stored, On) /\ Fits(k) /\ s.at = "apply" /\ z \in stored
      /\ stored \in SUBSET Receipts /\ IsFiniteSet(stored)
  BY TallyTypes DEF Duplicate
<1>2. s.target \in On /\ Kept(s, S \ Held(s)) /\ s.queue # <<>>
      /\ \A i \in 1..Len(s.queue) : TargetOf[s.queue[i]] = s.target
  BY <1>1 DEF Good, Fits, Working
<1>3. s.queue \in Seq(Receipts) /\ s.mem \in Rows /\ s.base \in Rows /\ s.dirty \subseteq Receipts
  BY <1>1 DEF Sessions
<1>4. z \in Receipts /\ TargetOf[z] = s.target
  BY <1>2, <1>3
<1>5. mem \in Rows
  BY <1>3, <1>4, RowTypes
<1>6. /\ task' = [task EXCEPT ![k] = after] /\ UNCHANGED <<tables, parked, past>>
  BY DEF Duplicate
<1>7. /\ S \in SUBSET Receipts /\ IsFiniteSet(S) /\ z \in S
  BY <1>1, <1>4, ForTypes DEF For
<1>8. mem.ext = s.mem.ext + Sats[z] /\ Sats[z] \in Nat \ {0}
  BY <1>3, <1>4, SatsAssumption DEF Raised, Rows
<1>9. /\ f \in Sessions /\ f.batch = s.batch /\ f.target = s.target /\ f.queue = s.queue
      /\ f.at = s.at /\ f.mem = mem /\ f.base = s.base /\ f.dirty = s.dirty \cup {z}
  BY <1>1, <1>3, <1>4, <1>5 DEF Sessions
<1>. HIDE DEF f
<1>10. ASSUME s.batch
       PROVE  Kept(f, S)
  <2>1. Kept(s, S \ {z})
    <3>1. Held(s) = {z}
      BY <1>1, <1>10 DEF Held
    <3>. QED
      BY <1>2, <3>1
  <2>. HIDE DEF z
  <2>2. Covers(mem, S)
    BY <1>3, <1>7, <2>1, CoversRaised DEF Kept
  <2>3. (S \ {z}) \ s.dirty = S \ f.dirty
    BY <1>9
  <2>4. s.mem.ext >= s.base.ext /\ s.mem.ext \in Nat /\ s.base.ext \in Nat
    BY <1>3, <2>1 DEF Kept, Rows
  <2>5. f.mem.ext > f.base.ext
    <3>. HIDE DEF mem
    <3>. QED BY <1>8, <1>9, <2>4
  <2>6. f.dirty \subseteq S /\ f.dirty # {}
    BY <1>7, <1>9, <2>1 DEF Kept
  <2>7. Covers(f.base, S \ f.dirty) /\ Covers(f.mem, S)
    BY <1>9, <2>1, <2>2, <2>3 DEF Kept
  <2>. QED
    BY <2>5, <2>6, <2>7 DEF Kept
<1>11. Good(after, stored, On)
  <2>1. CASE k \in Clients
    <3>. DEFINE a == [f EXCEPT !.at = "answer"]
    <3>1. a.at = "answer" /\ a.batch = s.batch /\ a.target = s.target /\ a.queue = s.queue
      BY <1>9 DEF Sessions
    <3>2. ~s.batch
      BY <1>1, <2>1, TasksAssumption DEF Fits
    <3>3. after = a
      BY <2>1
    <3>. HIDE DEF a
    <3>. QED
      BY <1>2, <3>1, <3>2, <3>3 DEF Good
  <2>2. CASE k \notin Clients
    <3>1. Good(NextOf(f), stored, On)
      BY <1>1, <1>2, <1>9, <1>10, NextGood
    <3>. QED
      BY <2>2, <3>1
  <2>. QED
    BY <2>1, <2>2
<1>12. ParkedFit'
  BY <1>6 DEF TallyInv, ParkedFit
<1>. HIDE DEF after
<1>. QED
  BY <1>6, <1>11, <1>12, FrameOfSession DEF tables

-----------------------------------------------------------------------------
(* The other actions *)

\* A step of a session that leaves its copy of the row as it is.
LEMMA MoveTally ==
  ASSUME TallyInv, IInv', NEW k \in Tasks, NEW step \in {"load", "signer", "profile", "apply"},
         task' = [task EXCEPT ![k].at = step], UNCHANGED <<tables, parked, past>>,
         task[k].at \in Working, step = "load" => ~task[k].batch,
         step # "load" =>
           \/ task[k].at \in {"signer", "profile", "apply"}
           \/ task[k].at = "check" /\ task[k].batch /\ Head(task[k].queue) \notin stored
  PROVE  TallyInv'
<1>. DEFINE s == task[k]
            n == [s EXCEPT !.at = step]
            S == For(stored, s.target)
<1>1. s \in Sessions /\ Good(s, stored, On) /\ s.at \in Steps
  BY TallyTypes DEF Sessions
<1>2. /\ n.at = step /\ n.batch = s.batch /\ n.target = s.target /\ n.queue = s.queue
      /\ n.mem = s.mem /\ n.base = s.base /\ n.dirty = s.dirty
  BY <1>1 DEF Sessions
<1>3. task' = [task EXCEPT ![k] = n]
  OBVIOUS
<1>. HIDE DEF n
<1>4. step # "load" => Kept(n, S \ Held(n)) /\ n.target \in On
  <2>. SUFFICES ASSUME step # "load"
                PROVE  Kept(n, S \ Held(n)) /\ n.target \in On
    OBVIOUS
  <2>1. Kept(s, S \ Held(s)) /\ s.target \in On
    BY <1>1 DEF Good
  <2>2. S \ Held(s) = S \ Held(n)
    <3>1. CASE s.at \in {"signer", "profile", "apply"}
      BY <1>2, <3>1 DEF Held
    <3>2. CASE s.at = "check" /\ s.batch /\ Head(s.queue) \notin stored
      <4>1. Held(s) = {} /\ Held(n) = {Head(s.queue)}
        BY <1>2, <3>2 DEF Held
      <4>. QED
        BY <3>2, <4>1 DEF For
    <3>. QED
      BY <3>1, <3>2
  <2>3. Kept(s, S \ Held(n))
    BY <2>1, <2>2
  <2>. QED
    BY <1>2, <2>1, <2>3 DEF Kept
<1>5. \A i \in 1..Len(n.queue) : TargetOf[n.queue[i]] = n.target
  BY <1>1, <1>2 DEF Good
<1>6. Good(n, stored, On)
  BY <1>2, <1>4, <1>5 DEF Good
<1>7. ParkedFit'
  BY DEF TallyInv, ParkedFit
<1>. QED
  BY <1>3, <1>6, <1>7, FrameOfSession DEF tables

LEMMA ReceiveTally ==
  ASSUME TallyInv, IInv', NEW k \in Tasks, NEW z \in Receipts, Receive(k, z)
  PROVE  TallyInv'
<1>. DEFINE s == [Idle EXCEPT !.at = "check", !.target = TargetOf[z], !.queue = <<z>>]
            S == For(stored, TargetOf[z])
<1>1. /\ s.at = "check" /\ s.target = TargetOf[z] /\ s.queue = <<z>> /\ ~s.batch
      /\ s.mem = NoRow /\ s.base = NoRow /\ s.dirty = {}
  BY DEF Idle
<1>2. stored \in SUBSET Receipts /\ IsFiniteSet(stored)
  BY TallyTypes
<1>3. Covers(NoRow, S)
  BY <1>2, ForTypes, CoversNothing
<1>4. task' = [task EXCEPT ![k] = s] /\ UNCHANGED <<row, stored, past, parked>>
  BY DEF Receive, tables
<1>. HIDE DEF s
<1>5. Held(s) = {} /\ Kept(s, S)
  BY <1>1, <1>3 DEF Held, Kept
<1>6. \A i \in 1..Len(s.queue) : TargetOf[s.queue[i]] = s.target
  BY <1>1
<1>7. Kept(s, For(stored, s.target) \ Held(s))
  BY <1>1, <1>5
<1>8. Good(s, stored, On)
  BY <1>1, <1>6, <1>7 DEF Good
<1>9. ParkedFit'
  BY <1>4 DEF TallyInv, ParkedFit
<1>. QED
  BY <1>4, <1>8, <1>9, FrameOfSession

LEMMA LoadTally ==
  ASSUME TallyInv, IInv', NEW k \in Tasks, Load(k)
  PROVE  TallyInv'
<1>. DEFINE s == task[k]
            r == row[s.target]
            n == [s EXCEPT !.at = IF s.batch THEN "check" ELSE "signer", !.base = r, !.mem = r]
            S == For(stored, s.target)
<1>1. s \in Sessions /\ Good(s, stored, On) /\ Fits(k) /\ s.at = "load" /\ r.stored
  BY TallyTypes DEF Load
<1>2. s.target \in Targets /\ s.target \in On /\ s.dirty = {}
  BY <1>1, AtRest DEF Fits, Working, On, TallyInv
<1>3. Covers(r, S)
  BY <1>2 DEF TallyInv, RowsFit, RowFits
<1>4. /\ n.at = (IF s.batch THEN "check" ELSE "signer") /\ n.batch = s.batch
      /\ n.target = s.target /\ n.queue = s.queue /\ n.mem = r /\ n.base = r /\ n.dirty = {}
  BY <1>1, <1>2 DEF Sessions
<1>5. task' = [task EXCEPT ![k] = n] /\ UNCHANGED <<row, stored, past, parked>>
  BY DEF Load, tables
<1>. HIDE DEF n, r
<1>6. Held(n) = {} /\ Kept(n, S)
  BY <1>3, <1>4 DEF Held, Kept
<1>7. Kept(n, For(stored, n.target) \ Held(n))
  BY <1>4, <1>6
<1>8. \A i \in 1..Len(n.queue) : TargetOf[n.queue[i]] = n.target
  BY <1>1, <1>4 DEF Good, Working
<1>9. Good(n, stored, On)
  BY <1>2, <1>4, <1>7, <1>8 DEF Good
<1>10. ParkedFit'
  BY <1>5 DEF TallyInv, ParkedFit
<1>. QED
  BY <1>5, <1>9, <1>10, FrameOfSession

\* What is parked for a target is a receipt for it.
LEMMA ParkTally ==
  ASSUME TallyInv, IInv', NEW k \in Tasks, Park(k)
  PROVE  TallyInv'
<1>. DEFINE s == task[k]
            z == Head(s.queue)
<1>1. s \in Sessions /\ Good(s, stored, On) /\ Fits(k) /\ s.at = "load" /\ ~row[s.target].stored
      /\ k \in Relays
  BY TallyTypes DEF Park
<1>2. s.target \in Targets /\ s.queue # <<>> /\ s.target \notin On /\ ~s.batch
      /\ \A i \in 1..Len(s.queue) : TargetOf[s.queue[i]] = s.target
  BY <1>1 DEF Fits, Working, Good, On
<1>3. s.queue \in Seq(Receipts) /\ parked \in [Relays -> Parked]
  BY <1>1 DEF Sessions, TallyInv, IInv, TypeOK
<1>4. z \in Receipts /\ TargetOf[z] = s.target
  BY <1>2, <1>3
<1>5. ParkedFit'
  <2>1. CASE parked' = parked
    BY <2>1 DEF TallyInv, ParkedFit
  <2>2. CASE parked' = [parked EXCEPT ![k][s.target] = Append(parked[k][s.target], z)]
    <3>1. parked[k] \in [Targets -> Seq(Receipts)]
      BY <1>1, <1>3 DEF Parked
    <3>2. parked'[k][s.target] = Append(parked[k][s.target], z)
      BY <1>1, <1>2, <1>3, <2>2, <3>1
    <3>3. ASSUME NEW r \in Relays, NEW t \in Targets, ~(r = k /\ t = s.target)
          PROVE  parked'[r][t] = parked[r][t]
      BY <1>1, <1>2, <1>3, <2>2, <3>1, <3>3
    <3>4. parked[k][s.target] \in Seq(Receipts)
      BY <1>2, <3>1
    <3>. HIDE DEF z, s
    <3>5. ASSUME NEW i \in 1..Len(parked'[k][s.target])
          PROVE  TargetOf[parked'[k][s.target][i]] = s.target
      <4>1. CASE i \in 1..Len(parked[k][s.target])
        <5>1. parked'[k][s.target][i] = parked[k][s.target][i]
          BY <3>2, <3>4, <4>1
        <5>. QED
          BY <1>1, <1>2, <4>1, <5>1 DEF TallyInv, ParkedFit
      <4>2. CASE i \notin 1..Len(parked[k][s.target])
        <5>1. parked'[k][s.target][i] = z
          BY <1>4, <3>2, <3>4, <4>2
        <5>. QED
          BY <1>4, <5>1
      <4>. QED
        BY <4>1, <4>2
    <3>6. ASSUME NEW r \in Relays, NEW t \in Targets, NEW i \in 1..Len(parked'[r][t])
          PROVE  TargetOf[parked'[r][t][i]] = t
      <4>1. CASE r = k /\ t = s.target
        BY <3>5, <4>1
      <4>2. CASE ~(r = k /\ t = s.target)
        BY <3>3, <4>2 DEF TallyInv, ParkedFit
      <4>. QED
        BY <4>1, <4>2
    <3>. QED
      BY <3>6 DEF ParkedFit
  <2>. QED
    BY <2>1, <2>2 DEF Park
<1>6. GoOn(k, s) /\ UNCHANGED <<tables, past>>
  BY DEF Park
<1>. QED
  BY <1>2, <1>5, <1>6, GoOnTally

LEMMA TargetArrivesTally ==
  ASSUME TallyInv, IInv', NEW k \in Tasks, NEW t \in Targets, TargetArrives(k, t) \/ WrongTarget(k, t)
  PROVE  TallyInv'
<1>1. k \in Relays /\ parked \in [Relays -> Parked] /\ task \in [Tasks -> Sessions]
  BY DEF TargetArrives, WrongTarget, TallyInv, IInv, TypeOK
<1>2. parked' = [parked EXCEPT ![k][t] = <<>>] /\ UNCHANGED <<row, stored, past>>
  BY DEF TargetArrives, WrongTarget, tables
<1>3. ParkedFit'
  <2>1. ASSUME NEW r \in Relays, NEW u \in Targets, NEW i \in 1..Len(parked'[r][u])
        PROVE  TargetOf[parked'[r][u][i]] = u
    <3>1. parked'[r][u] = parked[r][u] \/ parked'[r][u] = <<>>
      BY <1>1, <1>2 DEF Parked
    <3>. QED
      BY <2>1, <3>1 DEF TallyInv, ParkedFit
  <2>. QED
    BY <2>1 DEF ParkedFit
<1>4. CASE TargetArrives(k, t)
  <2>. DEFINE s == [Idle EXCEPT !.at = "note", !.batch = TRUE, !.target = t, !.queue = parked[k][t]]
  <2>1. task' = [task EXCEPT ![k] = s]
    BY <1>4 DEF TargetArrives
  <2>2. s.at = "note" /\ s.target = t /\ s.queue = parked[k][t]
    BY DEF Idle
  <2>. HIDE DEF s
  <2>3. Good(s, stored, On)
    BY <1>1, <2>2 DEF Good, TallyInv, ParkedFit
  <2>. QED
    BY <1>2, <1>3, <2>1, <2>3, FrameOfSession
<1>5. CASE WrongTarget(k, t)
  <2>1. task' = [task EXCEPT ![k] = task[k]]
    BY <1>1, <1>5 DEF WrongTarget
  <2>. QED
    BY <1>2, <1>3, <2>1, TallyTypes, FrameOfSession
<1>. QED
  BY <1>4, <1>5

LEMMA ReadVoteTally ==
  ASSUME TallyInv, IInv', NEW k \in Tasks, NEW t \in Targets, ReadVote(k, t)
  PROVE  TallyInv'
<1>. DEFINE s == [Idle EXCEPT !.at = "pay", !.target = t, !.base = row[t], !.mem = Lowered(row[t])]
<1>1. s.at = "pay" /\ s.target = t /\ s.mem = Lowered(row[t])
  BY DEF Idle
<1>2. stored \in SUBSET Receipts /\ IsFiniteSet(stored) /\ row[t] \in Rows /\ row[t].stored
  BY TallyTypes DEF ReadVote, TallyInv, IInv, TypeOK
<1>3. Covers(Lowered(row[t]), For(stored, t))
  BY <1>2, ForTypes, CoversLowered DEF TallyInv, RowsFit, RowFits
<1>4. task' = [task EXCEPT ![k] = s] /\ UNCHANGED <<row, stored, past, parked>>
  BY DEF ReadVote, tables
<1>. HIDE DEF s
<1>5. Good(s, stored, On)
  BY <1>1, <1>2, <1>3 DEF Good, On, Working
<1>6. ParkedFit'
  BY <1>4 DEF TallyInv, ParkedFit
<1>. QED
  BY <1>4, <1>5, <1>6, FrameOfSession

LEMMA ConnectTally ==
  ASSUME TallyInv, IInv', NEW k \in Tasks, Connect(k)
  PROVE  TallyInv'
<1>1. task' = [task EXCEPT ![k] = Idle] /\ UNCHANGED <<row, stored, past, parked>>
  BY DEF Connect, tables
<1>2. ParkedFit'
  BY <1>1 DEF TallyInv, ParkedFit
<1>. QED
  BY <1>1, <1>2, GoodIdle, FrameOfSession

\* A row that is written with nobody's copy.
LEMMA RowWritten ==
  ASSUME TallyInv, NEW t \in Targets, NEW r, row' = [row EXCEPT ![t] = r],
         stored' = stored, r.stored, RowFits(r, past'[t], For(stored, t)),
         \A u \in Targets \ {t} : past'[u] = past[u]
  PROVE  RowsFit' /\ On \subseteq On' /\ t \in On' /\ IsFiniteSet(stored')
<1>1. row \in [Targets -> Rows]
  BY DEF TallyInv, IInv, TypeOK
<1>2. row'[t] = r /\ \A u \in Targets \ {t} : row'[u] = row[u]
  BY <1>1
<1>. QED
  BY <1>2 DEF RowsFit, TallyInv, On

\* No receipt was stored for a note that was not.
LEMMA FreshRow ==
  ASSUME TallyInv, NEW t \in Targets, ~row[t].stored, NEW r,
         r = [stored |-> TRUE, clank |-> r.clank, ext |-> 0], r.clank \in {0, PostSats}
  PROVE  \A p : RowFits(r, p, For(stored, t))
<1>1. For(stored, t) = {} /\ {} \cap FeeLegs = {}
  BY DEF TallyInv, RowsFit, RowFits
<1>2. Sum({}) = 0 /\ PostSats \in Nat
  BY SumEmpty, AmountsAssumption
<1>3. r.ext = 0 /\ r.stored
  OBVIOUS
<1>4. Covers(r, {}) /\ Exact(r, {})
  BY <1>1, <1>2, <1>3 DEF Covers, Exact
<1>. QED
  BY <1>1, <1>3, <1>4 DEF RowFits

LEMMA StoreNoteTally ==
  ASSUME TallyInv, IInv', NEW k \in Tasks, StoreNote(k)
  PROVE  TallyInv'
<1>. DEFINE s == task[k]
            t == s.target
            n == [s EXCEPT !.at = "load"]
<1>1. s \in Sessions /\ Good(s, stored, On) /\ Fits(k) /\ s.at = "note" /\ t \in Targets
  BY TallyTypes DEF StoreNote, Fits, Working
<1>2. task' = [task EXCEPT ![k] = n] /\ UNCHANGED <<stored, past, parked>>
  BY DEF StoreNote
<1>3. RowsFit' /\ On \subseteq On' /\ t \in On' /\ IsFiniteSet(stored')
  <2>1. CASE row[t].stored /\ UNCHANGED row
    BY <1>1, <1>2, <2>1 DEF TallyInv, RowsFit, On
  <2>2. CASE ~row[t].stored /\ row' = [row EXCEPT ![t] = [NoRow EXCEPT !.stored = TRUE]]
    <3>1. PICK r : r = [NoRow EXCEPT !.stored = TRUE]
      OBVIOUS
    <3>2. r = [stored |-> TRUE, clank |-> r.clank, ext |-> 0] /\ r.clank = 0 /\ r.stored
      BY <3>1 DEF NoRow
    <3>3. RowFits(r, past'[t], For(stored, t))
      BY <1>1, <2>2, <3>2, FreshRow
    <3>. QED
      BY <1>1, <1>2, <2>2, <3>1, <3>2, <3>3, RowWritten
  <2>. QED
    BY <2>1, <2>2 DEF StoreNote
<1>4. n.at = "load" /\ n.batch = s.batch /\ n.target = t /\ n.queue = s.queue
  BY <1>1 DEF Sessions
<1>. HIDE DEF n
<1>5. Good(n, stored', On')
  BY <1>1, <1>3, <1>4 DEF Good, Working
<1>6. task'[k] = n /\ \A v \in Tasks \ {k} : task'[v] = task[v]
  BY <1>2 DEF TallyInv, IInv, TypeOK
<1>7. ParkedFit'
  BY <1>2 DEF TallyInv, ParkedFit
<1>. QED
  BY <1>2, <1>3, <1>5, <1>6, <1>7, Frame

LEMMA OutsideTally ==
  ASSUME TallyInv, IInv', NEW t \in Targets, ConfirmVote(t) \/ Post(t)
  PROVE  TallyInv'
<1>1. UNCHANGED <<stored, task, parked>>
  BY DEF ConfirmVote, Post
<1>2. row[t] \in Rows /\ stored \in SUBSET Receipts /\ IsFiniteSet(stored)
      /\ past \in [Targets -> {"exact", "raced", "voted"}]
  BY DEF TallyInv, IInv, TypeOK
<1>3. ParkedFit'
  BY <1>1 DEF TallyInv, ParkedFit
<1>4. RowsFit' /\ On \subseteq On'
  <2>1. CASE ConfirmVote(t)
    <3>1. /\ row' = [row EXCEPT ![t] = Lowered(row[t])] /\ row[t].stored
          /\ past' = [past EXCEPT ![t] = "voted"]
      BY <2>1 DEF ConfirmVote
    <3>2. Lowered(row[t]).stored
      BY <1>2, <3>1 DEF Lowered, Rows
    <3>3. Covers(Lowered(row[t]), For(stored, t))
      BY <1>2, ForTypes, CoversLowered DEF TallyInv, RowsFit, RowFits
    <3>4. past'[t] = "voted" /\ \A u \in Targets \ {t} : past'[u] = past[u]
      BY <1>2, <3>1
    <3>5. RowFits(Lowered(row[t]), past'[t], For(stored, t))
      BY <3>2, <3>3, <3>4 DEF RowFits
    <3>. QED
      BY <1>1, <3>1, <3>2, <3>4, <3>5, RowWritten
  <2>2. CASE Post(t) /\ ~row[t].stored
             /\ row' = [row EXCEPT ![t] = [stored |-> TRUE, clank |-> PostSats, ext |-> 0]]
    <3>1. PICK r : r = [stored |-> TRUE, clank |-> PostSats, ext |-> 0]
      OBVIOUS
    <3>2. r = [stored |-> TRUE, clank |-> r.clank, ext |-> 0] /\ r.clank = PostSats /\ r.stored
      BY <3>1
    <3>3. RowFits(r, past'[t], For(stored, t)) /\ past' = past
      BY <2>2, <3>2, FreshRow DEF Post
    <3>. QED
      BY <1>1, <2>2, <3>1, <3>2, <3>3, RowWritten
  <2>3. CASE Post(t) /\ UNCHANGED row
    BY <1>1, <2>3 DEF Post, TallyInv, RowsFit, On
  <2>. QED
    BY <2>1, <2>2, <2>3 DEF Post
<1>. QED
  BY <1>1, <1>2, <1>3, <1>4, FrameOfStep

LEMMA CrashTally ==
  ASSUME TallyInv, IInv', Crash
  PROVE  TallyInv'
<1>1. UNCHANGED <<row, stored, past>> /\ parked' = [k \in Relays |-> NothingParked]
      /\ \A k \in Tasks : task'[k] \in {Idle, Down}
  BY DEF Crash, tables
<1>2. ParkedFit'
  BY <1>1 DEF ParkedFit, NothingParked
<1>3. On' = On /\ RowsFit' /\ IsFiniteSet(stored')
  BY <1>1 DEF On, RowsFit, TallyInv
<1>. QED
  BY <1>1, <1>2, <1>3, GoodIdle, FrameOfStep

LEMMA InitTally ==
  ASSUME Init
  PROVE  TallyInv
<1>1. IInv
  BY InitInv
<1>2. IsFiniteSet(stored) /\ \A t : For(stored, t) = {}
  BY FS_EmptySet DEF Init, For
<1>3. Sum({}) = 0 /\ {} \cap FeeLegs = {} /\ PostSats \in Nat
  BY SumEmpty, AmountsAssumption
<1>4. RowsFit
  <2>1. NoRow.ext = 0 /\ NoRow.clank = 0
    BY DEF NoRow
  <2>2. Covers(NoRow, {}) /\ Exact(NoRow, {})
    BY <1>3, <2>1 DEF Covers, Exact
  <2>3. \A t \in Targets : row[t] = NoRow
    BY DEF Init
  <2>. QED
    BY <1>2, <2>2, <2>3 DEF RowsFit, RowFits
<1>5. ParkedFit
  BY DEF Init, ParkedFit, NothingParked
<1>6. \A k \in Tasks : Good(task[k], stored, On)
  BY GoodIdle DEF Init
<1>. QED
  BY <1>1, <1>2, <1>4, <1>5, <1>6 DEF TallyInv

LEMMA StepTally ==
  ASSUME TallyInv, IInv', NEW k \in Tasks, Step(k)
  PROVE  TallyInv'
<1>. DEFINE s == task[k]
<1>1. s \in Sessions /\ Good(s, stored, On) /\ Fits(k)
  BY TallyTypes
<1>2. UNCHANGED parked => ParkedFit'
  BY DEF TallyInv, ParkedFit
<1>3. ASSUME GoOn(k, s), UNCHANGED <<tables, parked, past>>,
             s.at \in {"check", "signer", "profile"} \/ ~s.batch
      PROVE  TallyInv'
  BY <1>2, <1>3, GoOnTally
<1>4. CASE Known(k) \/ Refuse(k)
  BY <1>3, <1>4 DEF Known, Refuse
<1>5. CASE RefuseStranger(k) \/ Answer(k)
  <2>1. ~s.batch
    BY <1>1, <1>5, TasksAssumption DEF RefuseStranger, Answer, Good, Fits
  <2>. QED
    BY <1>3, <1>5, <2>1 DEF RefuseStranger, Answer
<1>6. CASE Unknown(k)
  BY <1>1, <1>6, MoveTally DEF Unknown, Working, Sessions
<1>7. CASE Accept(k)
  BY <1>7, MoveTally DEF Accept, Working
<1>8. CASE FetchProfile(k)
  BY <1>8, MoveTally DEF FetchProfile, Working
<1>9. CASE ProfileRace(k)
  <2>1. CASE Fail(k)
    BY <2>1, FailTally
  <2>2. CASE GoOn(k, s) /\ UNCHANGED <<tables, parked, past>>
    BY <1>3, <1>9, <2>2 DEF ProfileRace
  <2>. QED
    BY <1>9, <2>1, <2>2 DEF ProfileRace
<1>. QED
  BY <1>4, <1>5, <1>6, <1>7, <1>8, <1>9, LoadTally, ParkTally, StoreProfileTally, CreditTally,
     DuplicateTally, StoreNoteTally, CastVoteTally, FailTally
  DEF Step, DropVote, LockTimeout

LEMMA NextTally == TallyInv /\ [Next]_vars => TallyInv'
<1>. SUFFICES ASSUME TallyInv, [Next]_vars
              PROVE  TallyInv'
  OBVIOUS
<1>1. IInv'
  BY NextInv DEF TallyInv
<1>2. CASE Environment
  BY <1>1, <1>2, ReceiveTally, TargetArrivesTally, ReadVoteTally, ConnectTally, FailTally,
     OutsideTally, CrashTally
  DEF Environment, Disconnect
<1>3. CASE \E k \in Tasks : Step(k)
  BY <1>1, <1>3, StepTally
<1>4. CASE UNCHANGED vars
  BY <1>1, <1>4 DEF vars, tables, TallyInv, RowsFit, ParkedFit, On
<1>. QED
  BY <1>2, <1>3, <1>4 DEF Next

LEMMA TallyAlways == Spec => []TallyInv
  BY InitTally, NextTally, PTL DEF Spec

LEMMA FaceAndFee ==
  ASSUME NEW t
  PROVE  FaceValue(t) = Sum(For(stored, t)) /\ FeeValue(t) = Sum(For(stored, t) \cap FeeLegs)
<1>1. {z \in stored \cap FeeLegs : TargetOf[z] = t} = For(stored, t) \cap FeeLegs
  BY DEF For
<1>. QED
  BY <1>1 DEF FaceValue, FeeValue, Sum, For

-----------------------------------------------------------------------------
(* The properties *)

\* No tally exceeds what was zapped and posted: for any number of tasks that credit the same
\* receipts in any order, over any copies of the rows.
THEOREM NotInflated == Spec => []NoInflation
<1>1. TallyInv => NoInflation
  BY FaceAndFee DEF TallyInv, RowsFit, RowFits, Covers, NoInflation
<1>. QED
  BY <1>1, TallyAlways, PTL

\* A tally is the face value of the receipts until a vote lowers it or a commit writes over a
\* row that its session read too early.
THEOREM ExactUntilRaced == Spec => []ExactUnlessRaced
<1>1. TallyInv => ExactUnlessRaced
  BY FaceAndFee DEF TallyInv, RowsFit, RowFits, Exact, ExactUnlessRaced
<1>. QED
  BY <1>1, TallyAlways, PTL

=============================================================================
