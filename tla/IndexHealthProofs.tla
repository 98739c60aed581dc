---------------------------- MODULE IndexHealthProofs ----------------------------
(***************************************************************************)
(* What holds of the advice of index-health for any indexes.                *)
(*                                                                         *)
(* That what is dropped leaves what covered it rests on the order of the    *)
(* names: of the indexes that cover one, the first was dropped for no pair. *)
(***************************************************************************)
EXTENDS IndexHealth, FiniteSetTheorems, WellFoundedInduction, TLAPS

\* What has become of an index that was there when the pairs were read.
Gone(n) ==
  \/ n \in lost
  \/ \E statement \in followed :
       statement.index = n /\ statement.op = "drop" /\ statement.why = "unused"

Paired(n) == \E m \in DOMAIN seen : m < n /\ Covers(seen, m, n)

Dropped ==
  /\ pc \in {"invalid", "unused", "pairs"} => \A statement \in todo : statement.why # "pair"
  /\ pc = "following" =>
       /\ \A n \in DOMAIN seen : n \in DOMAIN catalog \/ Gone(n) \/ Paired(n)
       /\ \A statement \in todo : statement.why = "pair" => Paired(statement.index)

Inductive == TypeOK /\ Dropped

-----------------------------------------------------------------------------
LEMMA PrefixTransitive ==
  ASSUME NEW a \in Seq(STRING), NEW b \in Seq(STRING), NEW c \in Seq(STRING),
         IsPrefix(a, b), IsPrefix(b, c)
  PROVE  IsPrefix(a, c)
<1>1. /\ Len(a) \in Nat /\ Len(b) \in Nat /\ Len(c) \in Nat
      /\ Len(a) <= Len(b) /\ Len(b) <= Len(c)
  BY DEF IsPrefix
<1>2. \A i \in 1..Len(a) : a[i] = b[i]
  <2>1. SubSeq(a, 1, Len(a)) = SubSeq(b, 1, Len(a))
    BY DEF IsPrefix
  <2>2. \A i \in 1..Len(a) : SubSeq(a, 1, Len(a))[i] = a[i] /\ SubSeq(b, 1, Len(a))[i] = b[i]
    BY <1>1
  <2> QED BY <2>1, <2>2
<1>3. \A i \in 1..Len(b) : b[i] = c[i]
  <2>1. SubSeq(b, 1, Len(b)) = SubSeq(c, 1, Len(b))
    BY DEF IsPrefix
  <2>2. \A i \in 1..Len(b) : SubSeq(b, 1, Len(b))[i] = b[i] /\ SubSeq(c, 1, Len(b))[i] = c[i]
    BY <1>1
  <2> QED BY <2>1, <2>2
<1>4. SubSeq(a, 1, Len(a)) = SubSeq(c, 1, Len(a))
  <2>1. \A i \in 1..Len(a) : a[i] = c[i]
    BY <1>1, <1>2, <1>3
  <2> QED BY <1>1, <2>1
<1> QED BY <1>1, <1>4 DEF IsPrefix

LEMMA PrefixReflexive == ASSUME NEW a \in Seq(STRING) PROVE IsPrefix(a, a)
BY DEF IsPrefix

\* A set of names has a first one.
LEMMA FirstName ==
  ASSUME NEW S \in SUBSET Nat, S # {} PROVE \E m \in S : \A n \in S : ~ (n < m)
<1>1. \E m \in S : \A n \in S : ~ (<<n, m>> \in OpToRel(<, Nat))
  BY NatLessThanWellFounded, WFMin
<1> QED BY <1>1 DEF OpToRel

LEMMA CoversTransitive ==
  ASSUME NEW indexes, IsCatalog(indexes), NEW a \in DOMAIN indexes, NEW b \in DOMAIN indexes,
         NEW c \in DOMAIN indexes, Covers(indexes, a, b), Covers(indexes, b, c)
  PROVE  Covers(indexes, a, c)
<1>1. /\ indexes[a].columns \in Seq(STRING) /\ indexes[b].columns \in Seq(STRING)
      /\ indexes[c].columns \in Seq(STRING)
  BY DEF IsCatalog, Index
<1>2. IsPrefix(indexes[c].columns, indexes[a].columns)
  BY <1>1, PrefixTransitive DEF Covers
<1> QED BY <1>2 DEF Covers

LEMMA CoversItself ==
  ASSUME NEW indexes, IsCatalog(indexes), NEW n \in DOMAIN indexes,
         indexes[n].asked, indexes[n].columns # << >>
  PROVE  Covers(indexes, n, n)
<1>1. indexes[n].columns \in Seq(STRING)
  BY DEF IsCatalog, Index
<1> QED BY <1>1, PrefixReflexive DEF Covers

-----------------------------------------------------------------------------
\* The first of the indexes that cover one is not the second of a pair.
LEMMA FirstKept == Inductive => CoverKept
<1> SUFFICES ASSUME Inductive, pc = "following", NEW n \in DOMAIN seen,
                    seen[n].asked, seen[n].columns # << >>
             PROVE  \E m \in DOMAIN seen : Covers(seen, m, n) /\ (m \in DOMAIN catalog \/ Gone(m))
  BY DEF CoverKept, Gone
<1>1. IsCatalog(seen) /\ DOMAIN seen \subseteq Names /\ Names \subseteq Nat
  BY IndexAssumption DEF Inductive, TypeOK, IsCatalog
<1> DEFINE covering == {m \in DOMAIN seen : Covers(seen, m, n)}
<1>2. n \in covering
  BY <1>1, CoversItself
<1>3. PICK m \in covering : \A k \in covering : ~ (k < m)
  BY <1>1, <1>2, FirstName
<1>4. ~ Paired(m)
  <2> SUFFICES ASSUME NEW k \in DOMAIN seen, k < m, Covers(seen, k, m) PROVE FALSE
    BY DEF Paired
  <2>1. Covers(seen, k, n)
    BY <1>1, CoversTransitive
  <2> QED BY <1>3, <2>1
<1> QED BY <1>4 DEF Inductive, Dropped

-----------------------------------------------------------------------------
LEMMA LeastTyped ==
  ASSUME NEW m \in Nat, NEW n \in Nat
  PROVE  Least(m, n) \in Nat /\ Least(m, n) <= m /\ Least(m, n) <= n
BY DEF Least

LEMMA ScoreTyped ==
  ASSUME NEW i \in Nat, NEW u \in Nat, NEW p \in Nat PROVE ScoreOf(i, u, p) \in 30..100
BY DEF ScoreOf, Least

\* Names, and pairs of them, can be counted.
LEMMA Counted ==
  /\ \A names \in SUBSET Names : IsFiniteSet(names) /\ Cardinality(names) \in Nat
  /\ \A some \in SUBSET (Names \X Names) : IsFiniteSet(some) /\ Cardinality(some) \in Nat
<1>1. IsFiniteSet(Names) /\ IsFiniteSet(Names \X Names)
  BY IndexAssumption, FS_Product
<1> QED BY <1>1, FS_Subset, FS_CardinalityType

LEMMA StatementsTyped ==
  ASSUME NEW names \in SUBSET Names
  PROVE  /\ Reindex(names) \subseteq Statements
         /\ Drop("unused", names) \subseteq Statements
         /\ Drop("pair", names) \subseteq Statements
BY DEF Statements, Reindex, Drop

LEMMA QueriesTyped ==
  ASSUME NEW indexes, IsCatalog(indexes)
  PROVE  /\ Invalid(indexes) \subseteq Names /\ Unused(indexes) \subseteq Names
         /\ Pairs(indexes) \subseteq Names \X Names
BY DEF IsCatalog, Invalid, Unused, Pairs

LEMMA WithoutTyped ==
  ASSUME IsCatalog(catalog), NEW n
  PROVE  /\ IsCatalog(Without(n)) /\ DOMAIN Without(n) = DOMAIN catalog \ {n}
         /\ \A m \in DOMAIN Without(n) : Without(n)[m] = catalog[m]
<1>1. /\ DOMAIN Without(n) = DOMAIN catalog \ {n}
      /\ \A m \in DOMAIN Without(n) : Without(n)[m] = catalog[m]
  BY DEF Without
<1>2. Without(n) \in [DOMAIN Without(n) -> Index]
  BY DEF Without, IsCatalog
<1> QED BY <1>1, <1>2 DEF IsCatalog

\* What a statement, or a scan, does to the catalog at most.
LEMMA MarkTyped ==
  ASSUME IsCatalog(catalog), NEW n \in DOMAIN catalog, NEW marked,
         \/ \E size \in Sizes : marked = Built(n, size)
         \/ marked = [catalog EXCEPT ![n].scanned = TRUE]
  PROVE  IsCatalog(marked) /\ DOMAIN marked = DOMAIN catalog
<1>1. catalog[n] \in Index
  BY DEF IsCatalog
<1>2. /\ \A size \in Sizes : [catalog[n] EXCEPT !.valid = TRUE, !.size = size] \in Index
      /\ [catalog[n] EXCEPT !.scanned = TRUE] \in Index
  BY <1>1, IndexAssumption DEF Index
<1>3. DOMAIN marked = DOMAIN catalog /\ marked \in [DOMAIN catalog -> Index]
  BY <1>1, <1>2 DEF IsCatalog, Built
<1> QED BY <1>3 DEF IsCatalog

\* An index that is built is valid, of one of the sizes, and otherwise what it was.
LEMMA BuiltIs ==
  ASSUME IsCatalog(catalog), NEW n \in DOMAIN catalog, NEW size \in Sizes
  PROVE  LET built == Built(n, size)
         IN  /\ DOMAIN built = DOMAIN catalog
             /\ built[n].valid
             /\ \A m \in DOMAIN catalog :
                  /\ built[m].asked = catalog[m].asked /\ built[m].table = catalog[m].table
                  /\ built[m].columns = catalog[m].columns
                  /\ built[m].scanned = catalog[m].scanned
                  /\ built[m].pkey = catalog[m].pkey
                  /\ m # n => built[m] = catalog[m]
<1>1. catalog[n] \in Index
  BY DEF IsCatalog
<1> DEFINE anew == [catalog[n] EXCEPT !.valid = TRUE, !.size = size]
<1>2. /\ anew.asked = catalog[n].asked /\ anew.table = catalog[n].table
      /\ anew.columns = catalog[n].columns /\ anew.scanned = catalog[n].scanned
      /\ anew.pkey = catalog[n].pkey /\ anew.valid = TRUE
  BY <1>1 DEF Index
<1> HIDE DEF anew
<1>3. Built(n, size) = [catalog EXCEPT ![n] = anew]
  BY DEF Built, anew
<1> QED BY <1>2, <1>3

-----------------------------------------------------------------------------
LEMMA InitTyped == Init => TypeOK
<1> SUFFICES ASSUME Init PROVE TypeOK
  OBVIOUS
<1>1. IsCatalog(catalog) /\ IsCatalog(seen)
  BY IndexAssumption DEF Init, IsCatalog
<1> QED BY <1>1, IndexAssumption DEF Init, TypeOK

LEMMA NextTyped == TypeOK /\ [Next]_vars => TypeOK'
<1> SUFFICES ASSUME TypeOK, [Next]_vars PROVE TypeOK'
  OBVIOUS
<1> USE DEF TypeOK
<1>1. CASE QueryFails
  BY <1>1 DEF QueryFails
<1>2. CASE ReadInvalid
  BY <1>2, QueriesTyped, StatementsTyped DEF ReadInvalid
<1>3. CASE ReadUnused
  <2>1. unused' \subseteq Names
    BY <1>3, QueriesTyped DEF ReadUnused
  <2>2. PICK some \in SUBSET unused' : todo' = todo \cup Drop("unused", some)
    BY <1>3 DEF ReadUnused, kSubset
  <2>3. todo' \subseteq Statements
    BY <2>1, <2>2, StatementsTyped
  <2> QED BY <1>3, <2>1, <2>3 DEF ReadUnused
<1>4. CASE ReadPairs
  <2>1. pairs' \subseteq Names \X Names
    BY <1>4, QueriesTyped DEF ReadPairs
  <2>2. PICK some \in SUBSET pairs' : todo' = todo \cup Drop("pair", {pair[2] : pair \in some})
    BY <1>4 DEF ReadPairs, kSubset
  <2>3. {pair[2] : pair \in some} \subseteq Names
    BY <2>1
  <2>4. todo' \subseteq Statements
    BY <2>2, <2>3, StatementsTyped
  <2>5. score' \in 30..100
    BY <1>4, <2>1, Counted, ScoreTyped DEF ReadPairs
  <2> QED BY <1>4, <2>1, <2>4, <2>5 DEF ReadPairs
<1>5. ASSUME NEW statement \in Statements, Follow(statement) PROVE TypeOK'
  <2>1. IsCatalog(catalog')
    <3>1. CASE Refused(statement)
      BY <3>1 DEF Refused, IsCatalog
    <3>2. CASE Reindexed(statement)
      BY <3>2, MarkTyped DEF Reindexed
    <3>3. CASE Removed(statement)
      BY <3>3, WithoutTyped DEF Removed
    <3> QED BY <1>5, <3>1, <3>2, <3>3 DEF Follow
  <2>2. vain' \subseteq followed'
    BY <1>5 DEF Follow, Refused, Reindexed, Removed
  <2> QED BY <1>5, <2>1, <2>2 DEF Follow
<1>6. ASSUME NEW n \in Names,
             OtherCreates(n) \/ OtherValidates(n) \/ OtherScans(n) \/ OtherDrops(n)
      PROVE  TypeOK'
  <2>1. IsCatalog(catalog') /\ lost' \subseteq Names
    <3>1. CASE OtherCreates(n)
      <4> PICK definition \in Definitions :
            catalog' = [m \in DOMAIN catalog \cup {n} |->
                          IF m = n THEN definition ELSE catalog[m]]
        BY <3>1 DEF OtherCreates
      <4>1. DOMAIN catalog' = DOMAIN catalog \cup {n} /\ DOMAIN catalog \subseteq Names
        BY DEF IsCatalog
      <4>2. definition \in Index /\ \A m \in DOMAIN catalog : catalog[m] \in Index
        BY IndexAssumption DEF IsCatalog
      <4> QED BY <3>1, <4>1, <4>2 DEF IsCatalog, OtherCreates
    <3>2. CASE OtherValidates(n)
      BY <3>2, MarkTyped DEF OtherValidates, Invalid
    <3>3. CASE OtherScans(n)
      BY <3>3, MarkTyped DEF OtherScans
    <3>4. CASE OtherDrops(n)
      BY <3>4, WithoutTyped DEF OtherDrops
    <3> QED BY <1>6, <3>1, <3>2, <3>3, <3>4
  <2>2. UNCHANGED reportVars /\ quiet' = FALSE /\ changes' = changes + 1
        /\ changes < ChangeBound
    BY <1>6 DEF OtherCreates, OtherValidates, OtherScans, OtherDrops, Other
  <2>3. changes' \in 0..ChangeBound
    BY <2>2, IndexAssumption
  <2> QED BY <2>1, <2>2, <2>3 DEF reportVars
<1>7. CASE UNCHANGED vars
  BY <1>7 DEF vars, IsCatalog
<1> QED BY <1>1, <1>2, <1>3, <1>4, <1>5, <1>6, <1>7 DEF Next

\* Types.
THEOREM TypeCorrect == Spec => []TypeOK
BY InitTyped, NextTyped, PTL DEF Spec

-----------------------------------------------------------------------------
\* Others leave the report as it is, and what they drop is lost.
LEMMA OtherEffect ==
  ASSUME TypeOK, NEW n \in Names,
         OtherCreates(n) \/ OtherValidates(n) \/ OtherScans(n) \/ OtherDrops(n)
  PROVE  /\ UNCHANGED reportVars /\ ~ quiet'
         /\ lost \subseteq lost'
         /\ \A m \in DOMAIN catalog :
              m \in DOMAIN catalog' \/ (pc = "following" => m \in lost')
<1>1. UNCHANGED reportVars /\ ~ quiet'
  BY DEF OtherCreates, OtherValidates, OtherScans, OtherDrops, Other
<1>2. CASE OtherCreates(n)
  BY <1>1, <1>2 DEF OtherCreates
<1>3. CASE OtherValidates(n)
  BY <1>1, <1>3, MarkTyped DEF OtherValidates, Invalid, TypeOK
<1>4. CASE OtherScans(n)
  BY <1>1, <1>4 DEF OtherScans
<1>5. CASE OtherDrops(n)
  BY <1>1, <1>5, WithoutTyped DEF OtherDrops, TypeOK
<1> QED BY <1>2, <1>3, <1>4, <1>5

\* Neither the indexes nor the pairs of a report change.
LEMMA StaysPaired ==
  ASSUME UNCHANGED seen, lost \subseteq lost', followed \subseteq followed'
  PROVE  \A n : (Paired(n)' <=> Paired(n)) /\ (Gone(n) => Gone(n)')
BY DEF Paired, Gone, Covers

LEMMA NextDropped == Inductive /\ [Next]_vars => Inductive'
<1> SUFFICES ASSUME TypeOK, Dropped, [Next]_vars PROVE Dropped'
  BY NextTyped DEF Inductive
<1> USE DEF Dropped
<1>1. CASE QueryFails
  BY <1>1 DEF QueryFails
<1>2. CASE ReadInvalid
  BY <1>2 DEF ReadInvalid, Reindex
<1>3. CASE ReadUnused
  BY <1>3 DEF ReadUnused, Drop
<1>4. CASE ReadPairs
  <2>1. PICK some \in SUBSET pairs' : todo' = todo \cup Drop("pair", {pair[2] : pair \in some})
    BY <1>4 DEF ReadPairs, kSubset
  <2>2. \A pair \in pairs' : Paired(pair[2])'
    BY <1>4 DEF ReadPairs, Pairs, Paired, Covers
  <2>3. ASSUME NEW statement \in todo', statement.why = "pair" PROVE Paired(statement.index)'
    <3>1. statement \notin todo
      BY <1>4, <2>3 DEF ReadPairs
    <3>2. PICK pair \in some : statement.index = pair[2]
      BY <2>1, <3>1 DEF Drop
    <3> QED BY <2>2, <3>2
  <2> QED BY <1>4, <2>3 DEF ReadPairs
<1>5. ASSUME NEW statement \in Statements, Follow(statement) PROVE Dropped'
  <2>1. /\ pc = "following" /\ pc' = pc /\ seen' = seen /\ lost' = lost /\ statement \in todo
        /\ todo' = todo \ {statement} /\ followed' = followed \cup {statement}
    BY <1>5 DEF Follow
  <2>2. \A n : (Paired(n)' <=> Paired(n)) /\ (Gone(n) => Gone(n)')
    BY <2>1, StaysPaired
  <2>3. ASSUME NEW n \in DOMAIN seen PROVE n \in DOMAIN catalog' \/ Gone(n)' \/ Paired(n)'
    <3>1. CASE n \in DOMAIN catalog'
      BY <3>1
    <3>2. CASE n \notin DOMAIN catalog
      BY <2>1, <2>2, <3>2
    <3>3. CASE n \in DOMAIN catalog /\ n \notin DOMAIN catalog'
      <4>1. statement.index = n /\ statement.op = "drop"
        <5>1. CASE Refused(statement)
          BY <3>3, <5>1 DEF Refused
        <5>2. CASE Reindexed(statement)
          BY <3>3, <5>2, MarkTyped DEF Reindexed, TypeOK
        <5>3. CASE Removed(statement)
          BY <3>3, <5>3, WithoutTyped DEF Removed, TypeOK
        <5> QED BY <1>5, <5>1, <5>2, <5>3 DEF Follow
      <4>2. statement.why \in {"unused", "pair"}
        BY <4>1 DEF Statements, Reindex, Drop
      <4>3. CASE statement.why = "unused"
        BY <2>1, <4>1, <4>3 DEF Gone
      <4>4. CASE statement.why = "pair"
        BY <2>1, <2>2, <4>1, <4>4
      <4> QED BY <4>2, <4>3, <4>4
    <3> QED BY <3>1, <3>2, <3>3
  <2> QED BY <2>1, <2>2, <2>3
<1>6. ASSUME NEW n \in Names,
             OtherCreates(n) \/ OtherValidates(n) \/ OtherScans(n) \/ OtherDrops(n)
      PROVE  Dropped'
  <2>1. UNCHANGED <<pc, todo, seen, followed>> /\ lost \subseteq lost'
    BY <1>6, OtherEffect DEF reportVars
  <2>2. \A m : (Paired(m)' <=> Paired(m)) /\ (Gone(m) => Gone(m)')
    BY <2>1, StaysPaired
  <2>3. ASSUME pc = "following", NEW m \in DOMAIN catalog
        PROVE  m \in DOMAIN catalog' \/ Gone(m)'
    BY <1>6, <2>3, OtherEffect DEF Gone
  <2> QED BY <2>1, <2>2, <2>3
<1>7. CASE UNCHANGED vars
  BY <1>7, StaysPaired DEF vars
<1> QED BY <1>1, <1>2, <1>3, <1>4, <1>5, <1>6, <1>7 DEF Next

\* Following the advice on pairs leaves every index with one that covers it.
THEOREM CoverStays == Spec => []CoverKept
<1>1. Init => Inductive
  BY InitTyped DEF Inductive, Dropped, Init
<1> QED BY <1>1, NextDropped, FirstKept, PTL DEF Spec

-----------------------------------------------------------------------------
ToReindex(n) == [op |-> "reindex", why |-> "invalid", index |-> n]
ToDrop(why, n) == [op |-> "drop", why |-> why, index |-> n]

\* Left to the user alone, there is a statement for whatever is wrong, or there was one in
\* vain; but an index may grow to be listed as it is built anew.
Open(statement) == statement \in todo \cup vain

Remaining ==
  quiet =>
    /\ pc \in {"unused", "pairs", "following"} =>
         \A n \in Invalid(catalog) : Open(ToReindex(n))
    /\ pc \in {"pairs", "following"} /\ Cardinality(unused) <= AdviceLimit =>
         \A n \in Unused(catalog) :
           Open(ToDrop("unused", n)) \/ ToReindex(n) \in followed \ vain
    /\ pc = "following" /\ Cardinality(pairs) <= AdviceLimit /\ pairing =>
         \A pair \in Pairs(catalog) : Open(ToDrop("pair", pair[2]))
    \* A statement is executed once.
    /\ todo \cap followed = {}
    /\ pc # "following" => followed = {}

\* A list that is not cut has everything in it.
LEMMA AllListed ==
  ASSUME NEW S, IsFiniteSet(S), Cardinality(S) <= AdviceLimit,
         NEW some \in kSubset(Least(AdviceLimit, Cardinality(S)), S)
  PROVE  some = S
<1>1. some \in SUBSET S /\ Cardinality(some) = Least(AdviceLimit, Cardinality(S))
  BY DEF kSubset
<1>2. Cardinality(S) \in Nat /\ AdviceLimit \in Nat
  BY FS_CardinalityType, IndexAssumption
<1>3. Least(AdviceLimit, Cardinality(S)) = Cardinality(S)
  BY <1>2 DEF Least
<1> QED BY <1>1, <1>3, FS_Subset

\* A statement that is not in vain leaves nothing wrong that was not, and not what it is
\* for; but what it builds may be listed as unused.
LEMMA FollowClears ==
  ASSUME TypeOK, NEW statement \in Statements, Follow(statement)
  PROVE  LET n == statement.index
         IN  /\ Invalid(catalog') \subseteq Invalid(catalog)
             /\ \A m \in Unused(catalog') :
                  \/ m \in Unused(catalog)
                  \/ m = n /\ Reindexed(statement)
             /\ Pairs(catalog') \subseteq Pairs(catalog)
             /\ \/ vain' = vain \cup {statement}
                \/ /\ vain' = vain
                   /\ statement.op = "reindex" => n \notin Invalid(catalog')
                   /\ statement.op = "drop" => n \notin DOMAIN catalog'
<1> DEFINE n == statement.index
<1> USE DEF Invalid, Unused, Pairs, Covers
<1>1. CASE Refused(statement)
  BY <1>1 DEF Refused
<1>2. CASE Reindexed(statement)
  <2>1. PICK size \in Sizes : catalog' = Built(n, size)
    BY <1>2 DEF Reindexed
  <2>2. n \in DOMAIN catalog /\ statement.op = "reindex" /\ vain' = vain
    BY <1>2 DEF Reindexed
  <2>3. /\ DOMAIN catalog' = DOMAIN catalog /\ catalog'[n].valid
        /\ \A m \in DOMAIN catalog :
             /\ catalog'[m].asked = catalog[m].asked /\ catalog'[m].table = catalog[m].table
             /\ catalog'[m].columns = catalog[m].columns
             /\ catalog'[m].scanned = catalog[m].scanned /\ catalog'[m].pkey = catalog[m].pkey
             /\ m # n => catalog'[m] = catalog[m]
    BY <2>1, <2>2, BuiltIs DEF TypeOK
  <2> QED BY <1>2, <2>2, <2>3
<1>3. CASE Removed(statement)
  <2>1. /\ DOMAIN catalog' = DOMAIN catalog \ {n}
        /\ \A m \in DOMAIN catalog' : catalog'[m] = catalog[m]
    BY <1>3, WithoutTyped DEF Removed, TypeOK
  <2> QED BY <1>3, <2>1 DEF Removed
<1> QED BY <1>1, <1>2, <1>3 DEF Follow

LEMMA NextRemaining == TypeOK /\ Remaining /\ [Next]_vars => Remaining'
<1> SUFFICES ASSUME TypeOK, Remaining, [Next]_vars PROVE Remaining'
  OBVIOUS
<1>1. CASE QueryFails
  BY <1>1 DEF QueryFails, Remaining
<1>2. CASE ReadInvalid
  <2>1. \A n \in Invalid(catalog) : Open(ToReindex(n))'
    BY <1>2 DEF ReadInvalid, Reindex, ToReindex, Open
  <2> QED BY <1>2, <2>1 DEF ReadInvalid, Remaining
<1>3. CASE ReadUnused
  <2>1. unused' = Unused(catalog) /\ catalog' = catalog /\ quiet' = quiet
    BY <1>3 DEF ReadUnused
  <2>2. PICK some \in kSubset(Least(AdviceLimit, Cardinality(unused')), unused') :
          todo' = todo \cup Drop("unused", some)
    BY <1>3 DEF ReadUnused
  <2>3. unused' \subseteq Names
    BY <2>1, QueriesTyped DEF TypeOK
  <2>4. Cardinality(unused') <= AdviceLimit =>
          \A n \in Unused(catalog) : Open(ToDrop("unused", n))'
    <3> SUFFICES ASSUME Cardinality(unused') <= AdviceLimit, NEW n \in Unused(catalog)
                 PROVE  ToDrop("unused", n) \in todo'
      BY DEF Open
    <3>1. some = unused'
      BY <2>2, <2>3, AllListed, Counted
    <3> QED BY <2>1, <2>2, <3>1 DEF Drop, ToDrop
  <2>5. quiet => \A n \in Invalid(catalog) : Open(ToReindex(n))'
    BY <1>3, <2>2 DEF ReadUnused, Remaining, Open
  <2> QED BY <1>3, <2>1, <2>4, <2>5 DEF ReadUnused, Remaining
<1>4. CASE ReadPairs
  <2>1. /\ catalog' = catalog /\ quiet' = quiet /\ unused' = unused /\ pairing' = pairing
        /\ pairing => pairs' = Pairs(catalog)
    BY <1>4 DEF ReadPairs
  <2>2. PICK some \in kSubset(Least(AdviceLimit, Cardinality(pairs')), pairs') :
          todo' = todo \cup Drop("pair", {pair[2] : pair \in some})
    BY <1>4 DEF ReadPairs
  <2>3. pairs' \subseteq Names \X Names
    BY <1>4, QueriesTyped DEF ReadPairs, TypeOK
  <2>4. Cardinality(pairs') <= AdviceLimit /\ pairing =>
          \A pair \in Pairs(catalog) : Open(ToDrop("pair", pair[2]))'
    <3> SUFFICES ASSUME Cardinality(pairs') <= AdviceLimit, pairing,
                        NEW pair \in Pairs(catalog)
                 PROVE  ToDrop("pair", pair[2]) \in todo'
      BY DEF Open
    <3>1. some = pairs'
      BY <2>2, <2>3, AllListed, Counted
    <3> QED BY <2>1, <2>2, <3>1 DEF Drop, ToDrop
  <2>5. quiet => /\ \A n \in Invalid(catalog) : Open(ToReindex(n))'
                 /\ Cardinality(unused) <= AdviceLimit =>
                      \A n \in Unused(catalog) :
                        Open(ToDrop("unused", n))' \/ ToReindex(n) \in followed \ vain
    BY <1>4, <2>2 DEF ReadPairs, Remaining, Open
  <2>6. pc = "pairs" /\ pc' = "following" /\ UNCHANGED <<followed, vain>>
    BY <1>4 DEF ReadPairs
  <2> QED BY <2>1, <2>4, <2>5, <2>6 DEF Remaining
<1>5. ASSUME NEW statement \in Statements, Follow(statement) PROVE Remaining'
  <2> SUFFICES ASSUME quiet' PROVE Remaining'
    BY DEF Remaining
  <2> DEFINE n == statement.index
  <2>1. /\ pc = "following" /\ UNCHANGED <<pc, unused, pairs, pairing>> /\ quiet
        /\ statement \in todo /\ todo' = todo \ {statement}
        /\ followed' = followed \cup {statement} /\ todo \cap followed = {}
        /\ vain \subseteq followed
    BY <1>5 DEF Follow, Remaining, TypeOK
  <2>2. /\ Invalid(catalog') \subseteq Invalid(catalog)
        /\ \A m \in Unused(catalog') :
             m \in Unused(catalog) \/ (m = n /\ Reindexed(statement))
        /\ Pairs(catalog') \subseteq Pairs(catalog)
        /\ \/ vain' = vain \cup {statement}
           \/ /\ vain' = vain
              /\ statement.op = "reindex" => n \notin Invalid(catalog')
              /\ statement.op = "drop" => n \notin DOMAIN catalog'
    BY <1>5, FollowClears
  \* What was open stays so, or the statement did what it is for.
  <2>3. ASSUME NEW one, Open(one)
        PROVE  Open(one)' \/ (one = statement /\ vain' = vain)
    BY <2>1, <2>2, <2>3 DEF Open
  <2>4. ASSUME NEW m \in Invalid(catalog') PROVE Open(ToReindex(m))'
    <3>1. Open(ToReindex(m))
      BY <2>1, <2>2 DEF Remaining
    <3>2. CASE ToReindex(m) = statement /\ vain' = vain
      <4>1. statement.op = "reindex" /\ n = m /\ statement \notin vain
        BY <2>1, <3>2 DEF ToReindex
      <4> QED BY <2>2, <4>1, <3>2, <2>4
    <3> QED BY <2>3, <3>1, <3>2
  <2>5. ASSUME Cardinality(unused) <= AdviceLimit, NEW m \in Unused(catalog')
        PROVE  Open(ToDrop("unused", m))' \/ ToReindex(m) \in (followed \ vain)'
    <3>1. m \in DOMAIN catalog'
      BY DEF Unused
    <3>2. CASE m = n /\ Reindexed(statement)
      <4>1. statement.op = "reindex" /\ vain' = vain
        BY <3>2 DEF Reindexed
      <4>2. statement = ToReindex(m)
        BY <3>2, <4>1 DEF Statements, Reindex, Drop, ToReindex
      <4> QED BY <2>1, <4>1, <4>2
    <3>3. CASE m \in Unused(catalog)
      <4>1. Open(ToDrop("unused", m)) \/ ToReindex(m) \in followed \ vain
        BY <2>1, <2>5, <3>3 DEF Remaining
      <4>2. CASE ToReindex(m) \in followed \ vain
        BY <2>1, <2>2, <4>2
      <4>3. CASE ToDrop("unused", m) = statement /\ vain' = vain
        <5>1. statement.op = "drop" /\ n = m /\ statement \notin vain
          BY <2>1, <4>3 DEF ToDrop
        <5> QED BY <2>2, <3>1, <4>3, <5>1
      <4> QED BY <2>3, <4>1, <4>2, <4>3
    <3> QED BY <2>2, <3>2, <3>3
  <2>6. ASSUME Cardinality(pairs) <= AdviceLimit, pairing, NEW pair \in Pairs(catalog')
        PROVE  Open(ToDrop("pair", pair[2]))'
    <3>1. pair[2] \in DOMAIN catalog' /\ pair \in Pairs(catalog)
      BY <2>2 DEF Pairs
    <3>2. Open(ToDrop("pair", pair[2]))
      BY <2>1, <2>6, <3>1 DEF Remaining
    <3>3. CASE ToDrop("pair", pair[2]) = statement /\ vain' = vain
      <4>1. statement.op = "drop" /\ n = pair[2] /\ statement \notin vain
        BY <2>1, <3>3 DEF ToDrop
      <4> QED BY <2>2, <3>1, <3>3, <4>1
    <3> QED BY <2>3, <3>2, <3>3
  <2>7. todo' \cap followed' = {}
    BY <2>1
  <2> HIDE DEF n
  <2> QED BY <2>1, <2>4, <2>5, <2>6, <2>7 DEF Remaining
<1>6. ASSUME NEW n \in Names,
             OtherCreates(n) \/ OtherValidates(n) \/ OtherScans(n) \/ OtherDrops(n)
      PROVE  Remaining'
  BY <1>6, OtherEffect DEF Remaining
<1>7. CASE UNCHANGED vars
  BY <1>7 DEF vars, Remaining, Open, Invalid, Unused, Pairs, Covers
<1> QED BY <1>1, <1>2, <1>3, <1>4, <1>5, <1>6, <1>7 DEF Next

\* Who follows all of a report that was not cut is left with what was in vain, and with
\* what was built anew.
THEOREM NothingRemains == Spec => []AdviceSuffices
<1>1. Init => TypeOK /\ Remaining
  BY InitTyped DEF Init, Remaining
<1>2. TypeOK /\ Remaining => AdviceSuffices
  <2> SUFFICES ASSUME Remaining, pc = "following", todo = {}, quiet,
                      Cardinality(unused) <= AdviceLimit, Cardinality(pairs) <= AdviceLimit
               PROVE  /\ Reindex(Invalid(catalog)) \subseteq vain
                      /\ \A n \in Unused(catalog) :
                           \/ Drop("unused", {n}) \subseteq vain
                           \/ Reindex({n}) \subseteq followed \ vain
                      /\ pairing =>
                           Drop("pair", {pair[2] : pair \in Pairs(catalog)}) \subseteq vain
    BY DEF AdviceSuffices
  <2>1. /\ \A names : \A statement \in Reindex(names) :
             \E n \in names : statement = ToReindex(n)
        /\ \A why, names : \A statement \in Drop(why, names) :
             \E n \in names : statement = ToDrop(why, n)
    BY DEF Reindex, Drop, ToReindex, ToDrop
  <2>2. Reindex(Invalid(catalog)) \subseteq vain
    BY <2>1 DEF Remaining, Open
  <2>3. ASSUME NEW n \in Unused(catalog)
        PROVE  Drop("unused", {n}) \subseteq vain \/ Reindex({n}) \subseteq followed \ vain
    <3>1. ToDrop("unused", n) \in vain \/ ToReindex(n) \in followed \ vain
      BY DEF Remaining, Open
    <3> QED BY <2>1, <3>1
  <2>4. ASSUME pairing, NEW statement \in Drop("pair", {pair[2] : pair \in Pairs(catalog)})
        PROVE  statement \in vain
    <3>1. PICK pair \in Pairs(catalog) : statement = ToDrop("pair", pair[2])
      BY <2>1, <2>4
    <3> QED BY <2>4, <3>1 DEF Remaining, Open
  <2> QED BY <2>2, <2>3, <2>4
<1> QED BY <1>1, <1>2, NextTyped, NextRemaining, PTL DEF Spec

-----------------------------------------------------------------------------
Statement(why) == \E statement \in todo \cup followed : statement.why = why

\* What was counted is what there are statements for.
Scored ==
  /\ pc = "invalid" => todo = {}
  /\ pc = "unused" => \A statement \in todo : statement.why = "invalid"
  /\ pc = "pairs" => \A statement \in todo : statement.why \in {"invalid", "unused"}
  /\ pc \in {"invalid", "unused", "pairs"} => followed = {}
  /\ pc \in {"unused", "pairs", "following"} => (Statement("invalid") <=> invalid # {})
  /\ pc \in {"pairs", "following"} => (Statement("unused") <=> unused # {})
  /\ pc = "following" =>
       /\ Statement("pair") <=> pairs # {}
       /\ score = ScoreOf(Cardinality(invalid), Cardinality(unused), Cardinality(pairs))

\* There are statements for names there are.
LEMMA SomeStatement ==
  ASSUME NEW names, NEW why
  PROVE  /\ \A statement \in Reindex(names) : statement.why = "invalid"
         /\ \A statement \in Drop(why, names) : statement.why = why
         /\ Reindex(names) # {} <=> names # {}
         /\ Drop(why, names) # {} <=> names # {}
<1>1. \A n \in names : ToReindex(n) \in Reindex(names) /\ ToDrop(why, n) \in Drop(why, names)
  BY DEF Reindex, Drop, ToReindex, ToDrop
<1>2. /\ \A statement \in Reindex(names) :
           statement.why = "invalid" /\ statement.index \in names
      /\ \A statement \in Drop(why, names) : statement.why = why /\ statement.index \in names
  BY DEF Reindex, Drop
<1> QED BY <1>1, <1>2

\* What is cut has something left in it.
LEMMA SomeListed ==
  ASSUME NEW S, IsFiniteSet(S), NEW some \in kSubset(Least(AdviceLimit, Cardinality(S)), S)
  PROVE  some # {} <=> S # {}
<1>1. some \in SUBSET S /\ Cardinality(some) = Least(AdviceLimit, Cardinality(S))
  BY DEF kSubset
<1>2. Cardinality(S) \in Nat /\ AdviceLimit \in Nat \ {0}
  BY FS_CardinalityType, IndexAssumption
<1>3. S # {} => Cardinality(S) # 0
  BY FS_EmptySet
<1>4. S # {} => Cardinality(some) # 0
  BY <1>1, <1>2, <1>3 DEF Least
<1> QED BY <1>1, <1>4, FS_EmptySet

\* The points lost for each kind.
LEMMA PointsTell ==
  ASSUME NEW i \in Nat, NEW u \in Nat, NEW p \in Nat
  PROVE  /\ ScoreOf(i, u, p) = 100 <=> i = 0 /\ u = 0 /\ p = 0
         /\ ScoreOf(i, u, p) < 70 => \/ i # 0 /\ u # 0
                                     \/ i # 0 /\ p # 0
                                     \/ u # 0 /\ p # 0
BY DEF ScoreOf, Least

LEMMA ScoredTells == TypeOK /\ Scored => ScoreTells
<1> SUFFICES ASSUME TypeOK, Scored, pc = "following" PROVE ScoreTells
  BY DEF ScoreTells
<1> DEFINE whys == {statement.why : statement \in todo \cup followed}
           i == Cardinality(invalid)  u == Cardinality(unused)  p == Cardinality(pairs)
<1>1. /\ i \in Nat /\ u \in Nat /\ p \in Nat
      /\ IsFiniteSet(invalid) /\ IsFiniteSet(unused) /\ IsFiniteSet(pairs)
  BY Counted DEF TypeOK
<1>2. /\ i # 0 <=> invalid # {}
      /\ u # 0 <=> unused # {}
      /\ p # 0 <=> pairs # {}
  BY <1>1, FS_EmptySet
<1>3. whys \subseteq {"invalid", "unused", "pair"}
  BY DEF TypeOK, Statements, Reindex, Drop
<1>4. /\ "invalid" \in whys <=> i # 0
      /\ "unused" \in whys <=> u # 0
      /\ "pair" \in whys <=> p # 0
  BY <1>2 DEF Scored, Statement
<1>5. score = ScoreOf(i, u, p)
  BY DEF Scored
<1> HIDE DEF whys, i, u, p
<1>6. score = 100 <=> whys = {}
  BY <1>1, <1>3, <1>4, <1>5, PointsTell
<1>7. ASSUME score < 70 PROVE Cardinality(whys) > 1
  <2>1. PICK one \in whys, other \in whys : one # other
    BY <1>1, <1>4, <1>5, <1>7, PointsTell
  <2>2. IsFiniteSet(whys)
    <3>1. IsFiniteSet({"invalid", "unused", "pair"})
      <4>1. IsFiniteSet({"invalid"})
        BY FS_Singleton
      <4>2. IsFiniteSet({"invalid"} \cup {"unused"})
        BY <4>1, FS_AddElement
      <4>3. IsFiniteSet(({"invalid"} \cup {"unused"}) \cup {"pair"})
        BY <4>2, FS_AddElement
      <4>4. {"invalid", "unused", "pair"} = ({"invalid"} \cup {"unused"}) \cup {"pair"}
        OBVIOUS
      <4> QED BY <4>3, <4>4
    <3> QED BY <1>3, <3>1, FS_Subset
  <2>3. Cardinality(whys) \in Nat /\ Cardinality(whys) # 0 /\ Cardinality(whys) # 1
    BY <2>1, <2>2, FS_CardinalityType, FS_EmptySet, FS_Singleton
  <2> QED BY <2>3
<1> QED BY <1>6, <1>7 DEF ScoreTells, whys

LEMMA NextScored == TypeOK /\ Scored /\ [Next]_vars => Scored'
<1> SUFFICES ASSUME TypeOK, Scored, [Next]_vars PROVE Scored'
  OBVIOUS
<1> USE DEF Scored, Statement
<1>1. CASE QueryFails
  BY <1>1 DEF QueryFails
<1>2. CASE ReadInvalid
  <2>1. /\ pc = "invalid" /\ pc' = "unused" /\ todo = {} /\ followed' = {}
        /\ todo' = Reindex(invalid')
    BY <1>2 DEF ReadInvalid
  <2>2. /\ \A statement \in todo' : statement.why = "invalid"
        /\ todo' # {} <=> invalid' # {}
    BY <2>1, SomeStatement
  <2> QED BY <2>1, <2>2
<1>3. CASE ReadUnused
  <2>1. unused' = Unused(catalog) /\ UNCHANGED <<invalid, followed>> /\ pc = "unused" /\ pc' = "pairs"
    BY <1>3 DEF ReadUnused
  <2>2. PICK some \in kSubset(Least(AdviceLimit, Cardinality(unused')), unused') :
          todo' = todo \cup Drop("unused", some)
    BY <1>3 DEF ReadUnused
  <2>3. IsFiniteSet(unused')
    BY <2>1, QueriesTyped, Counted DEF TypeOK
  <2>4. some # {} <=> unused' # {}
    BY <2>2, <2>3, SomeListed
  <2>5. /\ \A statement \in Drop("unused", some) : statement.why = "unused"
        /\ Drop("unused", some) # {} <=> some # {}
    BY SomeStatement
  <2> QED BY <2>1, <2>2, <2>4, <2>5
<1>4. CASE ReadPairs
  <2>1. /\ UNCHANGED <<invalid, unused, followed>> /\ pc = "pairs" /\ pc' = "following"
        /\ score' = ScoreOf(Cardinality(invalid), Cardinality(unused), Cardinality(pairs'))
    BY <1>4 DEF ReadPairs
  <2>2. PICK some \in kSubset(Least(AdviceLimit, Cardinality(pairs')), pairs') :
          todo' = todo \cup Drop("pair", {pair[2] : pair \in some})
    BY <1>4 DEF ReadPairs
  <2>3. IsFiniteSet(pairs')
    BY <1>4, QueriesTyped, Counted DEF TypeOK, ReadPairs
  <2>4. some # {} <=> pairs' # {}
    BY <2>2, <2>3, SomeListed
  <2> DEFINE drops == Drop("pair", {pair[2] : pair \in some})
  <2>5. /\ \A statement \in drops : statement.why = "pair"
        /\ drops # {} <=> some # {}
    <3>1. {pair[2] : pair \in some} # {} <=> some # {}
      OBVIOUS
    <3> QED BY <3>1, SomeStatement
  <2>6. todo' = todo \cup drops
    BY <2>2
  <2> HIDE DEF drops
  <2> QED BY <2>1, <2>4, <2>5, <2>6
<1>5. ASSUME NEW statement \in Statements, Follow(statement) PROVE Scored'
  <2>1. /\ pc = "following" /\ UNCHANGED <<pc, invalid, unused, pairs, score>>
        /\ todo' \cup followed' = todo \cup followed
    BY <1>5 DEF Follow
  <2> QED BY <2>1
<1>6. ASSUME NEW n \in Names,
             OtherCreates(n) \/ OtherValidates(n) \/ OtherScans(n) \/ OtherDrops(n)
      PROVE  Scored'
  BY <1>6, OtherEffect DEF reportVars
<1>7. CASE UNCHANGED vars
  BY <1>7 DEF vars
<1> QED BY <1>1, <1>2, <1>3, <1>4, <1>5, <1>6, <1>7 DEF Next

\* The score is that of the statements there are.
THEOREM ScoreIsOfAdvice == Spec => []ScoreTells
<1>1. Init => TypeOK /\ Scored
  BY InitTyped DEF Init, Scored
<1> QED BY <1>1, NextTyped, NextScored, ScoredTells, PTL DEF Spec
=============================================================================
