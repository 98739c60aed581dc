------------------------------- MODULE IndexHealth -------------------------------
(***************************************************************************)
(* index-health, and what becomes of the indexes when its advice is         *)
(* followed.                                                               *)
(*                                                                         *)
(* The report reads the catalog with three queries.  Others scan, create    *)
(* and drop indexes between them, and while the user executes the           *)
(* statements of the report, in an order and number of their choice.       *)
(***************************************************************************)
EXTENDS Naturals, FiniteSets, FiniteSetsExt, SequencesExt

CONSTANTS
  Names,         \* of indexes: their numbers are their order
  Definitions,   \* what an index may be when it is created
  Catalogs,      \* the indexes there may be at first
  Sizes,         \* of an index that is built anew
  MinSize,       \* --min-size-mb
  AdviceLimit,   \* statements for unused indexes, and for pairs, at most: 5
  ChangeBound    \* bounds what others do

\* What the queries tell of an index, and whether a constraint rests on it.  `columns`
\* has the attributes of the table: an expression is not one, included columns are.
Index ==
  [asked : BOOLEAN, table : STRING, columns : Seq(STRING), size : Nat, valid : BOOLEAN,
   scanned : BOOLEAN, pkey : BOOLEAN, constraint : BOOLEAN]

IsCatalog(indexes) == DOMAIN indexes \subseteq Names /\ indexes \in [DOMAIN indexes -> Index]

ASSUME IndexAssumption ==
  /\ Names \subseteq Nat /\ IsFiniteSet(Names)
  /\ Definitions \subseteq Index
  /\ \A indexes \in Catalogs : IsCatalog(indexes)
  /\ Sizes \subseteq Nat
  /\ MinSize \in Nat /\ AdviceLimit \in Nat \ {0} /\ ChangeBound \in Nat

VARIABLES
  catalog,   \* the indexes
  pc,        \* the next query, "following" once there is a report
  pairing,   \* unless --no-duplicates
  invalid, unused, pairs,  \* what the queries found
  todo,      \* statements of the report the user has not executed
  score,
  changes,   \* what others have done, counted
  \* Whether others have done nothing since the report was begun, the indexes they dropped
  \* since the pairs were read, the indexes there were then, what the user executed, and
  \* what of it was in vain.
  quiet, lost, seen, followed, vain

vars == <<catalog, pc, pairing, invalid, unused, pairs, todo, score, changes, quiet, lost,
          seen, followed, vain>>

reportVars == <<pc, pairing, invalid, unused, pairs, todo, score, seen, followed, vain>>

-----------------------------------------------------------------------------
Invalid(indexes) == {n \in DOMAIN indexes : ~ indexes[n].valid}

Unused(indexes) ==
  {n \in DOMAIN indexes :
     /\ indexes[n].asked /\ indexes[n].size >= MinSize
     /\ ~ indexes[n].pkey /\ ~ indexes[n].scanned}

\* An index whose columns begin with those of another.
Covers(indexes, a, b) ==
  /\ indexes[a].table = indexes[b].table /\ indexes[a].asked /\ indexes[b].asked
  /\ indexes[b].columns # << >> /\ IsPrefix(indexes[b].columns, indexes[a].columns)

\* Variant: the names are compared for being different.
PairsBothWays(indexes) ==
  {pair \in (DOMAIN indexes) \X (DOMAIN indexes) :
     pair[1] # pair[2] /\ Covers(indexes, pair[1], pair[2])}

\* "duplicate" or "overlapping": the second of a pair is the one to drop.
Pairs(indexes) ==
  {pair \in (DOMAIN indexes) \X (DOMAIN indexes) :
     pair[1] < pair[2] /\ Covers(indexes, pair[1], pair[2])}

\* Statements of a report, and what they are for.
Reindex(names) == [op : {"reindex"}, why : {"invalid"}, index : names]
Drop(why, names) == [op : {"drop"}, why : {why}, index : names]
Statements == Reindex(Names) \cup Drop("unused", Names) \cup Drop("pair", Names)

Least(m, n) == IF m <= n THEN m ELSE n

\* Variant: pairs do not count.
ScoreOfSingles(i, u, p) == 100 - Least(30, i * 10) - Least(20, u * 2)

\* Variant: += for -=.
ScoreOfAdded(i, u, p) == 100 - Least(30, i * 10) - Least(20, u * 2) + Least(20, p * 5)

ScoreOf(i, u, p) == 100 - Least(30, i * 10) - Least(20, u * 2) - Least(20, p * 5)

-----------------------------------------------------------------------------
Init ==
  /\ catalog \in Catalogs /\ pc = "invalid" /\ pairing \in BOOLEAN
  /\ invalid = {} /\ unused = {} /\ pairs = {} /\ todo = {} /\ score = 100
  /\ changes = 0 /\ quiet = TRUE /\ lost = {} /\ seen = << >> /\ followed = {} /\ vain = {}

\* A query raises, and the command ends.
QueryFails ==
  /\ pc \in {"invalid", "unused", "pairs"} /\ pc' = "raised" /\ todo' = {}
  /\ UNCHANGED <<catalog, pairing, invalid, unused, pairs, score, changes, quiet, lost,
                 seen, followed, vain>>

\* Variant: the schema asked for is meant here, too.
ReadInvalidAsked ==
  /\ pc = "invalid" /\ pc' = "unused"
  /\ invalid' = {n \in Invalid(catalog) : catalog[n].asked} /\ todo' = Reindex(invalid')
  /\ UNCHANGED <<catalog, pairing, unused, pairs, score, changes, quiet, lost, seen,
                 followed, vain>>

\* The invalid indexes of every schema.
ReadInvalid ==
  /\ pc = "invalid" /\ pc' = "unused"
  /\ invalid' = Invalid(catalog) /\ todo' = Reindex(invalid')
  /\ UNCHANGED <<catalog, pairing, unused, pairs, score, changes, quiet, lost, seen,
                 followed, vain>>

\* The largest of the unused indexes are advised on.
ReadUnused ==
  /\ pc = "unused" /\ pc' = "pairs"
  /\ unused' = Unused(catalog)
  /\ \E some \in kSubset(Least(AdviceLimit, Cardinality(unused')), unused') :
       /\ \A n \in some, m \in unused' \ some : catalog[n].size >= catalog[m].size
       /\ todo' = todo \cup Drop("unused", some)
  /\ UNCHANGED <<catalog, pairing, invalid, pairs, score, changes, quiet, lost, seen,
                 followed, vain>>

\* Of the pairs, which come in no order, some are; and there is a report.
ReadPairs ==
  /\ pc = "pairs" /\ pc' = "following" /\ seen' = catalog
  /\ pairs' = IF pairing THEN Pairs(catalog) ELSE {}
  /\ \E some \in kSubset(Least(AdviceLimit, Cardinality(pairs')), pairs') :
       todo' = todo \cup Drop("pair", {pair[2] : pair \in some})
  /\ score' = ScoreOf(Cardinality(invalid), Cardinality(unused), Cardinality(pairs'))
  /\ UNCHANGED <<catalog, pairing, invalid, unused, changes, quiet, lost, followed,
                 vain>>

-----------------------------------------------------------------------------
Without(n) == [m \in DOMAIN catalog \ {n} |-> catalog[m]]

\* An index is built, or built anew.
Built(n, size) == [catalog EXCEPT ![n] = [@ EXCEPT !.valid = TRUE, !.size = size]]

\* PostgreSQL refuses the statement, as it always may: values are twice in what is to be a
\* unique index, the index is gone or is attached to another, a constraint rests on it,
\* there is no lock or no leave for it.  A REINDEX that leaves the index of a partitioned
\* table invalid is in vain, too.
Refused(statement) == vain' = vain \cup {statement} /\ UNCHANGED catalog

\* REINDEX INDEX
Reindexed(statement) ==
  /\ statement.op = "reindex" /\ statement.index \in DOMAIN catalog
  /\ \E size \in Sizes : catalog' = Built(statement.index, size)
  /\ UNCHANGED vain

\* DROP INDEX
Removed(statement) ==
  /\ statement.op = "drop" /\ statement.index \in DOMAIN catalog
  /\ ~ catalog[statement.index].constraint
  /\ catalog' = Without(statement.index)
  /\ UNCHANGED vain

\* The user executes a statement of the report, once.
Follow(statement) ==
  /\ pc = "following" /\ statement \in todo
  /\ todo' = todo \ {statement} /\ followed' = followed \cup {statement}
  /\ Refused(statement) \/ Reindexed(statement) \/ Removed(statement)
  /\ UNCHANGED <<pc, pairing, invalid, unused, pairs, score, changes, quiet, lost, seen>>

\* Something someone else does.
Other ==
  /\ changes < ChangeBound /\ changes' = changes + 1 /\ quiet' = FALSE
  /\ UNCHANGED reportVars

\* CREATE INDEX; CONCURRENTLY if the index is not valid from the start.
OtherCreates(n) ==
  /\ Other /\ n \notin DOMAIN catalog /\ UNCHANGED lost
  /\ \E definition \in Definitions :
       catalog' = [m \in DOMAIN catalog \cup {n} |->
                     IF m = n THEN definition ELSE catalog[m]]

\* CREATE INDEX CONCURRENTLY, or a REINDEX, comes to its end.
OtherValidates(n) ==
  /\ Other /\ n \in Invalid(catalog) /\ UNCHANGED lost
  /\ \E size \in Sizes : catalog' = Built(n, size)

OtherScans(n) ==
  /\ Other /\ n \in DOMAIN catalog /\ catalog[n].valid /\ ~ catalog[n].scanned
  /\ catalog' = [catalog EXCEPT ![n].scanned = TRUE]
  /\ UNCHANGED lost

OtherDrops(n) ==
  /\ Other /\ n \in DOMAIN catalog /\ catalog' = Without(n)
  /\ lost' = IF pc = "following" THEN lost \cup {n} ELSE lost

Next ==
  \/ QueryFails \/ ReadInvalid \/ ReadUnused \/ ReadPairs
  \/ \E statement \in Statements : Follow(statement)
  \/ \E n \in Names :
       OtherCreates(n) \/ OtherValidates(n) \/ OtherScans(n) \/ OtherDrops(n)

Spec == Init /\ [][Next]_vars

-----------------------------------------------------------------------------
TypeOK ==
  /\ IsCatalog(catalog) /\ IsCatalog(seen)
  /\ pc \in {"invalid", "unused", "pairs", "following", "raised"}
  /\ pairing \in BOOLEAN /\ quiet \in BOOLEAN
  /\ invalid \subseteq Names /\ unused \subseteq Names /\ pairs \subseteq Names \X Names
  /\ todo \subseteq Statements /\ followed \subseteq Statements /\ vain \subseteq followed
  /\ lost \subseteq Names /\ score \in 30..100 /\ changes \in 0..ChangeBound

\* Whichever statements are executed, in whichever order: an index of the report is
\* covered by one that is still there, or an index that covered it was dropped for being
\* unused, or by someone else.  Dropping one of each pair leaves the other to be covered.
CoverKept ==
  pc = "following" =>
    \A n \in DOMAIN seen : seen[n].asked /\ seen[n].columns # << >> =>
      \E m \in DOMAIN seen :
        /\ Covers(seen, m, n)
        /\ \/ m \in DOMAIN catalog
           \/ m \in lost
           \/ \E statement \in followed :
                statement.index = m /\ statement.op = "drop" /\ statement.why = "unused"

\* Who executes every statement of a report that left none out, with no one else at work,
\* has to ask again only for what a statement failed to do, and for an index that was so
\* small that it was not listed until it was built anew: any index that is still invalid,
\* unused or the second of a pair had a statement of its own, in vain.
AdviceSuffices ==
  /\ pc = "following" /\ todo = {} /\ quiet
  /\ Cardinality(unused) <= AdviceLimit /\ Cardinality(pairs) <= AdviceLimit
  => /\ Reindex(Invalid(catalog)) \subseteq vain
     /\ \A n \in Unused(catalog) :
          Drop("unused", {n}) \subseteq vain \/ Reindex({n}) \subseteq followed \ vain
     /\ pairing => Drop("pair", {pair[2] : pair \in Pairs(catalog)}) \subseteq vain

\* The score is 100 just where there is nothing to do, and below 70 only where there is
\* more than one kind of thing to do.
ScoreTells ==
  pc = "following" =>
    LET whys == {statement.why : statement \in todo \cup followed}
    IN  /\ score = 100 <=> whys = {}
        /\ score < 70 => Cardinality(whys) > 1
=============================================================================
