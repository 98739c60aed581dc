------------------------------- MODULE BloatScan -------------------------------
(***************************************************************************)
(* One table-bloat or index-bloat command: the check for pgstattuple, the   *)
(* list of relations, a measurement of each, and the report.               *)
(*                                                                         *)
(* Each query is one step that may fail.  Relations are dropped between the *)
(* list and their measurement.                                             *)
(***************************************************************************)
EXTENDS BloatRules, FiniteSets, Functions

CONSTANTS
  Rels,           \* the tables, or indexes, there are
  TableReadings,  \* what pgstattuple may say of a table
  IndexReadings,  \* what pgstatindex and its like may say of an index
  MinBloats,      \* --min-bloat
  ListLimit       \* indexes a schema-wide scan lists at most: 50

ASSUME ScanAssumption ==
  /\ Rels # {} /\ IsFiniteSet(Rels) /\ MinBloats \subseteq 0..100
  /\ TableReadings \subseteq Table /\ TableReadings # {}
  /\ IndexReadings \subseteq Index /\ IndexReadings # {}
  /\ ListLimit \in Nat \ {0}

\* --table, or the tables of a schema; --index, the indexes of --table, or the
\* B-tree indexes of a schema.
Kinds == {"table", "schema", "index", "table indexes", "schema indexes"}

Scans == [kind : Kinds, min : MinBloats]

VARIABLES
  pc,        \* the next query
  scan,      \* what was asked for
  found,     \* the relations listed
  todo,      \* those still to be measured
  measured,  \* the readings made, each with its relation
  rows,      \* results, before they are sorted
  totals,    \* total_size and total_wasted, or total_bloated_size
  report     \* what the user sees

vars == <<pc, scan, found, todo, measured, rows, totals, report>>

-----------------------------------------------------------------------------
Single == scan.kind \in {"table", "index"}
OfTables == scan.kind \in {"table", "schema"}

Row == [rel : Rels, error : BOOLEAN, wasted : Nat, percent : 0..200,
        severity : Severities, marks : SUBSET {"dead", "free", "density"},
        advice : SUBSET Advices]

ErrorRow(rel) ==
  [rel |-> rel, error |-> TRUE, wasted |-> 0, percent |-> 0, severity |-> "none",
   marks |-> {}, advice |-> {}]

\* The rows of a schema have no advice of their own: they are counted for what is
\* said of the schema.
TableRow(rel, t) ==
  [rel |-> rel, error |-> FALSE, wasted |-> t.len * (t.dead + t.free),
   percent |-> Wasted(t), severity |-> TableSeverity(t),
   marks |-> IF Single THEN {} ELSE TableMarks(t),
   advice |-> IF Single THEN TableAdvice(t) ELSE {}]

\* Only a B-tree index has a bloat that is estimated.
IndexRow(rel, i) ==
  [rel |-> rel, error |-> FALSE,
   wasted |-> IF i.type = "btree" THEN i.size * EstimatedBloat(i) ELSE 0,
   percent |-> IF i.type = "btree" THEN EstimatedBloat(i) ELSE 0,
   severity |-> IF i.type = "btree" THEN IndexSeverity(i) ELSE "none",
   marks |-> IF scan.kind = "schema indexes" THEN IndexMarks(i) ELSE {},
   advice |-> IF scan.kind = "schema indexes" THEN {} ELSE IndexAdvice(i)]

Size(reading) == IF OfTables THEN reading.len ELSE reading.size

Plus(size, wasted) ==
  [size |-> totals.size + size, wasted |-> totals.wasted + wasted]

\* What a list is sorted by: bytes for tables, percent for the indexes of a schema;
\* the indexes of a table are not.
Key(row) ==
  CASE OfTables -> row.wasted
    [] scan.kind = "schema indexes" -> row.percent
    [] OTHER -> 0

\* Variant: without reverse=True.
RankingsAscending(shown) ==
  {order \in [1..Cardinality(shown) -> shown] :
     /\ \A row \in shown : \E n \in DOMAIN order : order[n] = row
     /\ \A m, n \in DOMAIN order : m < n => Key(order[m]) <= Key(order[n])}

\* The orders a sort may give the rows: listed by size, which rows do not tell,
\* those of one key come in any.
Rankings(shown) ==
  {order \in [1..Cardinality(shown) -> shown] :
     /\ \A row \in shown : \E n \in DOMAIN order : order[n] = row
     /\ \A m, n \in DOMAIN order : m < n => Key(order[m]) >= Key(order[n])}

End(outcome, order, analyzed) ==
  /\ pc' = "done"
  /\ report' = [outcome |-> outcome, rows |-> order, analyzed |-> analyzed]

Silent(outcome) ==
  End(outcome, << >>, 0) /\ UNCHANGED <<scan, found, todo, measured, rows, totals>>

-----------------------------------------------------------------------------
Init ==
  /\ pc = "checking" /\ scan \in Scans /\ found = {} /\ todo = {} /\ measured = {}
  /\ rows = {} /\ totals = [size |-> 0, wasted |-> 0]
  /\ report = [outcome |-> "none", rows |-> << >>, analyzed |-> 0]

\* These relations, if any, are measured next.
Measuring(rels) ==
  /\ pc' = "measuring" /\ found' = rels /\ todo' = rels
  /\ UNCHANGED <<scan, measured, rows, totals, report>>

\* _check_pgstattuple: it fails, the extension is not there, or it is.
Check ==
  /\ pc = "checking"
  /\ \/ Silent("raised") \/ Silent("error")
     \/ Single /\ \E rel \in Rels : Measuring({rel})
     \/ /\ ~ Single /\ pc' = "listing"
        /\ UNCHANGED <<scan, found, todo, measured, rows, totals, report>>

\* The relations of the schema or table that are large enough.
List ==
  /\ pc = "listing"
  /\ \/ Silent("raised") \/ Silent("message")
     \/ \E rels \in SUBSET Rels \ {{}} :
          /\ scan.kind = "schema indexes" => Cardinality(rels) <= ListLimit
          /\ Measuring(rels)

\* Variant: an exception does not end the turn of a relation.
MeasuredAgain(rel) ==
  /\ pc = "measuring" /\ rel \in todo /\ todo' = todo
  /\ UNCHANGED <<pc, scan, found, report>>

\* A relation has had its turn in the loop.
Measured(rel) ==
  /\ pc = "measuring" /\ rel \in todo /\ todo' = todo \ {rel}
  /\ UNCHANGED <<pc, scan, found, report>>

\* Variant: what is not shown is not counted.
MeasureTableShown(rel) ==
  /\ OfTables /\ Measured(rel)
  /\ \E t \in TableReadings :
       /\ measured' = measured \cup {[rel |-> rel, reading |-> t]}
       /\ rows' = rows \cup {TableRow(rel, t)}
       /\ totals' = IF Wasted(t) >= scan.min
                    THEN Plus(t.len, t.len * (t.dead + t.free)) ELSE totals

MeasureTable(rel) ==
  /\ OfTables /\ Measured(rel)
  /\ \E t \in TableReadings :
       /\ measured' = measured \cup {[rel |-> rel, reading |-> t]}
       /\ rows' = rows \cup {TableRow(rel, t)}
       /\ totals' = Plus(t.len, t.len * (t.dead + t.free))

\* An index of a table is left out if its bloat is estimated, and less than asked for.
MeasureIndex(rel) ==
  /\ scan.kind \in {"index", "table indexes"} /\ Measured(rel)
  /\ \E i \in IndexReadings :
       /\ measured' = measured \cup {[rel |-> rel, reading |-> i]}
       /\ rows' = IF Single \/ EstimatedBloat(i) >= scan.min \/ i.type # "btree"
                  THEN rows \cup {IndexRow(rel, i)} ELSE rows
  /\ UNCHANGED totals

MeasureSchemaIndex(rel) ==
  /\ scan.kind = "schema indexes" /\ Measured(rel)
  /\ \E i \in {j \in IndexReadings : j.type = "btree"} :
       /\ measured' = measured \cup {[rel |-> rel, reading |-> i]}
       /\ IF EstimatedBloat(i) >= scan.min
          THEN /\ rows' = rows \cup {IndexRow(rel, i)}
               /\ totals' = Plus(i.size, i.size * EstimatedBloat(i))
          ELSE rows' = rows /\ totals' = Plus(i.size, 0)

\* Variant: the exception is passed over, as for the indexes of a schema.
FailQuietly(rel) ==
  Measured(rel) /\ ~ Single /\ UNCHANGED <<rows, measured, totals>>

\* Variant: after an exception the scan is made anew.
FailStartsOver(rel) ==
  /\ pc = "measuring" /\ rel \in todo /\ ~ Single
  /\ pc' = "listing" /\ found' = {} /\ todo' = {} /\ measured' = {} /\ rows' = {}
  /\ totals' = [size |-> 0, wasted |-> 0] /\ UNCHANGED <<scan, report>>

\* A query about a relation raises, since it fails or the relation is gone.
Fail(rel) ==
  /\ Measured(rel) /\ ~ Single /\ UNCHANGED <<measured, totals>>
  /\ rows' = IF scan.kind = "schema indexes" THEN rows
             ELSE rows \cup {ErrorRow(rel)}

\* The first query about an index finds none: a result that has an error in it.
Vanish(rel) ==
  /\ scan.kind = "table indexes" /\ Measured(rel)
  /\ UNCHANGED <<rows, measured, totals>>

\* The same of the one relation asked for.  The queries about the TOAST table of
\* --include-toast raise after it has been measured.
FailSingle ==
  /\ pc = "measuring" /\ Single
  /\ \/ (todo # {} \/ OfTables) /\ Silent("raised")
     \/ todo # {} /\ ~ OfTables /\ Silent("error")

\* --min-bloat is asked of tables after the loop, of indexes in it.
Shown ==
  IF scan.kind = "schema" /\ scan.min > 0
  THEN {row \in rows : row.percent >= scan.min \/ row.error} ELSE rows

Finish ==
  /\ pc = "measuring" /\ todo = {}
  /\ \E order \in Rankings(Shown) :
       End("rows", order, IF OfTables THEN Cardinality(Shown) ELSE Cardinality(found))
  /\ UNCHANGED <<scan, found, todo, measured, rows, totals>>

Next ==
  \/ Check \/ List \/ FailSingle \/ Finish
  \/ \E rel \in Rels :
       MeasureTable(rel) \/ MeasureIndex(rel) \/ MeasureSchemaIndex(rel)
       \/ Fail(rel) \/ Vanish(rel)

Spec == Init /\ [][Next]_vars /\ WF_vars(Next)

-----------------------------------------------------------------------------
Reported == report.outcome = "rows"

Positions == DOMAIN report.rows

Listed(rel) == \E n \in Positions : report.rows[n].rel = rel

\* Measured, and less bloated than asked for.
Below(rel) ==
  \E m \in measured :
    /\ m.rel = rel
    /\ scan.min > IF OfTables THEN Wasted(m.reading) ELSE EstimatedBloat(m.reading)

Unmeasured(rel) == \A m \in measured : m.rel # rel

\* At least as bad in every number.  A density of 0 is taken for 90 and left out.
AsBad(worse, better) ==
  IF OfTables
  THEN /\ worse.len >= better.len /\ worse.dead >= better.dead
       /\ worse.free >= better.free /\ worse.live <= better.live
  ELSE worse.density \in 1..better.density /\ worse.free >= better.free

\* Types; and a relation has its turn once, and one row at most.
TypeOK ==
  /\ pc \in {"checking", "listing", "measuring", "done"} /\ scan \in Scans
  /\ found \subseteq Rels /\ todo \subseteq found
  /\ measured \subseteq [rel : found \ todo,
                         reading : IF OfTables THEN TableReadings ELSE IndexReadings]
  /\ rows \subseteq Row
  /\ \A row \in rows : row.rel \in found \ todo
  /\ \A one, other \in rows : one.rel = other.rel => one = other
  /\ totals \in [size : Nat, wasted : Nat]

\* No table that was listed is missing from the report of _analyze_schema_tables but
\* for its low bloat: one that could not be measured is there with its error.  An
\* index may also be missing because it could not be measured.
NothingLost ==
  Reported => \A rel \in found :
    \/ Listed(rel)
    \/ ~ Single /\ Below(rel)
    \/ scan.kind \in {"table indexes", "schema indexes"} /\ Unmeasured(rel)

\* The severities and --min-bloat are rules of their own, which agree: no table of
\* critical bloat is left out at 30 or less, no index of high or critical bloat at
\* 20, the default, or less.
CriticalIsListed ==
  Reported => \A m \in measured :
    (IF OfTables THEN TableSeverity(m.reading) = "critical" /\ scan.min <= 30
     ELSE IndexSeverity(m.reading) \in {"high", "critical"} /\ scan.min <= 20)
      => Listed(m.rel)

\* In the report of a schema what is worse in every number is not left out, milder
\* or later than what is better.
RankingSound ==
  Reported /\ scan.kind \in {"schema", "schema indexes"} =>
    \A worse, better \in measured :
      AsBad(worse.reading, better.reading) /\ Listed(better.rel) =>
        /\ Listed(worse.rel)
        /\ \A m, n \in Positions :
             report.rows[m].rel = worse.rel /\ report.rows[n].rel = better.rel =>
               /\ Rank[report.rows[m].severity] >= Rank[report.rows[n].severity]
               /\ m <= n \/ Key(report.rows[m]) = Key(report.rows[n])

\* The summary of _analyze_schema_tables is of every table measured, shown or not;
\* that of _analyze_schema_indexes has the bloat of those shown.
SummaryAddsUp ==
  Reported /\ scan.kind \in {"schema", "schema indexes"} =>
    /\ totals.size = SumFunction([m \in measured |-> Size(m.reading)])
    /\ totals.wasted =
         IF OfTables
         THEN SumFunction([m \in measured |-> m.reading.len * (m.reading.dead + m.reading.free)])
         ELSE SumFunction([row \in rows |-> row.wasted])

Urged(row) == {a \in row.advice : a.level \in {"critical", "warning"}}

\* _table_recommendations repeats the thresholds of _table_bloat_severity: they urge
\* what the statuses say (of density, where there are live tuples).  Where nothing is
\* urged, or counted in the recommendations of a schema, bloat is minimal or low.
\* Left out are an empty table, of moderate bloat and "minimal", and an index of a
\* density of 70 or more, of moderate bloat and "healthy" or not mentioned.
AdviceMatches ==
  \A m \in measured, row \in rows :
    row.rel = m.rel =>
      LET t == m.reading
          statuses == {Advice("dead", DeadStatus(t)), Advice("free", FreeStatus(t)),
                       Advice("density", IF t.live = 0 THEN "normal"
                                         ELSE DensityStatus(t))}
          silent == Urged(row) = {} /\ row.marks = {}
      IN  IF OfTables
          THEN /\ Single => Urged(row) = {a \in statuses : a.level # "normal"}
               /\ silent /\ t.len > 0 => row.severity = "minimal"
          ELSE silent => \/ row.severity \in {"low", "none"}
                         \/ row.severity = "moderate" /\ Density(m.reading) >= 70

\* Whatever fails, a scan comes to its end.
ScanEnds == <>(pc = "done")
=============================================================================
