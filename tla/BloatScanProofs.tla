---------------------------- MODULE BloatScanProofs ----------------------------
(***************************************************************************)
(* What holds of a bloat report for any relations and any numbers of them.  *)
(*                                                                         *)
(* The rules are compared number by number first.  A report is then as good *)
(* as its rows: each is that of one measurement, or of a failure, and no    *)
(* measurement that ought to have a row is without it (Explained).          *)
(***************************************************************************)
EXTENDS BloatScan, CommonTheorems

\* The row of a measurement, and whether it gets one.
RowOf(m) == IF OfTables THEN TableRow(m.rel, m.reading) ELSE IndexRow(m.rel, m.reading)

Kept(m) ==
  \/ scan.kind \in {"table", "schema", "index"}
  \/ EstimatedBloat(m.reading) >= scan.min
  \/ scan.kind = "table indexes" /\ m.reading.type # "btree"

Explained ==
  /\ \A m \in measured : Kept(m) => RowOf(m) \in rows
  /\ \A row \in rows :
       \/ row = ErrorRow(row.rel) /\ Unmeasured(row.rel)
       \/ \E m \in measured : Kept(m) /\ row = RowOf(m)
  /\ \A m, n \in measured : m.rel = n.rel => m = n
  /\ scan.kind = "schema indexes" => \A m \in measured : m.reading.type = "btree"

\* Whose turn has come has been measured, or it failed.
Answered ==
  \A rel \in found \ todo :
    \/ ~ Unmeasured(rel)
    \/ ErrorRow(rel) \in rows
    \/ scan.kind \in {"table indexes", "schema indexes"}

Stage ==
  /\ pc \in {"checking", "listing"} =>
       found = {} /\ measured = {} /\ rows = {} /\ totals = [size |-> 0, wasted |-> 0]
  /\ pc # "done" => ~ Reported
  /\ Reported => todo = {} /\ report.rows \in Rankings(Shown)

Inductive == TypeOK /\ Explained /\ Answered /\ Stage

-----------------------------------------------------------------------------
LEMMA TableTyped ==
  ASSUME NEW t \in Table
  PROVE  t.len \in Nat /\ t.dead + t.free \in Nat
<1>1. t \in [len : Nat, dead : 0..100, free : 0..100, live : 0..100]
  BY DEF Table
<1> QED BY <1>1

LEMMA ProductIsNat == ASSUME NEW a \in Nat, NEW b \in Nat PROVE a * b \in Nat
OBVIOUS

LEMMA ProductGrows ==
  ASSUME NEW a \in Nat, NEW b \in Nat, NEW c \in Nat, NEW d \in Nat, a >= c, b >= d
  PROVE  a * b >= c * d
<1>1. a * b >= c * b
  BY SMT
<1>2. c * b >= c * d
  BY SMT
<1>3. a * b \in Int /\ c * b \in Int /\ c * d \in Int
  BY SMT
<1> QED BY <1>1, <1>2, <1>3

LEMMA SumGrows ==
  ASSUME NEW a \in Nat, NEW b \in Nat, NEW c \in Nat, NEW d \in Nat, a >= c, b >= d
  PROVE  a + b \in Nat /\ c + d \in Nat /\ a + b >= c + d
OBVIOUS

LEMMA Reaches ==
  ASSUME NEW a \in Nat, NEW b \in Nat, NEW c \in Nat, a >= b, b >= c PROVE a >= c
OBVIOUS

LEMMA Compare == ASSUME NEW a \in Nat, NEW b \in Nat PROVE a <= b \/ b < a
OBVIOUS

LEMMA Tie == ASSUME NEW a \in Nat, NEW b \in Nat, a >= b, b >= a PROVE a = b
OBVIOUS

\* The more of a table is dead or free, and the less is live, the more severe.
LEMMA TableSeverityMonotone ==
  ASSUME NEW worse \in Table, NEW better \in Table,
         worse.dead >= better.dead, worse.free >= better.free, worse.live <= better.live
  PROVE  Rank[TableSeverity(worse)] >= Rank[TableSeverity(better)]
<1> USE DEF Table, Status, Points
<1>1. /\ TableScore(worse) \in 0..9 /\ TableScore(better) \in 0..9
      /\ TableScore(worse) >= TableScore(better)
  <2>1. /\ Points[DeadStatus(worse)] \in 0..3 /\ Points[DeadStatus(better)] \in 0..3
        /\ Points[DeadStatus(worse)] >= Points[DeadStatus(better)]
    BY DEF DeadStatus
  <2>2. /\ Points[FreeStatus(worse)] \in 0..3 /\ Points[FreeStatus(better)] \in 0..3
        /\ Points[FreeStatus(worse)] >= Points[FreeStatus(better)]
    BY DEF FreeStatus
  <2>3. /\ Points[DensityStatus(worse)] \in 0..3 /\ Points[DensityStatus(better)] \in 0..3
        /\ Points[DensityStatus(worse)] >= Points[DensityStatus(better)]
    BY DEF DensityStatus
  <2> QED BY <2>1, <2>2, <2>3 DEF TableScore
<1> QED BY <1>1 DEF TableSeverity, Rank

\* The emptier the leaf pages, and the more pages are free, the more severe.
LEMMA IndexSeverityMonotone ==
  ASSUME NEW worse \in Index, NEW better \in Index,
         worse.density \in 1..better.density, worse.free >= better.free
  PROVE  /\ Rank[IndexSeverity(worse)] >= Rank[IndexSeverity(better)]
         /\ EstimatedBloat(worse) >= EstimatedBloat(better)
<1>1. /\ Density(worse) \in 1..NaN /\ Density(better) \in 1..NaN
      /\ Density(worse) <= Density(better)
  BY DEF Density, Index, NaN
<1>2. /\ IndexScore(worse) \in 0..5 /\ IndexScore(better) \in 0..5
      /\ IndexScore(worse) >= IndexScore(better)
  BY <1>1 DEF IndexScore, Index, NaN
<1>3. /\ EstimatedBloat(worse) \in 0..90 /\ EstimatedBloat(better) \in 0..90
      /\ EstimatedBloat(worse) >= EstimatedBloat(better)
  BY <1>1 DEF EstimatedBloat, NaN
<1> QED BY <1>2, <1>3 DEF IndexSeverity, Rank

\* A table of critical bloat has wasted more than 30 percent.
LEMMA CriticalTableIsWasteful ==
  ASSUME NEW t \in Table, TableSeverity(t) = "critical" PROVE Wasted(t) > 30
BY DEF Table, TableSeverity, TableScore, DeadStatus, FreeStatus, DensityStatus, Status,
       Points, Wasted

\* An index of high bloat is estimated to be bloated by 20 percent at least.
LEMMA HighIndexIsBloated ==
  ASSUME NEW i \in Index, IndexSeverity(i) \in {"high", "critical"}
  PROVE  EstimatedBloat(i) >= 20
BY DEF Index, NaN, IndexSeverity, IndexScore, EstimatedBloat, Density

-----------------------------------------------------------------------------
Urges(advice) == {a \in advice : a.level \in {"critical", "warning"}}

\* _table_recommendations urges what the statuses say, and where it urges nothing,
\* they are normal.
LEMMA TableAdviceAgrees ==
  ASSUME NEW t \in Table
  PROVE  LET statuses == {Advice("dead", DeadStatus(t)), Advice("free", FreeStatus(t)),
                          Advice("density", IF t.live = 0 THEN "normal"
                                            ELSE DensityStatus(t))}
         IN  /\ Urges(TableAdvice(t)) = {a \in statuses : a.level # "normal"}
             /\ Urges(TableAdvice(t)) = {} /\ t.len > 0 => TableSeverity(t) = "minimal"
<1> DEFINE density == IF t.live = 0 THEN "normal" ELSE DensityStatus(t)
           said == {Advice("dead", DeadStatus(t)), Advice("free", FreeStatus(t)),
                    Advice("density", density)}
           urged == {a \in said : a.level # "normal"}
<1>1. t.dead \in 0..100 /\ t.free \in 0..100 /\ t.live \in 0..100 /\ t.len \in Nat
  BY DEF Table
<1>2. /\ DeadStatus(t) = Status(t.dead > 30, t.dead > 10)
      /\ FreeStatus(t) = Status(t.free > 30, t.free > 20)
      /\ density = Status(0 < t.live /\ t.live < 50, 0 < t.live /\ t.live < 70)
  BY <1>1 DEF DeadStatus, FreeStatus, DensityStatus, Status
<1>3. TableAdvice(t) = IF urged # {} THEN urged
                       ELSE IF t.dead < 10 /\ t.free <= 20 /\ t.live >= 70
                       THEN {Advice("table", "healthy")} ELSE {Advice("table", "minimal")}
  BY <1>2 DEF TableAdvice
<1>4. \A a \in said : a.level \in {"critical", "warning", "normal"}
  <2>1. /\ DeadStatus(t) \in {"critical", "warning", "normal"}
        /\ FreeStatus(t) \in {"critical", "warning", "normal"}
        /\ density \in {"critical", "warning", "normal"}
    BY DEF DeadStatus, FreeStatus, DensityStatus, Status
  <2> HIDE DEF density
  <2> QED BY <2>1 DEF Advice
<1>5. Urges(TableAdvice(t)) = urged
  <2> HIDE DEF said
  <2>1. CASE urged # {}
    BY <1>3, <1>4, <2>1 DEF Urges
  <2>2. CASE urged = {}
    BY <1>3, <2>2 DEF Urges, Advice
  <2> QED BY <2>1, <2>2
<1>6. ASSUME urged = {}, t.len > 0 PROVE TableSeverity(t) = "minimal"
  <2>1. DeadStatus(t) = "normal" /\ FreeStatus(t) = "normal" /\ density = "normal"
    <3>1. \A a \in said : a.level = "normal"
      BY <1>6
    <3>2. /\ Advice("dead", DeadStatus(t)).level = "normal"
          /\ Advice("free", FreeStatus(t)).level = "normal"
          /\ Advice("density", density).level = "normal"
      BY <3>1
    <3> HIDE DEF density
    <3> QED BY <3>2 DEF Advice
  <2>2. t.dead <= 10 /\ t.free <= 20
    BY <1>1, <2>1 DEF DeadStatus, FreeStatus, Status
  <2>3. t.live > 0
    BY <1>1, <1>6, <2>2 DEF Table
  <2>4. TableScore(t) = 0
    BY <1>1, <2>1, <2>3 DEF TableScore, Points
  <2> QED BY <2>4 DEF TableSeverity
<1> QED BY <1>5, <1>6

\* The same of the counts in the recommendations of a schema.
LEMMA TableMarksAgree ==
  ASSUME NEW t \in Table, TableMarks(t) = {}, t.len > 0
  PROVE  TableSeverity(t) = "minimal"
<1>1. t.dead \in 0..100 /\ t.free \in 0..100 /\ t.live \in 0..100
  BY DEF Table
<1>2. t.dead <= 10 /\ t.free <= 20 /\ ~ (0 < t.live /\ t.live < 70)
  BY <1>1 DEF TableMarks
<1>3. t.live > 0
  BY <1>1, <1>2 DEF Table
<1>4. TableScore(t) = 0
  BY <1>1, <1>2, <1>3 DEF TableScore, DeadStatus, FreeStatus, DensityStatus, Status, Points
<1> QED BY <1>4 DEF TableSeverity

\* An index that goes unmentioned in the recommendations of a schema, whose pages
\* are dense enough.
LEMMA IndexMarksAgree ==
  ASSUME NEW i \in Index, IndexMarks(i) = {}
  PROVE  \/ IndexSeverity(i) = "low"
         \/ IndexSeverity(i) = "moderate" /\ Density(i) >= 70
<1>1. Density(i) \in 1..NaN /\ i.free \in Nat
  BY DEF Index, Density, NaN
<1>2. Density(i) >= 70
  BY <1>1 DEF IndexMarks, NaN
<1> QED BY <1>1, <1>2 DEF IndexSeverity, IndexScore, EstimatedBloat, NaN

\* The same of an index its own recommendations urge nothing for.
LEMMA IndexAdviceAgrees ==
  ASSUME NEW i \in Index, i.type = "btree", Urges(IndexAdvice(i)) = {}
  PROVE  \/ IndexSeverity(i) = "low"
         \/ IndexSeverity(i) = "moderate" /\ Density(i) >= 70
<1> DEFINE density == Status(Density(i) < 50, Density(i) < 70)
           free == Status(i.free > 30, i.free > 20)
           said == {Advice("density", density), Advice("free", free),
                    Advice("pages", IF i.worn THEN "warning" ELSE "normal")}
           urged == {a \in said : a.level # "normal"}
<1>1. Density(i) \in 1..NaN /\ i.free \in Nat
  BY DEF Index, Density, NaN
<1>2. IndexAdvice(i) = IF urged # {} THEN urged
                       ELSE {Advice("index", "healthy") : n \in {Density(i)} \cap 70..100}
  BY DEF IndexAdvice, BtreeAdvice
<1>3. density \in {"critical", "warning", "normal"}
  BY DEF Status
<1>4. density = "normal"
  <2>1. SUFFICES ASSUME density # "normal" PROVE FALSE
    OBVIOUS
  <2>2. Advice("density", density) \in urged
    <3> HIDE DEF density
    <3> QED BY <2>1 DEF Advice
  <2> HIDE DEF said
  <2>3. Advice("density", density) \in IndexAdvice(i)
    BY <1>2, <2>2
  <2> HIDE DEF urged, density
  <2>4. Advice("density", density) \in Urges(IndexAdvice(i))
    BY <1>3, <2>1, <2>3 DEF Urges, Advice
  <2> QED BY <2>4
<1>5. Density(i) >= 70
  BY <1>1, <1>4 DEF Status
<1> QED BY <1>1, <1>5 DEF IndexSeverity, IndexScore, EstimatedBloat, NaN

-----------------------------------------------------------------------------
LEMMA TableAdviceTyped == ASSUME NEW t PROVE TableAdvice(t) \in SUBSET Advices
<1>1. /\ Advice("table", "healthy") \in Advices
      /\ Advice("table", "minimal") \in Advices
      /\ Advice("dead", Status(t.dead > 30, t.dead > 10)) \in Advices
      /\ Advice("free", Status(t.free > 30, t.free > 20)) \in Advices
      /\ Advice("density", Status(0 < t.live /\ t.live < 50, 0 < t.live /\ t.live < 70))
           \in Advices
  BY DEF Advice, Advices, Status
<1> QED BY <1>1 DEF TableAdvice

LEMMA IndexAdviceTyped == ASSUME NEW i PROVE IndexAdvice(i) \in SUBSET Advices
<1>1. /\ Advice("index", "healthy") \in Advices
      /\ Advice("dead items", "warning") \in Advices
      /\ Advice("pages", IF i.worn THEN "warning" ELSE "normal") \in Advices
      /\ Advice("density", Status(Density(i) < 50, Density(i) < 70)) \in Advices
      /\ Advice("free", Status(i.free > 30, i.free > 20)) \in Advices
      /\ Advice("pending", Status(i.backlog > 1000, i.backlog > 100)) \in Advices
  BY DEF Advice, Advices, Status
<1>2. BtreeAdvice(i) \in SUBSET Advices
  <2> DEFINE density == Advice("density", Status(Density(i) < 50, Density(i) < 70))
             free == Advice("free", Status(i.free > 30, i.free > 20))
             pages == Advice("pages", IF i.worn THEN "warning" ELSE "normal")
             healthy == Advice("index", "healthy")
  <2>1. BtreeAdvice(i) \in SUBSET {density, free, pages, healthy}
    BY DEF BtreeAdvice
  <2>2. density \in Advices /\ free \in Advices /\ pages \in Advices /\ healthy \in Advices
    BY <1>1
  <2> HIDE DEF density, free, pages, healthy
  <2> QED BY <2>1, <2>2
<1>3. CASE i.type = "btree"
  BY <1>2, <1>3 DEF IndexAdvice
<1>4. CASE i.type = "gin"
  <2> DEFINE pending == Advice("pending", Status(i.backlog > 1000, i.backlog > 100))
  <2>1. IndexAdvice(i) = {a \in {pending} : a.level # "normal"}
    BY <1>4 DEF IndexAdvice
  <2>2. pending \in Advices
    BY <1>1
  <2> HIDE DEF pending
  <2> QED BY <2>1, <2>2
<1>5. CASE i.type = "hash"
  <2>1. IndexAdvice(i) \subseteq {Advice("dead items", "warning")}
    BY <1>5 DEF IndexAdvice
  <2> QED BY <1>1, <2>1
<1>6. CASE i.type \notin {"btree", "gin", "hash"}
  BY <1>6 DEF IndexAdvice
<1> QED BY <1>3, <1>4, <1>5, <1>6

LEMMA TableRowTyped ==
  ASSUME NEW rel \in Rels, NEW t \in Table PROVE TableRow(rel, t) \in Row
<1>1. t.len * (t.dead + t.free) \in Nat
  BY ProductIsNat DEF Table
<1>2. Wasted(t) \in 0..200
  BY DEF Table, Wasted
<1>3. TableSeverity(t) \in Severities
  BY DEF TableSeverity, Severities
<1>4. TableMarks(t) \in SUBSET {"dead", "free", "density"}
  BY DEF TableMarks
<1>5. TableAdvice(t) \in SUBSET Advices
  BY TableAdviceTyped
<1> QED BY <1>1, <1>2, <1>3, <1>4, <1>5 DEF TableRow, Row

LEMMA IndexRowTyped ==
  ASSUME NEW rel \in Rels, NEW i \in Index PROVE IndexRow(rel, i) \in Row
<1>1. EstimatedBloat(i) \in 0..200 /\ i.size \in Nat
  BY DEF EstimatedBloat, Density, Index, NaN
<1>2. i.size * EstimatedBloat(i) \in Nat
  BY <1>1, ProductIsNat
<1>3. IndexSeverity(i) \in Severities /\ "none" \in Severities
  BY DEF IndexSeverity, Severities
<1>4. IndexMarks(i) \in SUBSET {"dead", "free", "density"}
  BY DEF IndexMarks
<1>5. IndexAdvice(i) \in SUBSET Advices
  BY IndexAdviceTyped
<1> DEFINE wasted == IF i.type = "btree" THEN i.size * EstimatedBloat(i) ELSE 0
           percent == IF i.type = "btree" THEN EstimatedBloat(i) ELSE 0
           severity == IF i.type = "btree" THEN IndexSeverity(i) ELSE "none"
           marks == IF scan.kind = "schema indexes" THEN IndexMarks(i) ELSE {}
           advice == IF scan.kind = "schema indexes" THEN {} ELSE IndexAdvice(i)
<1>6. /\ wasted \in Nat /\ percent \in 0..200 /\ severity \in Severities
      /\ marks \in SUBSET {"dead", "free", "density"}
      /\ advice \in SUBSET Advices
  <2>1. wasted \in Nat /\ percent \in 0..200
    BY <1>1, <1>2
  <2>2. severity \in Severities
    BY <1>3
  <2>3. marks \in SUBSET {"dead", "free", "density"} /\ advice \in SUBSET Advices
    BY <1>4, <1>5
  <2> QED BY <2>1, <2>2, <2>3
<1>7. IndexRow(rel, i) = [rel |-> rel, error |-> FALSE, wasted |-> wasted,
        percent |-> percent, severity |-> severity, marks |-> marks, advice |-> advice]
  BY DEF IndexRow
<1> HIDE DEF wasted, percent, severity, marks, advice
<1> QED BY <1>6, <1>7 DEF Row

LEMMA ErrorRowTyped == ASSUME NEW rel \in Rels PROVE ErrorRow(rel) \in Row
BY DEF ErrorRow, Row, Severities

LEMMA RowOfTyped ==
  ASSUME NEW rel \in Rels, NEW reading \in IF OfTables THEN TableReadings ELSE IndexReadings
  PROVE  LET m == [rel |-> rel, reading |-> reading]
         IN  RowOf(m) \in Row /\ RowOf(m).rel = rel /\ ~ RowOf(m).error
<1>1. CASE OfTables
  BY <1>1, TableRowTyped, ScanAssumption DEF RowOf, TableRow
<1>2. CASE ~ OfTables
  BY <1>2, IndexRowTyped, ScanAssumption DEF RowOf, IndexRow
<1> QED BY <1>1, <1>2

-----------------------------------------------------------------------------
LEMMA InitInductive == Init => Inductive
<1> SUFFICES ASSUME Init PROVE Inductive
  OBVIOUS
<1> USE DEF Init
<1>1. TypeOK
  BY DEF TypeOK
<1>2. Explained /\ Answered /\ Stage
  BY DEF Explained, Answered, Stage, Reported
<1> QED BY <1>1, <1>2 DEF Inductive

\* What was asked for stays, and with it what a row is made of.
LEMMA ScanStays ==
  ASSUME UNCHANGED scan
  PROVE  /\ Single' = Single /\ OfTables' = OfTables
         /\ \A m : RowOf(m)' = RowOf(m)
         /\ \A m : Kept(m)' <=> Kept(m)
BY DEF Single, OfTables, RowOf, Kept, TableRow, IndexRow

\* A step that measures nothing.
LEMMA NothingMeasured ==
  ASSUME Inductive, UNCHANGED <<scan, found, todo, measured, rows, totals>>,
         pc' \in {"checking", "listing", "measuring", "done"}
  PROVE  TypeOK' /\ Explained' /\ Answered'
<1>1. TypeOK'
  BY DEF Inductive, TypeOK, OfTables
<1>2. Explained'
  <2>1. \A m : (RowOf(m)' = RowOf(m)) /\ (Kept(m)' <=> Kept(m))
    BY ScanStays
  <2>2. \A rel : Unmeasured(rel)' <=> Unmeasured(rel)
    BY DEF Unmeasured
  <2> QED BY <2>1, <2>2 DEF Inductive, Explained
<1>3. Answered'
  BY DEF Inductive, Answered, Unmeasured
<1> QED BY <1>1, <1>2, <1>3

\* A command that ends without rows.
LEMMA SilentInductive ==
  ASSUME Inductive, NEW outcome \in {"raised", "error", "message"}, Silent(outcome)
  PROVE  Inductive'
<1>1. TypeOK' /\ Explained' /\ Answered'
  BY NothingMeasured DEF Silent, End
<1>2. Stage'
  BY DEF Inductive, Silent, End, Stage, Reported
<1> QED BY <1>1, <1>2 DEF Inductive

LEMMA MeasuringInductive ==
  ASSUME Inductive, pc \in {"checking", "listing"}, NEW rels \in SUBSET Rels, Measuring(rels)
  PROVE  Inductive'
<1> USE DEF Inductive, Measuring
<1>1. measured = {} /\ rows = {} /\ ~ Reported
  BY DEF Stage
<1>2. TypeOK'
  BY <1>1 DEF TypeOK
<1>3. Explained' /\ Answered' /\ Stage'
  BY <1>1 DEF Explained, Answered, Stage, Reported
<1> QED BY <1>2, <1>3

LEMMA CheckInductive == Inductive /\ Check => Inductive'
<1> SUFFICES ASSUME Inductive, Check PROVE Inductive'
  OBVIOUS
<1>1. CASE \E outcome \in {"raised", "error"} : Silent(outcome)
  BY <1>1, SilentInductive
<1>2. CASE \E rel \in Rels : Measuring({rel})
  <2> PICK rel \in Rels : Measuring({rel})
    BY <1>2
  <2> QED BY MeasuringInductive DEF Check
<1>3. CASE pc' = "listing" /\ UNCHANGED <<scan, found, todo, measured, rows, totals, report>>
  <2>1. TypeOK' /\ Explained' /\ Answered'
    BY <1>3, NothingMeasured
  <2>2. Stage'
    BY <1>3 DEF Inductive, Check, Stage, Reported, Shown, Rankings, Key, OfTables
  <2> QED BY <2>1, <2>2 DEF Inductive
<1> QED BY <1>1, <1>2, <1>3 DEF Check

LEMMA ListInductive == Inductive /\ List => Inductive'
<1> SUFFICES ASSUME Inductive, List PROVE Inductive'
  OBVIOUS
<1>1. CASE \E outcome \in {"raised", "message"} : Silent(outcome)
  BY <1>1, SilentInductive
<1>2. CASE \E rels \in SUBSET Rels : Measuring(rels)
  BY <1>2, MeasuringInductive DEF List
<1> QED BY <1>1, <1>2 DEF List

\* The relation whose turn it is has neither a measurement nor a row yet.
LEMMA TurnIsNew ==
  ASSUME TypeOK, NEW rel, Measured(rel)
  PROVE  /\ \A m \in measured : m.rel # rel
         /\ \A row \in rows : row.rel # rel
         /\ measured \subseteq [rel : found' \ todo',
              reading : IF OfTables' THEN TableReadings ELSE IndexReadings]
<1>1. /\ \A m \in measured : m.rel # rel
      /\ \A row \in rows : row.rel # rel
  BY DEF TypeOK, Measured
<1>2. UNCHANGED <<scan, found>> /\ todo' = todo \ {rel}
  BY DEF Measured
<1>3. OfTables' = OfTables
  BY <1>2, ScanStays
<1> DEFINE readings == IF OfTables THEN TableReadings ELSE IndexReadings
<1>4. measured \subseteq [rel : found \ todo, reading : readings]
  BY DEF TypeOK
<1> HIDE DEF readings
<1>5. ASSUME NEW m \in measured
      PROVE  m \in [rel : found \ (todo \ {rel}), reading : readings]
  BY <1>4
<1>6. measured \subseteq [rel : found' \ todo', reading : readings]
  BY <1>2, <1>5
<1> QED BY <1>1, <1>3, <1>6 DEF readings

\* A relation is measured: it gets the row its measurement makes, or none.
LEMMA ReadingInductive ==
  ASSUME Inductive, NEW rel \in Rels, Measured(rel),
         NEW reading \in IF OfTables THEN TableReadings ELSE IndexReadings,
         scan.kind = "schema indexes" => reading.type = "btree",
         measured' = measured \cup {[rel |-> rel, reading |-> reading]},
         rows' = IF Kept([rel |-> rel, reading |-> reading])
                 THEN rows \cup {RowOf([rel |-> rel, reading |-> reading])} ELSE rows,
         totals' \in [size : Nat, wasted : Nat]
  PROVE  Inductive'
<1> DEFINE new == [rel |-> rel, reading |-> reading]
<1>1. RowOf(new) \in Row /\ RowOf(new).rel = rel
  BY RowOfTyped
<1>2. new.rel = rel /\ new.reading = reading
  OBVIOUS
<1>3. measured' = measured \cup {new}
  OBVIOUS
<1>4. rows' = IF Kept(new) THEN rows \cup {RowOf(new)} ELSE rows
  OBVIOUS
<1>5. /\ \A m \in measured : m.rel # rel
      /\ \A row \in rows : row.rel # rel
  BY TurnIsNew DEF Inductive
<1>6. new \in [rel : found' \ todo',
               reading : IF OfTables THEN TableReadings ELSE IndexReadings]
  BY DEF Inductive, TypeOK, Measured
<1> HIDE DEF new
<1>7. TypeOK'
  <2>1. UNCHANGED <<pc, scan, found>> /\ todo' = todo \ {rel} /\ rel \in found
    BY DEF Inductive, TypeOK, Measured
  <2>2. measured' \subseteq [rel : found' \ todo',
          reading : IF OfTables' THEN TableReadings ELSE IndexReadings]
    <3>1. OfTables' = OfTables
      BY <2>1, ScanStays
    <3> QED BY <1>3, <1>6, <3>1, TurnIsNew DEF Inductive
  <2>3. rows' \subseteq Row /\ \A row \in rows' : row.rel \in found' \ todo'
    BY <1>1, <1>4, <2>1 DEF Inductive, TypeOK
  <2>4. \A one, other \in rows' : one.rel = other.rel => one = other
    BY <1>1, <1>4, <1>5 DEF Inductive, TypeOK
  <2> QED BY <2>1, <2>2, <2>3, <2>4 DEF Inductive, TypeOK
<1>8. Explained'
  <2>1. scan' = scan
    BY DEF Measured
  <2>2. \A m \in measured' : Kept(m) => RowOf(m) \in rows'
    BY <1>3, <1>4 DEF Inductive, Explained
  <2>3. \A row \in rows' :
          \/ row = ErrorRow(row.rel) /\ Unmeasured(row.rel)'
          \/ \E m \in measured' : Kept(m) /\ row = RowOf(m)
    <3> TAKE row \in rows'
    <3>1. CASE row \in rows
      BY <1>2, <1>3, <1>5, <3>1 DEF Inductive, Explained, Unmeasured
    <3>2. CASE Kept(new) /\ row = RowOf(new)
      BY <1>3, <3>2
    <3> QED BY <1>4, <3>1, <3>2
  <2>4. \A m, n \in measured' : m.rel = n.rel => m = n
    BY <1>2, <1>3, <1>5 DEF Inductive, Explained
  <2>5. scan.kind = "schema indexes" => \A m \in measured' : m.reading.type = "btree"
    BY <1>2, <1>3 DEF Inductive, Explained
  <2>6. \A m : RowOf(m)' = RowOf(m) /\ (Kept(m)' <=> Kept(m))
    BY <2>1, ScanStays
  <2>7. \A m \in measured' : Kept(m)' => RowOf(m)' \in rows'
    BY <2>2, <2>6
  <2>8. \A row \in rows' :
          \/ row = ErrorRow(row.rel) /\ Unmeasured(row.rel)'
          \/ \E m \in measured' : Kept(m)' /\ row = RowOf(m)'
    BY <2>3, <2>6
  <2> HIDE DEF Kept
  <2> QED BY <2>1, <2>4, <2>5, <2>7, <2>8 DEF Explained
<1>9. Answered'
  BY <1>2, <1>3, <1>4 DEF Inductive, Answered, Measured, Unmeasured
<1>10. Stage'
  BY DEF Inductive, Stage, Measured, Reported
<1> QED BY <1>7, <1>8, <1>9, <1>10 DEF Inductive

\* A relation is not measured: it gets a row with the error, or none.
LEMMA FailureInductive ==
  ASSUME Inductive, NEW rel \in Rels, Measured(rel), UNCHANGED <<measured, totals>>,
         \/ rows' = rows \cup {ErrorRow(rel)}
         \/ rows' = rows /\ scan.kind \in {"table indexes", "schema indexes"}
  PROVE  Inductive'
<1>1. ErrorRow(rel) \in Row /\ ErrorRow(rel).rel = rel
  BY ErrorRowTyped DEF ErrorRow
<1>2. /\ \A m \in measured : m.rel # rel
      /\ \A row \in rows : row.rel # rel
  BY TurnIsNew DEF Inductive
<1>3. UNCHANGED <<pc, scan, found, report>> /\ todo' = todo \ {rel} /\ rel \in found
  BY DEF Inductive, TypeOK, Measured
<1>4. TypeOK'
  <2>1. rows' \subseteq Row /\ \A row \in rows' : row.rel \in found' \ todo'
    BY <1>1, <1>3 DEF Inductive, TypeOK
  <2>2. \A one, other \in rows' : one.rel = other.rel => one = other
    BY <1>1, <1>2 DEF Inductive, TypeOK
  <2>3. measured' \subseteq [rel : found' \ todo',
          reading : IF OfTables' THEN TableReadings ELSE IndexReadings]
    BY <1>3, TurnIsNew DEF Inductive
  <2> QED BY <1>3, <2>1, <2>2, <2>3 DEF Inductive, TypeOK
<1>5. Explained'
  <2>1. \A row \in rows' :
          \/ row = ErrorRow(row.rel) /\ Unmeasured(row.rel)
          \/ \E m \in measured : Kept(m) /\ row = RowOf(m)
    BY <1>1, <1>2 DEF Inductive, Explained, Unmeasured
  <2>2. \A m \in measured : Kept(m) => RowOf(m) \in rows'
    BY DEF Inductive, Explained
  <2>3. \A rel_1 : Unmeasured(rel_1)' = Unmeasured(rel_1)
    BY DEF Unmeasured
  <2> QED BY <1>3, <2>1, <2>2, <2>3, ScanStays DEF Inductive, Explained
<1>6. Answered'
  BY <1>3 DEF Inductive, Answered, Unmeasured
<1>7. Stage'
  BY DEF Inductive, Stage, Measured, Reported
<1> QED BY <1>4, <1>5, <1>6, <1>7 DEF Inductive

LEMMA TotalsGrow ==
  ASSUME TypeOK, NEW size \in Nat, NEW wasted \in Nat
  PROVE  Plus(size, wasted) \in [size : Nat, wasted : Nat]
BY DEF TypeOK, Plus

LEMMA MeasureTableInductive ==
  ASSUME Inductive, NEW rel \in Rels, MeasureTable(rel) PROVE Inductive'
<1> PICK t \in TableReadings :
       /\ measured' = measured \cup {[rel |-> rel, reading |-> t]}
       /\ rows' = rows \cup {TableRow(rel, t)}
       /\ totals' = Plus(t.len, t.len * (t.dead + t.free))
  BY DEF MeasureTable
<1>1. OfTables /\ Measured(rel) /\ scan.kind \in {"table", "schema"}
  BY DEF MeasureTable, OfTables
<1>2. t.len \in Nat /\ t.len * (t.dead + t.free) \in Nat
  BY ScanAssumption, ProductIsNat DEF Table
<1>3. totals' \in [size : Nat, wasted : Nat]
  BY <1>2, TotalsGrow DEF Inductive
<1>4. Kept([rel |-> rel, reading |-> t])
  BY <1>1 DEF Kept
<1>5. RowOf([rel |-> rel, reading |-> t]) = TableRow(rel, t)
  BY <1>1 DEF RowOf
<1> QED BY <1>1, <1>3, <1>4, <1>5, ReadingInductive

LEMMA MeasureIndexInductive ==
  ASSUME Inductive, NEW rel \in Rels, MeasureIndex(rel) PROVE Inductive'
<1> PICK i \in IndexReadings :
       /\ measured' = measured \cup {[rel |-> rel, reading |-> i]}
       /\ rows' = IF Single \/ EstimatedBloat(i) >= scan.min \/ i.type # "btree"
                  THEN rows \cup {IndexRow(rel, i)} ELSE rows
  BY DEF MeasureIndex
<1>1. ~ OfTables /\ Measured(rel) /\ scan.kind \in {"index", "table indexes"}
  BY DEF MeasureIndex, OfTables
<1>2. totals' \in [size : Nat, wasted : Nat]
  BY DEF MeasureIndex, Inductive, TypeOK
<1>3. Kept([rel |-> rel, reading |-> i])
        <=> (Single \/ EstimatedBloat(i) >= scan.min \/ i.type # "btree")
  BY <1>1 DEF Kept, Single
<1>4. RowOf([rel |-> rel, reading |-> i]) = IndexRow(rel, i)
  BY <1>1 DEF RowOf
<1> QED BY <1>1, <1>2, <1>3, <1>4, ReadingInductive

LEMMA MeasureSchemaIndexInductive ==
  ASSUME Inductive, NEW rel \in Rels, MeasureSchemaIndex(rel) PROVE Inductive'
<1> PICK i \in {j \in IndexReadings : j.type = "btree"} :
       /\ measured' = measured \cup {[rel |-> rel, reading |-> i]}
       /\ IF EstimatedBloat(i) >= scan.min
          THEN /\ rows' = rows \cup {IndexRow(rel, i)}
               /\ totals' = Plus(i.size, i.size * EstimatedBloat(i))
          ELSE rows' = rows /\ totals' = Plus(i.size, 0)
  BY DEF MeasureSchemaIndex
<1>1. ~ OfTables /\ Measured(rel) /\ scan.kind = "schema indexes" /\ i.type = "btree"
  BY DEF MeasureSchemaIndex, OfTables
<1>2. i.size \in Nat /\ EstimatedBloat(i) \in Nat /\ 0 \in Nat
  BY ScanAssumption DEF Index, EstimatedBloat, Density, NaN
<1>3. i.size * EstimatedBloat(i) \in Nat
  BY <1>2, ProductIsNat
<1>4. totals' \in [size : Nat, wasted : Nat]
  BY <1>2, <1>3, TotalsGrow DEF Inductive
<1>5. Kept([rel |-> rel, reading |-> i]) <=> EstimatedBloat(i) >= scan.min
  BY <1>1 DEF Kept
<1>6. RowOf([rel |-> rel, reading |-> i]) = IndexRow(rel, i)
  BY <1>1 DEF RowOf
<1> QED BY <1>1, <1>4, <1>5, <1>6, ReadingInductive

\* The report is made of the rows there are.
LEMMA FinishInductive == Inductive /\ Finish => Inductive'
<1> SUFFICES ASSUME Inductive, Finish PROVE Inductive'
  OBVIOUS
<1> PICK order \in Rankings(Shown) :
       End("rows", order, IF OfTables THEN Cardinality(Shown) ELSE Cardinality(found))
  BY DEF Finish
<1>1. UNCHANGED <<scan, found, todo, measured, rows, totals>> /\ todo = {}
  BY DEF Finish
<1>2. TypeOK' /\ Explained' /\ Answered'
  BY <1>1, NothingMeasured DEF End
<1>3. Rankings(Shown)' = Rankings(Shown)
  <2>1. Shown' = Shown /\ OfTables' = OfTables
    BY <1>1 DEF Shown, OfTables
  <2>2. \A row : Key(row)' = Key(row)
    BY <1>1, <2>1 DEF Key
  <2> QED BY <2>1, <2>2 DEF Rankings
<1>4. Stage'
  BY <1>1, <1>3 DEF End, Stage, Reported
<1> QED BY <1>2, <1>4 DEF Inductive

LEMMA NextInductive == Inductive /\ [Next]_vars => Inductive'
<1> SUFFICES ASSUME Inductive, [Next]_vars PROVE Inductive'
  OBVIOUS
<1>1. CASE FailSingle
  BY <1>1, SilentInductive DEF FailSingle
<1>2. ASSUME NEW rel \in Rels, Fail(rel) PROVE Inductive'
  BY <1>2, FailureInductive DEF Fail
<1>3. ASSUME NEW rel \in Rels, Vanish(rel) PROVE Inductive'
  BY <1>3, FailureInductive DEF Vanish
<1>4. ASSUME NEW rel \in Rels, MeasureTable(rel) \/ MeasureIndex(rel) \/ MeasureSchemaIndex(rel)
      PROVE  Inductive'
  BY <1>4, MeasureTableInductive, MeasureIndexInductive, MeasureSchemaIndexInductive
<1>5. CASE UNCHANGED vars
  <2>1. pc \in {"checking", "listing", "measuring", "done"}
    BY DEF Inductive, TypeOK
  <2>2. TypeOK' /\ Explained' /\ Answered'
    BY <1>5, <2>1, NothingMeasured DEF vars
  <2>3. Stage'
    BY <1>5 DEF vars, Inductive, Stage, Reported, Shown, Rankings, Key, OfTables
  <2> QED BY <2>2, <2>3 DEF Inductive
<1> QED BY <1>1, <1>2, <1>3, <1>4, <1>5, CheckInductive, ListInductive, FinishInductive
        DEF Next

LEMMA AlwaysInductive == Spec => []Inductive
BY InitInductive, NextInductive, PTL DEF Spec

\* Types; a relation has its turn once, and one row (the loops over tables and indexes).
THEOREM TypeCorrect == Spec => []TypeOK
BY AlwaysInductive, PTL DEF Inductive

-----------------------------------------------------------------------------
\* A measurement is of a relation listed, and its row, if any, is the one it makes.
LEMMA ReadingTyped ==
  ASSUME Inductive, NEW m \in measured
  PROVE  /\ m.rel \in Rels
         /\ OfTables => m.reading \in Table
         /\ ~ OfTables => m.reading \in Index
         /\ \A row \in rows : row.rel = m.rel => row = RowOf(m) /\ Kept(m)
         /\ RowOf(m).rel = m.rel /\ ~ RowOf(m).error
<1>1. m.rel \in Rels /\ m.reading \in IF OfTables THEN TableReadings ELSE IndexReadings
  BY DEF Inductive, TypeOK
<1>2. RowOf(m).rel = m.rel /\ ~ RowOf(m).error
  BY DEF RowOf, TableRow, IndexRow
<1>3. ASSUME NEW row \in rows, row.rel = m.rel PROVE row = RowOf(m) /\ Kept(m)
  <2>1. ~ Unmeasured(row.rel)
    BY <1>3 DEF Unmeasured
  <2>2. PICK n \in measured : Kept(n) /\ row = RowOf(n)
    BY <2>1 DEF Inductive, Explained
  <2>3. n.rel = m.rel
    BY <1>3, <2>2 DEF RowOf, TableRow, IndexRow
  <2>4. n = m
    BY <2>3 DEF Inductive, Explained
  <2> QED BY <2>2, <2>4
<1> QED BY <1>1, <1>2, <1>3, ScanAssumption

\* The rows of a report are those that are shown, in their order.
LEMMA RowsPlaced ==
  ASSUME Inductive, Reported
  PROVE  /\ \A row \in Shown : \E n \in Positions : report.rows[n] = row
         /\ \A n \in Positions : report.rows[n] \in Shown
         /\ Positions \subseteq Nat
         /\ \A m, n \in Positions : m < n => Key(report.rows[m]) >= Key(report.rows[n])
<1>1. report.rows \in Rankings(Shown)
  BY DEF Inductive, Stage
<1>2. report.rows \in [1..Cardinality(Shown) -> Shown]
  BY <1>1 DEF Rankings
<1>3. Positions = 1..Cardinality(Shown)
  BY <1>2 DEF Positions
<1>4. \A n \in Positions : report.rows[n] \in Shown
  BY <1>2, <1>3
<1>5. Positions \subseteq Nat
  BY <1>3
<1> QED BY <1>1, <1>4, <1>5 DEF Rankings, Positions

LEMMA ShownIsListed ==
  ASSUME Inductive, Reported, NEW row \in Shown PROVE Listed(row.rel)
BY RowsPlaced DEF Listed

\* What is shown of the relations measured.
LEMMA MeasuredIsShown ==
  ASSUME Inductive, Reported, NEW m \in measured, Kept(m),
         scan.kind = "schema" /\ scan.min > 0 => Wasted(m.reading) >= scan.min
  PROVE  RowOf(m) \in Shown /\ Listed(m.rel)
<1>1. RowOf(m) \in rows
  BY DEF Inductive, Explained
<1>2. scan.kind = "schema" => RowOf(m).percent = Wasted(m.reading)
  BY DEF RowOf, TableRow, OfTables
<1>3. RowOf(m) \in Shown
  BY <1>1, <1>2 DEF Shown
<1> QED BY <1>3, ShownIsListed, ReadingTyped

LEMMA Minimum ==
  ASSUME Inductive PROVE scan.min \in 0..100 /\ scan.min \in Nat /\ scan.kind \in Kinds
<1>1. scan.min \in MinBloats /\ scan.kind \in Kinds
  BY DEF Inductive, TypeOK, Scans
<1>2. \A n \in 0..100 : n \in Nat
  OBVIOUS
<1> QED BY <1>1, <1>2, ScanAssumption

LEMMA WastedIsNat == ASSUME NEW t \in Table PROVE Wasted(t) \in Nat
BY DEF Table, Wasted

LEMMA BloatIsNat == ASSUME NEW i \in Index PROVE EstimatedBloat(i) \in Nat
BY DEF Index, EstimatedBloat, Density, NaN

-----------------------------------------------------------------------------
LEMMA AllAccounted == Inductive => NothingLost
<1> SUFFICES ASSUME Inductive, Reported, NEW rel \in found
             PROVE  \/ Listed(rel)
                    \/ ~ Single /\ Below(rel)
                    \/ scan.kind \in {"table indexes", "schema indexes"} /\ Unmeasured(rel)
  BY DEF NothingLost
<1>1. \/ ~ Unmeasured(rel)
      \/ ErrorRow(rel) \in rows
      \/ scan.kind \in {"table indexes", "schema indexes"} /\ Unmeasured(rel)
  BY DEF Inductive, Answered, Stage
<1>2. CASE ErrorRow(rel) \in rows
  <2>1. ErrorRow(rel) \in Shown /\ ErrorRow(rel).rel = rel
    BY <1>2 DEF Shown, ErrorRow
  <2> QED BY <2>1, ShownIsListed
<1>3. CASE ~ Unmeasured(rel)
  <2> PICK m \in measured : m.rel = rel
    BY <1>3 DEF Unmeasured
  <2>1. CASE Kept(m) /\ (scan.kind = "schema" /\ scan.min > 0 => Wasted(m.reading) >= scan.min)
    BY <2>1, MeasuredIsShown
  <2>2. CASE ~ Kept(m)
    <3>1. scan.kind \in {"table indexes", "schema indexes"} /\ ~ OfTables /\ ~ Single
      BY <2>2, Minimum DEF Kept, Kinds, OfTables, Single
    <3>2. EstimatedBloat(m.reading) \in Nat /\ ~ (EstimatedBloat(m.reading) >= scan.min)
      BY <2>2, <3>1, ReadingTyped, BloatIsNat DEF Kept
    <3>3. scan.min > EstimatedBloat(m.reading)
      BY <3>2, Minimum
    <3> QED BY <3>1, <3>3 DEF Below
  <2>3. CASE scan.kind = "schema" /\ ~ (Wasted(m.reading) >= scan.min)
    <3>1. OfTables /\ ~ Single
      BY <2>3 DEF OfTables, Single
    <3>2. Wasted(m.reading) \in Nat
      BY <3>1, ReadingTyped, WastedIsNat
    <3> QED BY <2>3, <3>1, <3>2, Minimum DEF Below
  <2> QED BY <2>1, <2>2, <2>3
<1> QED BY <1>1, <1>2, <1>3

LEMMA CriticalAccounted == Inductive => CriticalIsListed
<1> SUFFICES ASSUME Inductive, Reported, NEW m \in measured,
                    IF OfTables THEN TableSeverity(m.reading) = "critical" /\ scan.min <= 30
                    ELSE IndexSeverity(m.reading) \in {"high", "critical"} /\ scan.min <= 20
             PROVE  Listed(m.rel)
  BY DEF CriticalIsListed
<1>1. CASE OfTables
  <2>1. Wasted(m.reading) > 30 /\ Wasted(m.reading) \in Nat
    BY <1>1, ReadingTyped, CriticalTableIsWasteful, WastedIsNat
  <2>2. Kept(m)
    BY <1>1 DEF Kept, OfTables
  <2> QED BY <1>1, <2>1, <2>2, MeasuredIsShown, Minimum
<1>2. CASE ~ OfTables
  <2>1. EstimatedBloat(m.reading) >= 20 /\ EstimatedBloat(m.reading) \in Nat
    BY <1>2, ReadingTyped, HighIndexIsBloated, BloatIsNat
  <2>2. Kept(m)
    <3>1. scan.min <= 20 /\ scan.min \in 0..100
      BY <1>2, Minimum
    <3>2. EstimatedBloat(m.reading) >= scan.min
      BY <2>1, <3>1
    <3> QED BY <3>2 DEF Kept
  <2> QED BY <1>2, <2>2, MeasuredIsShown DEF OfTables
<1> QED BY <1>1, <1>2

LEMMA AdviceAccounted == Inductive => AdviceMatches
<1> SUFFICES ASSUME Inductive, NEW m \in measured, NEW row \in rows, row.rel = m.rel
             PROVE
      LET t == m.reading
          statuses == {Advice("dead", DeadStatus(t)), Advice("free", FreeStatus(t)),
                       Advice("density", IF t.live = 0 THEN "normal"
                                         ELSE DensityStatus(t))}
          silent == Urged(row) = {} /\ row.marks = {}
      IN  IF OfTables
          THEN /\ Single => Urged(row) = {a \in statuses : a.level # "normal"}
               /\ silent /\ t.len > 0 => row.severity = "minimal"
          ELSE silent => \/ row.severity \in {"low", "none"}
                         \/ row.severity = "moderate" /\ Density(m.reading) >= 70
  BY DEF AdviceMatches
<1>1. row = RowOf(m)
  BY ReadingTyped
<1>2. CASE OfTables
  <2>1. m.reading \in Table /\ row = TableRow(m.rel, m.reading)
    BY <1>1, <1>2, ReadingTyped DEF RowOf
  <2>2. /\ Single => Urged(row) = Urges(TableAdvice(m.reading)) /\ row.marks = {}
        /\ ~ Single => row.marks = TableMarks(m.reading)
        /\ row.severity = TableSeverity(m.reading)
    BY <2>1 DEF TableRow, Urged, Urges
  <2> QED BY <1>2, <2>1, <2>2, TableAdviceAgrees, TableMarksAgree
<1>3. CASE ~ OfTables
  <2>1. m.reading \in Index /\ row = IndexRow(m.rel, m.reading)
    BY <1>1, <1>3, ReadingTyped DEF RowOf
  <2>2. /\ scan.kind = "schema indexes" => row.marks = IndexMarks(m.reading)
        /\ scan.kind # "schema indexes" => Urged(row) = Urges(IndexAdvice(m.reading))
        /\ row.severity = IF m.reading.type = "btree" THEN IndexSeverity(m.reading)
                          ELSE "none"
    BY <2>1 DEF IndexRow, Urged, Urges
  <2> QED BY <1>3, <2>1, <2>2, IndexAdviceAgrees, IndexMarksAgree
<1> QED BY <1>2, <1>3

-----------------------------------------------------------------------------
\* The bytes and the percent that are wasted grow with what they are made of.
LEMMA WastedMonotone ==
  ASSUME NEW w \in Table, NEW b \in Table, w.len >= b.len, w.dead >= b.dead, w.free >= b.free
  PROVE  /\ w.len * (w.dead + w.free) \in Nat /\ b.len * (b.dead + b.free) \in Nat
         /\ w.len * (w.dead + w.free) >= b.len * (b.dead + b.free)
         /\ Wasted(w) >= Wasted(b)
<1>1. /\ w.len \in Nat /\ w.dead \in Nat /\ w.free \in Nat
      /\ b.len \in Nat /\ b.dead \in Nat /\ b.free \in Nat
  BY DEF Table
<1>2. /\ w.dead + w.free \in Nat /\ b.dead + b.free \in Nat
      /\ w.dead + w.free >= b.dead + b.free
  BY <1>1, SumGrows
<1>3. Wasted(w) >= Wasted(b)
  BY <1>1, <1>2 DEF Wasted
<1> QED BY <1>1, <1>2, <1>3, ProductIsNat, ProductGrows

\* What is worse in every number has a greater key, and no milder severity.
LEMMA WorseRanksHigher ==
  ASSUME Inductive, NEW worse \in measured, NEW better \in measured,
         AsBad(worse.reading, better.reading),
         scan.kind \in {"schema", "schema indexes"}
  PROVE  /\ Key(RowOf(worse)) \in Nat /\ Key(RowOf(better)) \in Nat
         /\ Key(RowOf(worse)) >= Key(RowOf(better))
         /\ Rank[RowOf(worse).severity] >= Rank[RowOf(better).severity]
         /\ scan.kind = "schema" => Wasted(worse.reading) >= Wasted(better.reading)
         /\ Kept(better) => Kept(worse)
<1> DEFINE w == worse.reading  b == better.reading
<1>1. CASE scan.kind = "schema"
  <2>1. OfTables /\ Kept(worse) /\ w \in Table /\ b \in Table
    BY <1>1, ReadingTyped DEF OfTables, Kept
  <2>2. w.len >= b.len /\ w.dead >= b.dead /\ w.free >= b.free /\ w.live <= b.live
    BY <2>1 DEF AsBad
  <2>3. /\ w.len * (w.dead + w.free) \in Nat /\ b.len * (b.dead + b.free) \in Nat
        /\ w.len * (w.dead + w.free) >= b.len * (b.dead + b.free)
        /\ Wasted(w) >= Wasted(b)
    BY <2>1, <2>2, WastedMonotone
  <2>7. Rank[TableSeverity(w)] >= Rank[TableSeverity(b)]
    BY <2>1, <2>2, TableSeverityMonotone
  <2>4. RowOf(worse) = TableRow(worse.rel, w) /\ RowOf(better) = TableRow(better.rel, b)
    BY <2>1 DEF RowOf
  <2>5. \A row : Key(row) = row.wasted
    BY <1>1, <2>1 DEF Key
  <2>8. /\ Key(RowOf(worse)) = w.len * (w.dead + w.free)
        /\ Key(RowOf(better)) = b.len * (b.dead + b.free)
        /\ RowOf(worse).severity = TableSeverity(w)
        /\ RowOf(better).severity = TableSeverity(b)
    <3>1. /\ TableRow(worse.rel, w).wasted = w.len * (w.dead + w.free)
          /\ TableRow(better.rel, b).wasted = b.len * (b.dead + b.free)
          /\ TableRow(worse.rel, w).severity = TableSeverity(w)
          /\ TableRow(better.rel, b).severity = TableSeverity(b)
      BY DEF TableRow
    <3> QED BY <2>4, <2>5, <3>1
  <2> QED BY <2>1, <2>3, <2>7, <2>8
<1>2. CASE scan.kind = "schema indexes"
  <2>1. /\ ~ OfTables /\ w \in Index /\ b \in Index
        /\ w.type = "btree" /\ b.type = "btree"
    BY <1>2, ReadingTyped DEF OfTables, Inductive, Explained
  <2>2. w.density \in 1..b.density /\ w.free >= b.free
    BY <2>1 DEF AsBad
  <2>3. /\ Rank[IndexSeverity(w)] >= Rank[IndexSeverity(b)]
        /\ EstimatedBloat(w) >= EstimatedBloat(b)
    BY <2>1, <2>2, IndexSeverityMonotone
  <2>4. EstimatedBloat(w) \in Nat /\ EstimatedBloat(b) \in Nat
    BY <2>1, BloatIsNat
  <2>5. /\ Key(RowOf(worse)) = EstimatedBloat(w) /\ Key(RowOf(better)) = EstimatedBloat(b)
        /\ RowOf(worse).severity = IndexSeverity(w)
        /\ RowOf(better).severity = IndexSeverity(b)
    BY <1>2, <2>1 DEF Key, RowOf, IndexRow
  <2>6. Kept(better) => Kept(worse)
    <3>1. Kept(better) => EstimatedBloat(b) >= scan.min
      BY <1>2 DEF Kept
    <3>2. EstimatedBloat(w) >= scan.min => Kept(worse)
      BY DEF Kept
    <3>3. EstimatedBloat(b) >= scan.min => EstimatedBloat(w) >= scan.min
      <4>1. scan.min \in Nat
        BY Minimum
      <4> QED BY <2>3, <2>4, <4>1, Reaches
    <3> QED BY <3>1, <3>2, <3>3
  <2> QED BY <1>2, <2>3, <2>4, <2>5, <2>6
<1> QED BY <1>1, <1>2

LEMMA RankingAccounted == Inductive => RankingSound
<1> SUFFICES ASSUME Inductive, Reported, scan.kind \in {"schema", "schema indexes"},
                    NEW worse \in measured, NEW better \in measured,
                    AsBad(worse.reading, better.reading), Listed(better.rel)
             PROVE  /\ Listed(worse.rel)
                    /\ \A m, n \in Positions :
                         report.rows[m].rel = worse.rel /\ report.rows[n].rel = better.rel =>
                           /\ Rank[report.rows[m].severity] >= Rank[report.rows[n].severity]
                           /\ m <= n \/ Key(report.rows[m]) = Key(report.rows[n])
  BY DEF RankingSound
<1>1. PICK k \in Positions : report.rows[k].rel = better.rel
  BY DEF Listed
<1>2. Shown \subseteq rows
  BY DEF Shown
<1>3. report.rows[k] = RowOf(better) /\ Kept(better) /\ RowOf(better) \in Shown
  <2>1. report.rows[k] \in Shown
    BY RowsPlaced
  <2>2. report.rows[k] \in rows
    BY <1>2, <2>1
  <2>3. report.rows[k] = RowOf(better) /\ Kept(better)
    BY <1>1, <2>2, ReadingTyped
  <2> QED BY <2>1, <2>3
<1>4. Kept(worse)
  BY <1>3, WorseRanksHigher
<1>5. ASSUME scan.kind = "schema", scan.min > 0 PROVE Wasted(worse.reading) >= scan.min
  <2>1. OfTables /\ worse.reading \in Table /\ better.reading \in Table
    BY <1>5, ReadingTyped DEF OfTables
  <2>2. RowOf(better).percent >= scan.min
    BY <1>3, <1>5, ReadingTyped DEF Shown
  <2>3. Wasted(better.reading) >= scan.min
    BY <2>1, <2>2 DEF RowOf, TableRow
  <2> QED BY <1>5, <2>1, <2>3, WastedIsNat, WorseRanksHigher, Minimum
<1>6. Listed(worse.rel)
  BY <1>4, <1>5, MeasuredIsShown
<1>7. ASSUME NEW m \in Positions, NEW n \in Positions,
             report.rows[m].rel = worse.rel, report.rows[n].rel = better.rel
      PROVE  /\ Rank[report.rows[m].severity] >= Rank[report.rows[n].severity]
             /\ m <= n \/ Key(report.rows[m]) = Key(report.rows[n])
  <2>1. report.rows[m] = RowOf(worse) /\ report.rows[n] = RowOf(better)
    BY <1>2, <1>7, RowsPlaced, ReadingTyped
  <2>2. m \in Nat /\ n \in Nat
    BY RowsPlaced
  <2>3. n < m => Key(RowOf(better)) >= Key(RowOf(worse))
    BY <2>1, RowsPlaced
  <2>4. /\ Key(RowOf(worse)) \in Nat /\ Key(RowOf(better)) \in Nat
        /\ Key(RowOf(worse)) >= Key(RowOf(better))
        /\ Rank[RowOf(worse).severity] >= Rank[RowOf(better).severity]
    BY WorseRanksHigher
  <2>5. m <= n \/ Key(RowOf(worse)) = Key(RowOf(better))
    <3>1. m <= n \/ n < m
      BY <2>2, Compare
    <3> QED BY <2>3, <2>4, <3>1, Tie
  <2> QED BY <2>1, <2>4, <2>5
<1> QED BY <1>6, <1>7

-----------------------------------------------------------------------------
(* The summary of a schema: while its relations are measured the totals are *)
(* the sums so far.                                                         *)

Sizes == [m \in measured |-> Size(m.reading)]
Bytes == [m \in measured |-> m.reading.len * (m.reading.dead + m.reading.free)]
Bloats == [row \in rows |-> row.wasted]

Tallied ==
  /\ IsFiniteSet(measured) /\ IsFiniteSet(rows)
  /\ scan.kind \in {"schema", "schema indexes"} =>
       /\ totals.size = SumFunction(Sizes)
       /\ totals.wasted = IF OfTables THEN SumFunction(Bytes) ELSE SumFunction(Bloats)

\* What is summed up, of a relation that is measured and of one that has a row.
LEMMA Summands ==
  ASSUME Inductive
  PROVE  /\ DOMAIN Sizes = measured /\ DOMAIN Bytes = measured /\ DOMAIN Bloats = rows
         /\ \A m \in measured : Sizes[m] = Size(m.reading) /\ Sizes[m] \in Nat
         /\ OfTables => \A m \in measured :
              /\ Bytes[m] = m.reading.len * (m.reading.dead + m.reading.free)
              /\ Bytes[m] \in Nat
         /\ \A row \in rows : Bloats[row] = row.wasted /\ Bloats[row] \in Nat
<1>1. ASSUME NEW m \in measured PROVE Size(m.reading) \in Nat
  BY ReadingTyped DEF Size, Table, Index
<1>2. ASSUME OfTables, NEW m \in measured
      PROVE  m.reading.len * (m.reading.dead + m.reading.free) \in Nat
  <2>1. m.reading \in Table
    BY <1>2, ReadingTyped
  <2>2. m.reading.len \in Nat /\ m.reading.dead + m.reading.free \in Nat
    BY <2>1, TableTyped
  <2>3. \A a, b \in Nat : a * b \in Nat
    BY ProductIsNat
  <2> QED BY <2>2, <2>3, Zenon
<1>3. ASSUME NEW row \in rows PROVE row.wasted \in Nat
  BY DEF Inductive, TypeOK, Row
<1> QED BY <1>1, <1>2, <1>3 DEF Sizes, Bytes, Bloats

LEMMA NothingTallied ==
  ASSUME measured = {}, rows = {}, totals = [size |-> 0, wasted |-> 0]
  PROVE  Tallied
<1>1. IsFiniteSet({})
  BY FS_EmptySet
<1>2. DOMAIN Sizes = {} /\ DOMAIN Bytes = {} /\ DOMAIN Bloats = {}
  BY DEF Sizes, Bytes, Bloats
<1>3. SumFunction(Sizes) = 0 /\ SumFunction(Bytes) = 0 /\ SumFunction(Bloats) = 0
  BY <1>2, FunctionSumEmpty
<1> QED BY <1>1, <1>3 DEF Tallied

LEMMA TallyStays ==
  ASSUME Tallied, UNCHANGED <<scan, measured, rows, totals>> PROVE Tallied'
<1>1. OfTables' = OfTables
  BY ScanStays
<1>2. Sizes' = Sizes
  BY <1>1 DEF Sizes, Size
<1>3. Bytes' = Bytes /\ Bloats' = Bloats
  BY DEF Bytes, Bloats
<1> QED BY <1>1, <1>2, <1>3 DEF Tallied

\* What is summed up of the relation measured next.
LEMMA ReadingSummands ==
  ASSUME NEW reading \in IF OfTables THEN TableReadings ELSE IndexReadings
  PROVE  /\ Size(reading) \in Nat
         /\ OfTables => reading.len * (reading.dead + reading.free) \in Nat
<1>1. OfTables => reading \in Table
  BY ScanAssumption
<1>2. ~ OfTables => reading \in Index
  BY ScanAssumption
<1>3. OfTables => reading.len * (reading.dead + reading.free) \in Nat
  BY <1>1, ProductIsNat DEF Table
<1> QED BY <1>1, <1>2, <1>3 DEF Size, Table, Index

\* Its size is added, and for a table its bytes.
LEMMA SumsGrow ==
  ASSUME Inductive, Tallied, NEW rel, Measured(rel),
         NEW reading \in IF OfTables THEN TableReadings ELSE IndexReadings,
         measured' = measured \cup {[rel |-> rel, reading |-> reading]}
  PROVE  /\ IsFiniteSet(measured')
         /\ SumFunction(Sizes') = SumFunction(Sizes) + Size(reading)
         /\ OfTables => SumFunction(Bytes') =
              SumFunction(Bytes) + reading.len * (reading.dead + reading.free)
<1> DEFINE new == [rel |-> rel, reading |-> reading]
<1>1. new \notin measured
  <2>1. new.rel = rel
    OBVIOUS
  <2> HIDE DEF new
  <2> QED BY <2>1, TurnIsNew DEF Inductive
<1>2. measured' = measured \cup {new} /\ new.reading = reading
  OBVIOUS
<1> HIDE DEF new
<1>3. IsFiniteSet(measured')
  <2>1. IsFiniteSet(measured)
    BY DEF Tallied
  <2>2. IsFiniteSet(measured \cup {new})
    BY <2>1, FS_AddElement
  <2> QED BY <1>2, <2>2
<1>4. Sizes' = [m \in measured' |-> Size(m.reading)]
  <2>1. OfTables' = OfTables
    BY ScanStays DEF Measured
  <2> QED BY <2>1 DEF Sizes, Size
<1>5. Bytes' = [m \in measured' |-> m.reading.len * (m.reading.dead + m.reading.free)]
  BY DEF Bytes
<1>6. SumFunction(Sizes') = SumFunction(Sizes) + Size(reading)
  <2> DEFINE f == Sizes  g == Sizes'
  <2>1. DOMAIN f = measured /\ \A m \in DOMAIN f : f[m] = Size(m.reading) /\ f[m] \in Nat
    BY Summands
  <2>2. DOMAIN g = DOMAIN f \cup {new} /\ \A m \in DOMAIN g : g[m] = Size(m.reading)
    BY <1>2, <1>4, <2>1
  <2>3. IsFiniteSet(DOMAIN f) /\ new \notin DOMAIN f
    BY <1>1, <2>1 DEF Tallied
  <2>4. Size(new.reading) \in Nat
    BY <1>2, ReadingSummands
  <2> HIDE DEF f, g
  <2>5. g[new] = Size(reading) /\ g[new] \in Nat /\ \A m \in DOMAIN f : g[m] = f[m]
    BY <1>2, <2>1, <2>2, <2>4
  <2>6. SumFunction(g) = SumFunction(f) + g[new]
    BY <2>1, <2>2, <2>3, <2>5, FunctionSumAdd
  <2> QED BY <2>5, <2>6 DEF f, g
<1>7. ASSUME OfTables
      PROVE  SumFunction(Bytes') =
               SumFunction(Bytes) + reading.len * (reading.dead + reading.free)
  <2> DEFINE f == Bytes  g == Bytes'
             bytes(m) == m.reading.len * (m.reading.dead + m.reading.free)
  <2>1. DOMAIN f = measured /\ \A m \in DOMAIN f : f[m] = bytes(m) /\ f[m] \in Nat
    BY <1>7, Summands
  <2>2. DOMAIN g = DOMAIN f \cup {new} /\ \A m \in DOMAIN g : g[m] = bytes(m)
    BY <1>2, <1>5, <2>1
  <2>3. IsFiniteSet(DOMAIN f) /\ new \notin DOMAIN f
    BY <1>1, <2>1 DEF Tallied
  <2>4. bytes(new) = reading.len * (reading.dead + reading.free) /\ bytes(new) \in Nat
    BY <1>2, <1>7, ReadingSummands
  <2> HIDE DEF f, g, bytes
  <2>5. g[new] = bytes(new) /\ g[new] \in Nat /\ \A m \in DOMAIN f : g[m] = f[m]
    BY <2>1, <2>2, <2>4
  <2>6. SumFunction(g) = SumFunction(f) + g[new]
    BY <2>1, <2>2, <2>3, <2>5, FunctionSumAdd
  <2> QED BY <2>4, <2>5, <2>6 DEF f, g
<1> QED BY <1>3, <1>6, <1>7

\* So is the bloat of a relation that gets a row.
LEMMA BloatsGrow ==
  ASSUME Inductive, Tallied, NEW rel, Measured(rel), NEW row \in Row, row.rel = rel,
         rows' = rows \cup {row}
  PROVE  /\ IsFiniteSet(rows')
         /\ SumFunction(Bloats') = SumFunction(Bloats) + row.wasted
<1>1. row \notin rows
  BY TurnIsNew DEF Inductive
<1>2. IsFiniteSet(rows')
  BY FS_AddElement DEF Tallied
<1> DEFINE f == Bloats  g == Bloats'
<1>3. DOMAIN f = rows /\ \A r \in DOMAIN f : f[r] = r.wasted /\ f[r] \in Nat
  BY Summands
<1>4. DOMAIN g = DOMAIN f \cup {row} /\ \A r \in DOMAIN g : g[r] = r.wasted
  BY <1>3 DEF Bloats
<1>5. IsFiniteSet(DOMAIN f) /\ row \notin DOMAIN f
  BY <1>1, <1>3 DEF Tallied
<1>6. row.wasted \in Nat
  BY DEF Row
<1> HIDE DEF f, g
<1>7. g[row] = row.wasted /\ g[row] \in Nat /\ \A r \in DOMAIN f : g[r] = f[r]
  BY <1>3, <1>4, <1>6
<1>8. SumFunction(g) = SumFunction(f) + g[row]
  BY <1>3, <1>4, <1>5, <1>7, FunctionSumAdd
<1> QED BY <1>2, <1>7, <1>8 DEF f, g

-----------------------------------------------------------------------------
LEMMA MeasureTableTallied ==
  ASSUME Inductive, Tallied, NEW rel \in Rels, MeasureTable(rel) PROVE Tallied'
<1> PICK t \in TableReadings :
       /\ measured' = measured \cup {[rel |-> rel, reading |-> t]}
       /\ rows' = rows \cup {TableRow(rel, t)}
       /\ totals' = Plus(t.len, t.len * (t.dead + t.free))
  BY DEF MeasureTable
<1>1. OfTables /\ Measured(rel) /\ OfTables' = OfTables /\ scan' = scan
  BY ScanStays DEF MeasureTable, Measured
<1>2. /\ IsFiniteSet(measured')
      /\ SumFunction(Sizes') = SumFunction(Sizes) + Size(t)
      /\ SumFunction(Bytes') = SumFunction(Bytes) + t.len * (t.dead + t.free)
  BY <1>1, SumsGrow
<1>3. IsFiniteSet(rows')
  BY FS_AddElement DEF Tallied
<1>4. totals'.size = totals.size + Size(t)
      /\ totals'.wasted = totals.wasted + t.len * (t.dead + t.free)
  BY <1>1 DEF Plus, Size
<1> QED BY <1>1, <1>2, <1>3, <1>4 DEF Tallied

\* The indexes of a table have no summary.
LEMMA MeasureIndexTallied ==
  ASSUME Inductive, Tallied, NEW rel \in Rels, MeasureIndex(rel) PROVE Tallied'
<1> PICK i \in IndexReadings :
       /\ measured' = measured \cup {[rel |-> rel, reading |-> i]}
       /\ rows' = rows \cup {IndexRow(rel, i)} \/ rows' = rows
  BY DEF MeasureIndex
<1>1. IsFiniteSet(measured') /\ IsFiniteSet(rows')
  BY FS_AddElement DEF Tallied
<1>2. scan'.kind \notin {"schema", "schema indexes"}
  BY DEF MeasureIndex, Measured
<1> QED BY <1>1, <1>2 DEF Tallied

LEMMA MeasureSchemaIndexTallied ==
  ASSUME Inductive, Tallied, NEW rel \in Rels, MeasureSchemaIndex(rel) PROVE Tallied'
<1> PICK i \in {j \in IndexReadings : j.type = "btree"} :
       /\ measured' = measured \cup {[rel |-> rel, reading |-> i]}
       /\ IF EstimatedBloat(i) >= scan.min
          THEN /\ rows' = rows \cup {IndexRow(rel, i)}
               /\ totals' = Plus(i.size, i.size * EstimatedBloat(i))
          ELSE rows' = rows /\ totals' = Plus(i.size, 0)
  BY DEF MeasureSchemaIndex
<1>1. ~ OfTables /\ Measured(rel) /\ OfTables' = OfTables /\ scan' = scan
      /\ scan.kind = "schema indexes" /\ i \in Index
  BY ScanStays, ScanAssumption DEF MeasureSchemaIndex, Measured, OfTables
<1>2. IsFiniteSet(measured') /\ SumFunction(Sizes') = SumFunction(Sizes) + Size(i)
  BY <1>1, SumsGrow
<1>3. Size(i) = i.size
  BY <1>1 DEF Size
<1>4. totals.size = SumFunction(Sizes) /\ totals.wasted = SumFunction(Bloats)
  BY <1>1 DEF Tallied
<1>5. CASE EstimatedBloat(i) >= scan.min
  <2> DEFINE row == IndexRow(rel, i)
  <2>1. /\ row \in Row /\ row.rel = rel /\ row.wasted = i.size * EstimatedBloat(i)
        /\ rows' = rows \cup {row}
    BY <1>1, <1>5, IndexRowTyped DEF IndexRow
  <2> HIDE DEF row
  <2>2. IsFiniteSet(rows') /\ SumFunction(Bloats') = SumFunction(Bloats) + row.wasted
    BY <1>1, <2>1, BloatsGrow
  <2>3. /\ totals'.size = totals.size + i.size
        /\ totals'.wasted = totals.wasted + row.wasted
    BY <1>5, <2>1 DEF Plus
  <2> QED BY <1>1, <1>2, <1>3, <1>4, <2>2, <2>3 DEF Tallied
<1>6. CASE ~ (EstimatedBloat(i) >= scan.min)
  <2>1. rows' = rows /\ Bloats' = Bloats /\ IsFiniteSet(rows')
    BY <1>6 DEF Bloats, Tallied
  <2>2. totals'.size = totals.size + i.size /\ totals'.wasted = totals.wasted
    BY <1>6 DEF Plus, Inductive, TypeOK
  <2> QED BY <1>1, <1>2, <1>3, <1>4, <2>1, <2>2 DEF Tallied
<1> QED BY <1>5, <1>6

\* A failure of a table leaves a row, and nothing in the totals.
LEMMA FailTallied ==
  ASSUME Inductive, Tallied, NEW rel \in Rels, Fail(rel) PROVE Tallied'
<1>1. UNCHANGED <<scan, measured, totals>> /\ OfTables' = OfTables
  BY ScanStays DEF Fail, Measured
<1>2. Sizes' = Sizes /\ Bytes' = Bytes
  BY <1>1 DEF Sizes, Bytes, Size
<1>3. CASE scan.kind = "schema indexes"
  <2>1. UNCHANGED <<scan, measured, rows, totals>>
    BY <1>1, <1>3 DEF Fail
  <2> QED BY <2>1, TallyStays
<1>4. CASE scan.kind # "schema indexes"
  <2>1. IsFiniteSet(rows')
    BY <1>4, FS_AddElement DEF Fail, Tallied
  <2> QED BY <1>1, <1>2, <1>4, <2>1 DEF Tallied, OfTables
<1> QED BY <1>3, <1>4

LEMMA NextTallied == Inductive /\ Tallied /\ [Next]_vars => Tallied'
<1> SUFFICES ASSUME Inductive, Tallied, [Next]_vars PROVE Tallied'
  OBVIOUS
<1>1. CASE UNCHANGED <<scan, measured, rows, totals>>
  BY <1>1, TallyStays
<1>2. ASSUME NEW rel \in Rels,
             MeasureTable(rel) \/ MeasureIndex(rel) \/ MeasureSchemaIndex(rel) \/ Fail(rel)
      PROVE  Tallied'
  BY <1>2, MeasureTableTallied, MeasureIndexTallied, MeasureSchemaIndexTallied, FailTallied
<1>3. Check \/ List \/ FailSingle \/ Finish => UNCHANGED <<scan, measured, rows, totals>>
  BY DEF Check, List, FailSingle, Finish, Silent, Measuring
<1>4. (\E rel \in Rels : Vanish(rel)) => UNCHANGED <<scan, measured, rows, totals>>
  BY DEF Vanish, Measured
<1> QED BY <1>1, <1>2, <1>3, <1>4 DEF Next, vars

-----------------------------------------------------------------------------
\* No table listed is missing from the report of _analyze_schema_tables but for low
\* bloat, no index but for that or a failure.
THEOREM EverythingAccounted == Spec => []NothingLost
BY AlwaysInductive, AllAccounted, PTL

\* --min-bloat leaves out nothing that _table_bloat_severity calls critical, or
\* _index_bloat_severity high, up to the thresholds that are safe.
THEOREM CriticalShown == Spec => []CriticalIsListed
BY AlwaysInductive, CriticalAccounted, PTL

\* The thresholds of the severities and those of the recommendations agree.
THEOREM AdviceAgrees == Spec => []AdviceMatches
BY AlwaysInductive, AdviceAccounted, PTL

\* What is worse is neither left out for, nor listed below, what is better.
THEOREM RankedByBloat == Spec => []RankingSound
BY AlwaysInductive, RankingAccounted, PTL

\* The summary of a schema adds up, over any number of relations, any of which may
\* fail on the way: total_size is that of what was measured, total_wasted and
\* total_bloated_size that of what was measured and of what is shown.
THEOREM SummariesAddUp == Spec => []SummaryAddsUp
<1>1. Init => Tallied
  BY NothingTallied DEF Init
<1>2. Spec => []Tallied
  BY <1>1, NextTallied, AlwaysInductive, PTL DEF Spec
<1>3. Tallied => SummaryAddsUp
  BY DEF Tallied, SummaryAddsUp, Sizes, Bytes, Bloats
<1> QED BY <1>2, <1>3, PTL

-----------------------------------------------------------------------------
(* A scan makes finitely many queries, and its rows can always be sorted.   *)

\* Queries still to be made, and the report.
Left ==
  CASE pc = "checking"  -> Cardinality(Rels) + 3
    [] pc = "listing"   -> Cardinality(Rels) + 2
    [] pc = "measuring" -> Cardinality(todo) + 1
    [] OTHER            -> 0

LEMMA TodoFinite ==
  ASSUME Inductive
  PROVE  /\ Cardinality(Rels) \in Nat /\ IsFiniteSet(todo)
         /\ Cardinality(todo) \in Nat /\ Cardinality(todo) <= Cardinality(Rels)
<1>1. todo \subseteq Rels
  BY DEF Inductive, TypeOK
<1> QED BY <1>1, ScanAssumption, FS_Subset, FS_CardinalityType

LEMMA MeasuredRelsFewer ==
  ASSUME Inductive, pc \in {"checking", "listing"}, NEW rels \in SUBSET Rels, Measuring(rels)
  PROVE  Left' < Left
<1>1. Cardinality(rels) \in Nat /\ Cardinality(rels) <= Cardinality(Rels)
  BY ScanAssumption, FS_Subset, FS_CardinalityType
<1>2. Left' = Cardinality(rels) + 1
  BY DEF Measuring, Left
<1>3. Left >= Cardinality(Rels) + 2 /\ Left \in Nat
  BY TodoFinite DEF Left
<1> QED BY <1>1, <1>2, <1>3, TodoFinite

LEMMA EndedHasNoneLeft == ASSUME Inductive, pc # "done", pc' = "done" PROVE Left' < Left
<1>1. Left \in Nat /\ Left > 0
  BY TodoFinite DEF Left, Inductive, TypeOK
<1>2. Left' = 0
  BY DEF Left
<1> QED BY <1>1, <1>2

LEMMA TurnTaken == ASSUME Inductive, NEW rel, Measured(rel) PROVE Left' < Left
<1>1. todo' = todo \ {rel} /\ rel \in todo /\ pc = "measuring" /\ pc' = "measuring"
  BY DEF Measured
<1>2. Cardinality(todo') = Cardinality(todo) - 1
  BY <1>1, TodoFinite, FS_RemoveElement
<1>3. Left = Cardinality(todo) + 1 /\ Left' = Cardinality(todo') + 1
  BY <1>1 DEF Left
<1> QED BY <1>2, <1>3, TodoFinite

LEMMA NextLeavesLess == ASSUME Inductive, Next PROVE Left' < Left
<1>1. CASE Check
  <2>1. CASE pc' = "done"
    BY <1>1, <2>1, EndedHasNoneLeft DEF Check
  <2>2. CASE \E rel \in Rels : Measuring({rel})
    <3> PICK rel \in Rels : Measuring({rel})
      BY <2>2
    <3> QED BY <1>1, MeasuredRelsFewer DEF Check
  <2>3. CASE pc' = "listing"
    BY <1>1, <2>3, TodoFinite DEF Check, Left
  <2> QED BY <1>1, <2>1, <2>2, <2>3 DEF Check, Silent, End
<1>2. CASE List
  <2>1. CASE pc' = "done"
    BY <1>2, <2>1, EndedHasNoneLeft DEF List
  <2>2. CASE \E rels \in SUBSET Rels : Measuring(rels)
    BY <1>2, <2>2, MeasuredRelsFewer DEF List
  <2> QED BY <1>2, <2>1, <2>2 DEF List, Silent, End
<1>3. CASE FailSingle \/ Finish
  BY <1>3, EndedHasNoneLeft DEF FailSingle, Finish, Silent, End
<1>4. ASSUME NEW rel \in Rels,
             \/ MeasureTable(rel) \/ MeasureIndex(rel) \/ MeasureSchemaIndex(rel)
             \/ Fail(rel) \/ Vanish(rel)
      PROVE  Left' < Left
  BY <1>4, TurnTaken DEF MeasureTable, MeasureIndex, MeasureSchemaIndex, Fail, Vanish
<1> QED BY <1>1, <1>2, <1>3, <1>4 DEF Next

\* Any rows that have numbers to be sorted by can be put in an order: the last of it
\* is a row of the least key, before it come the others.
LEMMA RankingExists ==
  ASSUME NEW S, IsFiniteSet(S), \A row \in S : Key(row) \in Nat
  PROVE  Rankings(S) # {}
<1> DEFINE Bad == {T \in SUBSET S : Rankings(T) = {}}
<1>1. SUFFICES ASSUME Bad # {} PROVE FALSE
  OBVIOUS
<1>2. PICK T \in Bad : \A U \in SUBSET T : U # T => U \notin Bad
  <2>1. Bad \in SUBSET (SUBSET S)
    OBVIOUS
  <2> HIDE DEF Bad
  <2> QED BY <1>1, <2>1, SmallestSubset
<1>3. IsFiniteSet(T) /\ T \subseteq S /\ Rankings(T) = {}
  BY FS_Subset
<1>4. CASE T = {}
  <2> DEFINE order == [n \in 1..0 |-> n]
  <2>1. Cardinality(T) = 0
    BY <1>4, FS_EmptySet
  <2>2. order \in [1..0 -> T] /\ DOMAIN order = {}
    OBVIOUS
  <2>3. order \in Rankings(T)
    BY <1>4, <2>1, <2>2 DEF Rankings
  <2> QED BY <1>3, <2>3
<1>5. CASE T # {}
  <2>1. PICK last \in T : \A row \in T : Key(last) <= Key(row)
    <3> DEFINE keys == {Key(row) : row \in T}
    <3>1. keys \in SUBSET Nat /\ keys # {}
      BY <1>3, <1>5
    <3> HIDE DEF keys
    <3>2. PICK k \in keys : \A m \in keys : k <= m
      BY <3>1, LeastNatural
    <3> QED BY <3>2 DEF keys
  <2> DEFINE U == T \ {last}  n == Cardinality(T)
  <2>2. n \in Nat /\ n >= 1 /\ Cardinality(U) = n - 1
    <3>1. n \in Nat /\ n # 0
      BY <1>3, <1>5, FS_CardinalityType, FS_EmptySet
    <3>2. Cardinality(U) = n - 1
      BY <1>3, FS_RemoveElement
    <3> QED BY <3>1, <3>2
  <2>3. Rankings(U) # {}
    BY <1>2, <1>3
  <2> HIDE DEF n
  <2>4. PICK init \in [1..(n - 1) -> U] :
          /\ \A row \in U : \E i \in 1..(n - 1) : init[i] = row
          /\ \A i, j \in 1..(n - 1) : i < j => Key(init[i]) >= Key(init[j])
    BY <2>2, <2>3 DEF Rankings
  <2> DEFINE order == [i \in 1..n |-> IF i = n THEN last ELSE init[i]]
  <2>5. \A i \in 1..n : i = n \/ i \in 1..(n - 1)
    BY <2>2
  <2>6. order[n] = last /\ n \in 1..n
    BY <2>2
  <2>7. \A i \in 1..(n - 1) : i \in 1..n /\ order[i] = init[i] /\ init[i] \in U
    BY <2>2, <2>4
  <2>8. DOMAIN order = 1..n /\ order = [i \in 1..n |-> order[i]]
    OBVIOUS
  <2> HIDE DEF order
  <2>9. order \in [1..n -> T]
    BY <2>1, <2>5, <2>6, <2>7, <2>8
  <2>10. \A row \in T : \E i \in 1..n : order[i] = row
    BY <2>4, <2>6, <2>7
  <2>11. ASSUME NEW i \in 1..n, NEW j \in 1..n, i < j
         PROVE  Key(order[i]) >= Key(order[j])
    <3>1. i \in 1..(n - 1)
      BY <2>2, <2>11
    <3>2. CASE j = n
      BY <1>3, <2>1, <2>6, <2>7, <3>1, <3>2
    <3>3. CASE j \in 1..(n - 1)
      BY <2>4, <2>7, <2>11, <3>1, <3>3
    <3> QED BY <2>5, <3>2, <3>3
  <2>12. order \in Rankings(T)
    BY <2>8, <2>9, <2>10, <2>11 DEF Rankings, n
  <2> QED BY <1>3, <2>12
<1> QED BY <1>4, <1>5

\* Every step of a scan leaves fewer of its queries to be made, at most three more
\* than there are relations: no failure is asked again, and none starts the loops
\* over.
THEOREM ScanShrinks == Spec => [](Left \in Nat) /\ [][Left' < Left]_vars
<1>1. Inductive => Left \in Nat
  BY TodoFinite DEF Left
<1>2. Inductive /\ [Next]_vars => [Left' < Left]_vars
  BY NextLeavesLess
<1> QED BY <1>1, <1>2, AlwaysInductive, PTL DEF Spec

\* When the last relation has had its turn there is an order to report the rows in,
\* whatever their keys: a scan does not get stuck before its report.
THEOREM ReportAlwaysPossible == Spec => [](Rankings(Shown) # {})
<1>1. ASSUME Inductive, Tallied PROVE Rankings(Shown) # {}
  <2>1. IsFiniteSet(Shown)
    BY <1>1, FS_Subset DEF Shown, Tallied
  <2>2. \A row \in Shown : row.wasted \in Nat /\ row.percent \in Nat
    BY <1>1 DEF Shown, Inductive, TypeOK, Row
  <2>3. \A row \in Shown : Key(row) \in Nat
    BY <2>2 DEF Key
  <2> QED BY <2>1, <2>3, RankingExists
<1>2. Init => Tallied
  BY NothingTallied DEF Init
<1>3. Spec => []Tallied
  BY <1>2, NextTallied, AlwaysInductive, PTL DEF Spec
<1> QED BY <1>1, <1>3, AlwaysInductive, PTL
=============================================================================
