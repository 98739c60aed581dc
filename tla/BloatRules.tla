------------------------------- MODULE BloatRules -------------------------------
(***************************************************************************)
(* What table-bloat and index-bloat make of the numbers of pgstattuple and  *)
(* pgstatindex: a severity, and advice.                                    *)
(*                                                                         *)
(* Percentages are whole numbers, lengths are in hundreds of bytes, so a   *)
(* percentage of a length is a number of bytes.                            *)
(***************************************************************************)
EXTENDS Integers

\* pgstattuple, or pgstattuple_approx: the length of a table, and its dead tuples,
\* free space and live tuples in percent of it.  The rest are headers, line pointers
\* and alignment; an empty table has nothing.
Table ==
  {t \in [len : Nat, dead : 0..100, free : 0..100, live : 0..100] :
     IF t.len = 0 THEN t.dead = 0 /\ t.free = 0 /\ t.live = 0
     ELSE t.dead + t.free + t.live \in 60..100}

\* The average of no leaf pages at all: NaN, which no comparison holds of.
NaN == 101

\* pgstatindex, pgstatginindex, pgstathashindex: leaf density; empty and deleted
\* pages in percent of the leaf pages; leaf fragmentation > 30 or more than 10
\* deleted pages; pending tuples, or dead items.
Index == [type : {"btree", "gin", "hash", "gist"}, size : Nat, density : 0..NaN,
          free : Nat, worn : BOOLEAN, backlog : Nat]

Severities == {"none", "minimal", "low", "moderate", "high", "critical"}

Rank == [none |-> 0, minimal |-> 0, low |-> 1, moderate |-> 2, high |-> 3, critical |-> 4]

-----------------------------------------------------------------------------
Status(critical, warning) ==
  IF critical THEN "critical" ELSE IF warning THEN "warning" ELSE "normal"

Points == [critical |-> 3, warning |-> 2, normal |-> 0]

\* Variant: the two thresholds are swapped.
DeadStatusSwapped(t) == Status(t.dead > 10, t.dead > 30)

DeadStatus(t) == Status(t.dead > 30, t.dead > 10)

FreeStatus(t) == Status(t.free > 30, t.free > 20)

DensityStatus(t) == Status(t.live < 50, t.live < 70)

TableScore(t) ==
  Points[DeadStatus(t)] + Points[FreeStatus(t)] + Points[DensityStatus(t)]

\* Variant: a table is critical at the score that makes it high.
TableSeverityHarsh(t) ==
  CASE TableScore(t) >= 4 -> "critical"
    [] TableScore(t) \in {2, 3} -> "moderate"
    [] TableScore(t) = 1 -> "low"
    [] OTHER -> "minimal"

TableSeverity(t) ==
  CASE TableScore(t) >= 6 -> "critical"
    [] TableScore(t) \in {4, 5} -> "high"
    [] TableScore(t) \in {2, 3} -> "moderate"
    [] TableScore(t) = 1 -> "low"
    [] OTHER -> "minimal"

\* The dead and the free part of a table, of which there is none in an empty one.
Wasted(t) == IF t.len > 0 THEN t.dead + t.free ELSE 0

\* Which number advice is about, and how urgent it is.
Advices == [about : {"dead", "free", "density", "pages", "pending", "dead items",
                     "table", "index"},
            level : {"critical", "warning", "normal", "healthy", "minimal"}]

Advice(about, level) == [about |-> about, level |-> level]

\* What each number is said to call for, or, if nothing, what the table is.
TableAdvice(t) ==
  LET said == {Advice("dead", Status(t.dead > 30, t.dead > 10)),
               Advice("free", Status(t.free > 30, t.free > 20)),
               Advice("density", Status(0 < t.live /\ t.live < 50,
                                        0 < t.live /\ t.live < 70))}
      urged == {a \in said : a.level # "normal"}
  IN  IF urged # {} THEN urged
      ELSE IF t.dead < 10 /\ t.free <= 20 /\ t.live >= 70
           THEN {Advice("table", "healthy")} ELSE {Advice("table", "minimal")}

\* What the recommendations of a schema count a table for.
TableMarks(t) ==
  {mark \in {"dead", "free", "density"} :
     \/ mark = "dead" /\ t.dead > 10
     \/ mark = "free" /\ t.free > 20
     \/ mark = "density" /\ 0 < t.live /\ t.live < 70}

-----------------------------------------------------------------------------
\* A density of 0 is taken for none.
Density(i) == IF i.density = 0 THEN 90 ELSE i.density

EstimatedBloat(i) == IF Density(i) < 90 THEN 90 - Density(i) ELSE 0

IndexScore(i) ==
  (IF Density(i) < 50 THEN 3 ELSE IF Density(i) < 70 THEN 2 ELSE 0)
  + (IF i.free > 30 THEN 2 ELSE IF i.free > 20 THEN 1 ELSE 0)

IndexSeverity(i) ==
  IF IndexScore(i) >= 4 \/ EstimatedBloat(i) >= 40 THEN "critical"
  ELSE IF IndexScore(i) >= 3 \/ EstimatedBloat(i) >= 30 THEN "high"
  ELSE IF IndexScore(i) >= 2 \/ EstimatedBloat(i) >= 20 THEN "moderate"
  ELSE "low"

BtreeAdvice(i) ==
  LET said == {Advice("density", Status(Density(i) < 50, Density(i) < 70)),
               Advice("free", Status(i.free > 30, i.free > 20)),
               Advice("pages", IF i.worn THEN "warning" ELSE "normal")}
      urged == {a \in said : a.level # "normal"}
  IN  IF urged # {} THEN urged
      ELSE {Advice("index", "healthy") : n \in {Density(i)} \cap 70..100}

\* GIN and hash indexes are advised on for what a VACUUM would do, others not.
IndexAdvice(i) ==
  CASE i.type = "btree" -> BtreeAdvice(i)
    [] i.type = "gin" ->
         {a \in {Advice("pending", Status(i.backlog > 1000, i.backlog > 100))} :
            a.level # "normal"}
    [] i.type = "hash" -> {Advice("dead items", "warning") : n \in {i.backlog} \ 0..100}
    [] OTHER -> {}

IndexMarks(i) == {mark \in {"density"} : Density(i) < 70}
=============================================================================
