------------------------------ MODULE MCIndexHealth ------------------------------
\* Indexes of one table, in the schema asked for, but for one.
EXTENDS IndexHealth

Plain(columns) ==
  [asked |-> TRUE, table |-> "t", columns |-> columns, size |-> 1, valid |-> TRUE,
   scanned |-> TRUE, pkey |-> FALSE, constraint |-> FALSE]

Kinds ==
  {Plain(<<"a">>), Plain(<<"a", "b">>), Plain(<<"b", "a">>),
   [Plain(<<"a", "b">>) EXCEPT !.scanned = FALSE],
   [Plain(<<"a">>) EXCEPT !.scanned = FALSE, !.size = 2],
   [Plain(<<"a">>) EXCEPT !.scanned = FALSE, !.size = 0],
   [Plain(<<"a">>) EXCEPT !.scanned = FALSE, !.pkey = TRUE, !.constraint = TRUE],
   [Plain(<<"a">>) EXCEPT !.scanned = FALSE, !.constraint = TRUE],
   [Plain(<< >>) EXCEPT !.scanned = FALSE],
   [Plain(<<"a">>) EXCEPT !.valid = FALSE, !.scanned = FALSE],
   [Plain(<<"a">>) EXCEPT !.valid = FALSE, !.scanned = FALSE, !.size = 0],
   [Plain(<<"a">>) EXCEPT !.table = "u"],
   [Plain(<<"a">>) EXCEPT !.valid = FALSE, !.asked = FALSE]}

Created ==
  {Plain(<<"a", "b">>), [Plain(<<"a">>) EXCEPT !.valid = FALSE, !.scanned = FALSE]}

Initial == UNION {[names -> Kinds] : names \in SUBSET Names}
=============================================================================
