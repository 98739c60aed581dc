------------------------------ MODULE MCBloatScan ------------------------------
\* Two relations whose numbers are on both sides of every threshold.
EXTENDS BloatScan

Tables ==
  {t \in [len : {0, 1, 3}, dead : {0, 10, 11, 31, 70}, free : {0, 20, 21, 31},
          live : {0, 49, 50, 69, 70, 95}] : t \in Table}

BtreeIndexes ==
  [type : {"btree"}, size : {2}, density : {0, 49, 50, 60, 69, 70, 71, 90, NaN},
   free : {20, 21, 30, 31, 200}, worn : {FALSE}, backlog : {0}]

OtherIndexes ==
  [type : {"gin", "hash", "gist"}, size : {1}, density : {0}, free : {0},
   worn : {FALSE}, backlog : {100, 101, 1001}]

Indexes ==
  BtreeIndexes \cup OtherIndexes
  \cup [type : {"btree"}, size : {1}, density : {70, 90}, free : {20}, worn : {TRUE},
        backlog : {0}]

Thresholds == {0, 20, 31, 60}
=============================================================================
