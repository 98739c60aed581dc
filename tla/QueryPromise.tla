------------------------------ MODULE QueryPromise ------------------------------
(***************************************************************************)
(* What SqlDriver.execute_query promises its callers.  A query that is      *)
(* forced to be read-only is refused where it writes and leaves nothing      *)
(* behind in the database, unless its own text ends the transaction before  *)
(* it writes: from there on it is like any other.  Any other has had its     *)
(* effect when an answer comes.  An error says that a read-only query had   *)
(* none, and nothing about any other: its COMMIT may have been made and its *)
(* answer lost.                                                             *)
(***************************************************************************)
EXTENDS Naturals, Sequences

CONSTANT Queries   \* what may be asked: forced read-only or not, and its statements

VARIABLES query, effect, answer

vars == <<query, effect, answer>>

Writes(asked) == \E i \in DOMAIN asked.text : asked.text[i] = "write"

\* It is read-only, and a statement writes before a COMMIT has ended that.
Refused(asked) ==
  /\ asked.readonly
  /\ \E i \in DOMAIN asked.text :
       asked.text[i] = "write" /\ \A j \in 1..i : asked.text[j] # "commit"

Init == query \in Queries /\ effect = FALSE /\ answer = "none"

Ask(asked) == query' = asked /\ effect' = FALSE /\ answer' = "none"

Commit ==
  /\ answer = "none" /\ Writes(query) /\ ~ Refused(query) /\ ~ effect
  /\ effect' = TRUE /\ UNCHANGED <<query, answer>>

Succeed ==
  /\ answer = "none" /\ ~ Refused(query) /\ effect = Writes(query)
  /\ answer' = "ok" /\ UNCHANGED <<query, effect>>

Fail == answer = "none" /\ answer' = "error" /\ UNCHANGED <<query, effect>>

Next == (\E asked \in Queries : Ask(asked)) \/ Commit \/ Succeed \/ Fail

Spec == Init /\ [][Next]_vars
=============================================================================
