---------------------------- MODULE MCReadOnlyQuery ----------------------------
(* Instances of ReadOnlyQuery for TLC.                                      *)
EXTENDS ReadOnlyQuery

\* Single statements, and texts whose COMMIT comes before, behind or between
\* what they write.
MCTexts ==
  {<<"read">>, <<"write">>, <<"read", "write">>, <<"commit", "write">>,
   <<"write", "commit">>, <<"write", "commit", "read">>,
   <<"read", "commit", "write">>, <<"write", "commit", "write">>}
=============================================================================
