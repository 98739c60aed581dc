----------------------------- MODULE SourceRegistry -----------------------------
(***************************************************************************)
(* What the `source` subcommands promise: a table from aliases to DSNs     *)
(* with one active alias, changed and read one whole command at a time.    *)
(* SourceConfig implements it for a user who waits for each change.        *)
(***************************************************************************)
CONSTANTS Names, Dsns, Blank, None

VARIABLES
  dsnOf,   \* the DSN of each registered alias
  active,  \* the active alias, or None
  answer   \* what a command reported as it ended, or None while others run

vars == <<dsnOf, active, answer>>

Registered == DOMAIN dsnOf

Answer(op, n, result) == answer' = [op |-> op, name |-> n, result |-> result]

Init ==
  /\ dsnOf = << >> /\ active = None
  /\ answer = None

Add(n, d) ==
  /\ Answer("add", n, "ok")
  /\ n \notin Registered
  /\ dsnOf' = [m \in Registered \cup {n} |-> IF m = n THEN d ELSE dsnOf[m]]
  /\ active' = IF active = None THEN n ELSE active

\* Removing the active alias activates one of the others, if there is one.
Remove(n) ==
  /\ Answer("rm", n, "ok")
  /\ n \in Registered
  /\ dsnOf' = [m \in Registered \ {n} |-> dsnOf[m]]
  /\ IF active # n THEN active' = active
     ELSE IF Registered = {n} THEN active' = None
     ELSE active' \in Registered \ {n}

Use(n, op) ==
  /\ Answer(op, n, "ok")
  /\ n \in Registered
  /\ active' = n /\ dsnOf' = dsnOf

\* A command that changes nothing, and what it says of the registry.
Refuse(op, n) ==
  /\ Answer(op, n, IF op = "activate" THEN "traceback" ELSE "error")
  /\ op = "add" => n \in Registered
  /\ op \in {"rm", "use", "activate"} => n \notin Registered
  /\ UNCHANGED <<dsnOf, active>>

Resolve ==
  /\ Answer("diag", None, IF active \in {None, Blank} THEN None ELSE dsnOf[active])
  /\ UNCHANGED <<dsnOf, active>>

\* A command that is given its DSN needs none of the table.
Bypass == Answer("diag", None, "given") /\ UNCHANGED <<dsnOf, active>>

\* The list, and the answers to its prompt: "already" may be out of date.
List ==
  /\ \/ \E result \in {"ok", "error"} : Answer("ls", None, result)
     \/ \E n \in Names : Answer("activate", n, "already")
  /\ UNCHANGED <<dsnOf, active>>

\* A process that is killed changes nothing, or takes the whole registry
\* with it when it was about to change it: never a part.
Killed ==
  \/ /\ \E op \in {"add", "rm", "use", "ls", "activate"}, n \in Names \cup {None} :
          Answer(op, n, "killed")
     /\ UNCHANGED <<dsnOf, active>>
  \/ /\ \E op \in {"add", "rm", "use", "activate"}, n \in Names :
          Answer(op, n, "killed")
     /\ dsnOf' = << >> /\ active' = None

\* Commands are under way, and none has ended.
Busy == answer' = None /\ UNCHANGED <<dsnOf, active>>

Next ==
  \/ \E n \in Names :
       \/ \E d \in Dsns : Add(n, d)
       \/ Remove(n)
       \/ \E op \in {"use", "activate"} : Use(n, op)
       \/ \E op \in {"add", "rm", "use", "activate"} : Refuse(op, n)
  \/ Resolve \/ Bypass \/ List \/ Killed \/ Busy

Spec == Init /\ [][Next]_vars
=============================================================================
