------------------------------- MODULE CliSession -------------------------------
(***************************************************************************)
(* One pgreport process: the click group callback, the connection it opens, *)
(* the queries of its commands, and the REPL, which runs the callback anew  *)
(* for every line.                                                         *)
(*                                                                         *)
(* A ConnectionManager owns one DbConnPool, a DbConnPool at most one open   *)
(* psycopg pool.  A pool is told apart by when it was made: pools[i] is     *)
(* that of the i-th ConnectionManager of the process.                       *)
(***************************************************************************)
EXTENDS Naturals, Sequences

CONSTANTS
  Uris,        \* database URIs
  None,        \* no URI
  MaxLines,    \* bound: connections one REPL makes
  MaxQueries   \* bound: queries of one command

ASSUME SessionAssumption ==
  None \notin Uris /\ MaxLines \in Nat \ {0} /\ MaxQueries \in Nat

VARIABLES
  active,   \* get_active_dsn(); other processes change it too
  pc,       \* where the process is
  mode,     \* a single command, or the REPL
  flag,     \* --database-uri
  pools,    \* the pools made so far: is the psycopg pool open, is it valid
  held,     \* which of them state.conn holds; 0 for none
  driver,   \* state.conn has a SqlDriver
  left,     \* queries the command under way still has to make
  result    \* how the last command ended

vars == <<active, pc, mode, flag, pools, held, driver, left, result>>

Pool == [uri : Uris, open : BOOLEAN, valid : BOOLEAN]

Results == {"none", "ok", "error", "usage", "no uri", "interrupted"}

\* The pool state.conn holds, after a change of it.
Holding(open, valid) ==
  pools' = [pools EXCEPT ![held] = [uri |-> @.uri, open |-> open, valid |-> valid]]

-----------------------------------------------------------------------------
Init ==
  /\ active \in Uris \cup {None}
  /\ pc = "exited" /\ mode = "command" /\ flag = None
  /\ pools = << >> /\ held = 0 /\ driver = FALSE /\ left = 0 /\ result = "none"

\* Another process, or a `source` subcommand, changes the active source.
Switch ==
  /\ active' \in Uris \cup {None}
  /\ UNCHANGED <<pc, mode, flag, pools, held, driver, left, result>>

\* A command is over: a line goes back to the prompt, a command line to the
\* end of the click context.
Return(outcome) ==
  /\ pc' = IF mode = "repl" THEN "prompt" ELSE "closing"
  /\ left' = 0 /\ result' = outcome

\* The group callback, for a command that queries: state.connect replaces
\* state.conn by a new ConnectionManager.
Connect(uri, made) ==
  /\ pc' = "connecting"
  /\ pools' = Append(made, [uri |-> uri, open |-> TRUE, valid |-> FALSE])
  /\ held' = Len(made) + 1 /\ driver' = FALSE
  /\ UNCHANGED result

Target(given) == IF given # None THEN given ELSE active

\* Variant: a process without a URI connects all the same.
LaunchUnchecked(kind, given) ==
  /\ pc = "exited"
  /\ mode' = kind /\ flag' = given
  /\ Connect(Target(given), << >>)
  /\ left' \in IF kind = "repl" THEN {0} ELSE 0..MaxQueries
  /\ UNCHANGED active

\* A process starts, for a command or for the REPL.
Launch(kind, given) ==
  /\ pc = "exited"
  /\ mode' = kind /\ flag' = given
  /\ IF Target(given) = None
     THEN /\ pc' = "closing" /\ result' = "no uri" /\ left' = 0
          /\ pools' = << >> /\ held' = 0 /\ driver' = FALSE
     ELSE /\ Connect(Target(given), << >>)
          /\ left' \in IF kind = "repl" THEN {0} ELSE 0..MaxQueries
  /\ UNCHANGED active

\* A process started for what needs no connection: a `source` subcommand, which
\* may change the active source, or a command that does not exist.
LaunchOffline ==
  /\ pc = "exited"
  /\ mode' = "command" /\ flag' = None
  /\ pools' = << >> /\ held' = 0 /\ driver' = FALSE /\ left' = 0
  /\ \/ result' \in {"ok", "error"} /\ active' \in Uris \cup {None}
     \/ result' = "usage" /\ UNCHANGED active
  /\ pc' = "closing"

\* A line of the REPL that queries: a new connection for each.  Lines are
\* parsed in the context of the process: whether they still see its
\* --database-uri is click's business (8.3 keeps it, 8.2 resets it).
Line ==
  /\ pc = "prompt"
  /\ \E given \in {flag, None} :
       IF Target(given) = None
       THEN Return("no uri") /\ UNCHANGED <<pools, held, driver>>
       ELSE /\ Len(pools) < MaxLines
            /\ Connect(Target(given), pools) /\ left' \in 0..MaxQueries
  /\ UNCHANGED <<active, mode, flag>>

\* A `source` subcommand, or a command that does not exist: state.conn stays.
LineOffline ==
  /\ pc = "prompt"
  /\ \/ result' \in {"ok", "error"} /\ active' \in Uris \cup {None}
     \/ result' = "usage" /\ UNCHANGED active
  /\ UNCHANGED <<pc, mode, flag, pools, held, driver, left>>

\* "quit", end of input or Ctrl-C at the prompt.
Quit ==
  /\ pc = "prompt" /\ pc' = "closing" /\ result' = "ok"
  /\ UNCHANGED <<active, mode, flag, pools, held, driver, left>>

-----------------------------------------------------------------------------
Connected ==
  /\ pc = "connecting"
  /\ Holding(TRUE, TRUE) /\ driver' = TRUE
  /\ pc' = IF mode = "repl" /\ Len(pools) = 1 THEN "prompt" ELSE "running"
  /\ left' = IF pc' = "prompt" THEN 0 ELSE left
  /\ UNCHANGED <<active, mode, flag, held, result>>

\* The first connection of the REPL is made before its first prompt: if it
\* fails, the process ends.
GiveUp ==
  IF mode = "repl" /\ Len(pools) = 1
  THEN pc' = "closing" /\ left' = 0 /\ result' = "error"
  ELSE Return("error")

\* Variant: a failed connection is reported, and the command runs on.
ConnectFailedGoesOn ==
  /\ pc = "connecting"
  /\ Holding(FALSE, FALSE)
  /\ pc' = "running" /\ UNCHANGED <<left, result>>
  /\ UNCHANGED <<active, mode, flag, held, driver>>

\* DbConnPool.connect closes its pool and raises.
ConnectFailed ==
  /\ pc = "connecting"
  /\ Holding(FALSE, FALSE) /\ GiveUp
  /\ UNCHANGED <<active, mode, flag, held, driver>>

\* Variant: the pool that timed out is let go of, but not closed.
ConnectTimedOutForgets ==
  /\ pc = "connecting"
  /\ held' = 0 /\ GiveUp
  /\ UNCHANGED <<active, mode, flag, pools, driver>>

\* wait_for cancels the attempt, which does not close its pool; the manager
\* does, and lets go of it.
ConnectTimedOut ==
  /\ pc = "connecting"
  /\ Holding(FALSE, FALSE) /\ held' = 0 /\ GiveUp
  /\ UNCHANGED <<active, mode, flag, driver>>

\* A query is over: the command goes on, some past errors too, or ends here.
Over == \/ left' = left - 1 /\ UNCHANGED <<pc, result>>
        \/ Return("error")

\* Variant: a query that meets a connection error is asked again.
QueryRetries ==
  /\ pc = "running" /\ left > 0
  /\ \/ Holding(TRUE, TRUE) /\ Over
     \/ Holding(TRUE, FALSE) /\ UNCHANGED <<pc, left, result>>
     \/ Holding(FALSE, FALSE) /\ UNCHANGED <<pc, left, result>>
  /\ UNCHANGED <<active, mode, flag, held, driver>>

\* execute_query.  On a pool marked invalid it reconnects first, which closes
\* the psycopg pool and opens another; a connection error marks it invalid.
Query ==
  /\ pc = "running" /\ left > 0
  /\ \/ Holding(TRUE, TRUE)
     \/ Holding(TRUE, FALSE)
     \/ ~ pools[held].valid /\ Holding(FALSE, FALSE)
  /\ Over
  /\ UNCHANGED <<active, mode, flag, held, driver>>

\* The command is through, or refuses its arguments, which click parses once
\* the callback has connected.
Done ==
  /\ pc = "running" /\ left = 0
  /\ Return("ok") \/ Return("error") \/ Return("usage")
  /\ UNCHANGED <<active, mode, flag, pools, held, driver>>

\* Ctrl-C while the event loop runs ends the REPL too: it is no Exception.
Interrupt ==
  /\ pc \in {"connecting", "running"}
  /\ pc' = "closing" /\ left' = 0 /\ result' = "interrupted"
  /\ UNCHANGED <<active, mode, flag, pools, held, driver>>

\* The click context closes: state.disconnect, once for every callback run.
Disconnect ==
  /\ pc = "closing" /\ pc' = "exited"
  /\ IF held = 0 THEN UNCHANGED <<pools, held, driver>>
     ELSE Holding(FALSE, FALSE) /\ held' = 0 /\ driver' = FALSE
  /\ UNCHANGED <<active, mode, flag, left, result>>

\* What happens without the user.
Step ==
  \/ Connected \/ ConnectFailed \/ ConnectTimedOut
  \/ Query \/ Done \/ Disconnect

Next ==
  \/ Step \/ Switch \/ Interrupt \/ Line \/ LineOffline \/ Quit \/ LaunchOffline
  \/ \E kind \in {"command", "repl"}, given \in Uris \cup {None} : Launch(kind, given)

Spec == Init /\ [][Next]_vars /\ WF_vars(Step)

-----------------------------------------------------------------------------
ControlOK ==
  /\ active \in Uris \cup {None} /\ flag \in Uris \cup {None}
  /\ pc \in {"exited", "connecting", "running", "prompt", "closing"}
  /\ mode \in {"command", "repl"} /\ driver \in BOOLEAN
  /\ left \in 0..MaxQueries /\ result \in Results

PoolsOK == pools \in Seq(Pool) /\ Len(pools) <= MaxLines /\ held \in 0..Len(pools)

\* Types of the state of the process, of state.conn and the pools it made.
TypeOK == ControlOK /\ PoolsOK

\* A process that ran one command has closed every psycopg pool it opened,
\* however its connection or its queries ended (cli, ctx.call_on_close).
ClosedAtExit ==
  mode = "command" /\ pc = "exited" => \A i \in DOMAIN pools : ~ pools[i].open

\* No command runs on a manager that has no driver or no pool: none ever meets
\* "Not connected. Call connect() first." (ConnectionManager.driver).
NeverNotConnected == pc = "running" => driver /\ held # 0

\* Every command ends, at the prompt or with its process, if its connection
\* and each of its queries do: none is asked again and again (execute_query).
InvocationEnds == pc \in {"connecting", "running", "closing"} ~> pc \in {"prompt", "exited"}
=============================================================================
