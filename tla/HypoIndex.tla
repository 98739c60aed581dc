------------------------------- MODULE HypoIndex -------------------------------
(***************************************************************************)
(* Plans with hypothetical indexes (HypoPG): the commands `explain`,       *)
(* `recommend-indexes` and `hypothetical-index`, query by query.           *)
(*                                                                         *)
(* A hypothetical index lives in the PostgreSQL backend that created it,   *)
(* and each query of the driver takes the next ready connection of its     *)
(* pool.  The pool may hold several connections, and is reopened after a   *)
(* connection error, so two queries of one command may ask two backends.   *)
(***************************************************************************)
EXTENDS Naturals, Sequences

CONSTANTS
  Specs,        \* index specifications: table, columns, access method
  BadMethod,    \* those whose access method create_index refuses
  Requests,     \* the sequences of specifications a command may be given
  None,         \* no plan yet
  MaxSessions   \* connections the pool opens; AsyncConnectionPool max_size

ASSUME HypoAssumption ==
  /\ BadMethod \subseteq Specs
  /\ Requests \subseteq Seq(Specs)
  /\ MaxSessions \in Nat \ {0}

VARIABLES
  sessions,  \* the ready connections, in the order the pool hands them out;
             \* << >> when the pool is closed or marked invalid
  cmd,       \* the command under way
  pc,        \* the query it runs next
  status,    \* _status_cache of the analyzer's HypoPGService
  todo,      \* specifications still to create, or candidates still to compare
  made,      \* the indexes created for the comparison under way
  before,    \* its plan without them
  after,     \* its plan with them
  told,      \* a hide has been reported done, and no unhide since
  strayed    \* an index of the comparison, or its plan with them, was asked of another
             \* backend than its plan without them

vars == <<sessions, cmd, pc, status, todo, made, before, after, told, strayed>>

-----------------------------------------------------------------------------
(* PostgreSQL backends, as psycopg_pool hands them out.                    *)

Index   == [oid : Nat, spec : Specs]

\* `planned` marks the backend that made the plan `before`.
Session == [next : Nat, made : SUBSET Index, hidden : BOOLEAN, planned : BOOLEAN]
Fresh   == [next |-> 1, made |-> {}, hidden |-> FALSE, planned |-> FALSE]

\* What the planner of a session goes by.
Plan(s) == [indexes |-> s.made, hidden |-> s.hidden]

\* A query on an invalid pool reconnects first, which opens a new pool.
Ready == IF sessions = << >> THEN <<Fresh>> ELSE sessions
Mine  == Head(Ready)

\* The query ran and left its session as s, at the back of the queue.
Answered(s) == sessions' = Append(Tail(Ready), s)

\* The query was that of the plan `before`.
AnsweredFirst ==
  LET others == [i \in DOMAIN Tail(Ready) |-> [Tail(Ready)[i] EXCEPT !.planned = FALSE]]
  IN  sessions' = Append(others, [Mine EXCEPT !.planned = TRUE])

\* The query was one that the comparison rests on.
AnsweredNext(s) == Answered(s) /\ strayed' = (strayed \/ ~ Mine.planned)

\* The query failed: rolled back, or with a connection error, or for want
\* of a connection, which leave the pool invalid.
Failed == sessions' \in {Append(Tail(Ready), Mine), << >>}

-----------------------------------------------------------------------------
Single == {"list", "drop", "reset", "hide", "unhide", "list_hidden"}

Commands ==
  [op : {"explain"}, specs : Requests]
    \cup [op : {"recommend"}, specs : Requests \ {<< >>}]
    \cup [op : {"explain_with_index", "create", "estimate_size"},
          specs : {<<s>> : s \in Specs}]
    \cup [op : Single \cup {"check", "recommend_untested"}, specs : {<< >>}]

\* The first query of each command; check_status asks "installed" first.  The
\* advisor reads the workload unless it is given queries, and gives up at once
\* on queries it finds no column in.
Entries(op) ==
  CASE op = "explain" -> {"before"}
    [] op \in {"recommend", "recommend_untested"} -> {"pgss", "installed", "ended"}
    [] OTHER -> {"installed"}

\* Where a command goes on once it knows HypoPG is installed.
Goal(command) ==
  CASE command.op \in {"explain", "create", "estimate_size"} -> "create"
    [] command.op \in {"recommend", "explain_with_index"} -> "before"
    [] command.op \in Single -> "ask"
    [] OTHER -> "ended"

\* The comparison under way is over.
Forget == made' = << >> /\ before' = None /\ after' = None /\ strayed' = FALSE

Init ==
  /\ sessions = << >> /\ pc = "idle" /\ status = "unknown" /\ told = FALSE /\ strayed = FALSE
  /\ cmd = [op |-> "check", specs |-> << >>] /\ todo = << >>
  /\ made = << >> /\ before = None /\ after = None

\* A command line, or a line of the REPL: a pool and an analyzer of its own.
Start(command) ==
  /\ pc = "idle"
  /\ sessions' = <<Fresh>>
  /\ cmd' = command /\ todo' = command.specs
  /\ pc' \in Entries(command.op) /\ status' = "unknown"
  /\ Forget /\ UNCHANGED told

\* Variant: the pool has no upper bound.
GrowUnbounded ==
  /\ pc # "idle" /\ sessions # << >> /\ Len(sessions) <= MaxSessions
  /\ sessions' = Append(sessions, Fresh)
  /\ UNCHANGED <<cmd, pc, status, todo, made, before, after, told, strayed>>

\* A worker of the pool adds a connection; the first getconn asks for it.
Grow ==
  /\ pc # "idle" /\ sessions # << >> /\ Len(sessions) < MaxSessions
  /\ sessions' = Append(sessions, Fresh)
  /\ UNCHANGED <<cmd, pc, status, todo, made, before, after, told, strayed>>

-----------------------------------------------------------------------------
(* check_status: whatever a query of it says or fails with, it ends in a   *)
(* status that the service keeps.                                          *)

Resolved(answer) ==
  /\ status' = answer
  /\ pc' = IF answer = "ready" THEN Goal(cmd) ELSE "ended"

Status(at) ==
  /\ pc = at
  /\ UNCHANGED <<cmd, todo, made, before, after, told, strayed>>

AskInstalled ==
  /\ Status("installed") /\ UNCHANGED status
  /\ \/ Answered(Mine) /\ pc' \in {"version", "available"}
     \/ Failed /\ pc' = "available"

AskVersion ==
  /\ Status("version")
  /\ \/ Answered(Mine) /\ Resolved("ready")
     \/ Failed /\ Resolved("missing")

AskAvailable ==
  /\ Status("available")
  /\ \/ Answered(Mine) /\ Resolved("missing")
     \/ /\ Answered(Mine) \/ Failed
        /\ pc' = "server" /\ UNCHANGED status

AskServer ==
  /\ Status("server")
  /\ Answered(Mine) \/ Failed
  /\ Resolved("missing")

\* analyze_workload: is pg_stat_statements there, and what does it hold?
AskStatements ==
  /\ Status("pgss") /\ UNCHANGED status
  /\ \/ Answered(Mine) /\ pc' \in {"workload", "ended"}
     \/ Failed /\ pc' = "ended"

AskWorkload ==
  /\ Status("workload") /\ UNCHANGED status
  /\ \/ Answered(Mine) /\ pc' \in {"installed", "ended"}
     \/ Failed /\ pc' = "ended"

-----------------------------------------------------------------------------
(* The comparison: `explain` for all its specifications at once, the others *)
(* for one candidate at a time.                                            *)

\* A comparison is over: analyze_queries goes on with its next candidate,
\* also after an exception; every other command is done.
NextCandidate ==
  /\ todo' = IF cmd.op = "recommend" THEN Tail(todo) ELSE << >>
  /\ pc' = IF cmd.op = "recommend" /\ Len(todo) > 1 THEN "before" ELSE "ended"
  /\ Forget
  /\ UNCHANGED <<cmd, status, told>>

ExplainBefore ==
  /\ pc = "before"
  /\ \/ /\ AnsweredFirst /\ before' = Plan(Mine) /\ strayed' = FALSE
        /\ pc' = IF cmd.op # "explain" THEN "create"
                 ELSE IF cmd.specs = << >> THEN "ended" ELSE "installed"
        /\ UNCHANGED <<cmd, status, todo, made, after, told>>
     \/ Failed /\ NextCandidate

\* Variants: explain leaves out the index it could not create; the advisor
\* tries its candidate again.
RaisedSkipsIndex ==
  IF cmd.op = "explain"
  THEN /\ todo' = Tail(todo) /\ pc' = IF Len(todo) > 1 THEN "create" ELSE "after"
       /\ UNCHANGED <<cmd, status, made, before, after, told, strayed>>
  ELSE NextCandidate

RaisedRetries ==
  /\ pc' = CASE cmd.op = "explain" -> "reset"
             [] cmd.op = "recommend" -> "before"
             [] OTHER -> "ended"
  /\ UNCHANGED <<cmd, status, todo, made, before, after, told, strayed>>

\* Where create_index leaves to when it raises: explain cleans up behind it.
Raised ==
  IF cmd.op = "explain"
  THEN pc' = "reset" /\ UNCHANGED <<cmd, status, todo, made, before, after, told, strayed>>
  ELSE NextCandidate

CreateIndex ==
  /\ pc = "create"
  /\ \/ /\ Head(todo) \notin BadMethod
        /\ LET index == [oid |-> Mine.next, spec |-> Head(todo)]
           IN  /\ AnsweredNext([Mine EXCEPT !.next = @ + 1, !.made = @ \cup {index}])
               /\ made' = Append(made, index)
        /\ pc' = "define"
        /\ UNCHANGED <<cmd, status, todo, before, after, told>>
     \/ Head(todo) \notin BadMethod /\ Failed /\ Raised
     \/ Head(todo) \in BadMethod /\ UNCHANGED sessions /\ Raised

\* get_index_definition: no matter what comes of it.
DefineIndex ==
  /\ pc = "define"
  /\ Answered(Mine) \/ Failed
  /\ pc' = "size"
  /\ UNCHANGED <<cmd, status, todo, made, before, after, told, strayed>>

\* get_index_size likewise; then explain creates its next index.
SizeIndex ==
  /\ pc = "size"
  /\ Answered(Mine) \/ Failed
  /\ todo' = IF cmd.op = "explain" THEN Tail(todo) ELSE todo
  /\ pc' = CASE cmd.op = "explain" /\ Len(todo) > 1 -> "create"
             [] cmd.op = "create" -> "ended"
             [] cmd.op = "estimate_size" -> "drop"
             [] OTHER -> "after"
  /\ UNCHANGED <<cmd, status, made, before, after, told, strayed>>

\* Variant: the index is dropped when the comparison went well only.
ExplainAfterUnlessFailed ==
  /\ pc = "after"
  /\ \/ /\ AnsweredNext(Mine) /\ after' = Plan(Mine)
        /\ pc' = IF cmd.op = "explain" THEN "reset" ELSE "drop"
        /\ UNCHANGED <<cmd, status, todo, made, before, told>>
     \/ Failed /\ NextCandidate

ExplainAfter ==
  /\ pc = "after"
  /\ \/ AnsweredNext(Mine) /\ after' = Plan(Mine)
     \/ Failed /\ UNCHANGED <<after, strayed>>
  /\ pc' = IF cmd.op = "explain" THEN "reset" ELSE "drop"
  /\ UNCHANGED <<cmd, status, todo, made, before, told>>

\* The finally of explain_with_hypothetical_index, and estimate_size.
DropIndex ==
  /\ pc = "drop"
  /\ \/ Answered([Mine EXCEPT !.made = {x \in @ : x.oid # made[1].oid}])
     \/ Failed
  /\ NextCandidate

\* The finally of explain.
Reset ==
  /\ pc = "reset"
  /\ Answered([Mine EXCEPT !.made = {}]) \/ Failed
  /\ pc' = "ended" /\ Forget /\ todo' = << >>
  /\ UNCHANGED <<cmd, status, told>>

\* The single query of the other actions.  The session is this command's own,
\* so there is nothing in it to list or drop: of these only a hide leaves
\* anything in it, and a hide of no index at all is answered too.
AskOnce ==
  /\ pc = "ask"
  /\ \/ /\ cmd.op = "hide" /\ told' = TRUE
        /\ Answered([Mine EXCEPT !.hidden = TRUE])
     \/ /\ cmd.op = "unhide" /\ told' = FALSE
        /\ Answered([Mine EXCEPT !.hidden = FALSE])
     \/ /\ cmd.op \notin {"hide", "unhide"} /\ UNCHANGED told
        /\ Answered(IF cmd.op = "reset" THEN [Mine EXCEPT !.made = {}] ELSE Mine)
     \/ (Failed \/ Answered(Mine)) /\ UNCHANGED told
  /\ pc' = "ended"
  /\ UNCHANGED <<cmd, status, todo, made, before, after, strayed>>

\* The command is done: its pool is closed, and its backends with it.
Close ==
  /\ pc = "ended"
  /\ sessions' = << >> /\ pc' = "idle"
  /\ UNCHANGED <<cmd, status, todo, made, before, after, told, strayed>>

Step ==
  \/ AskInstalled \/ AskVersion \/ AskAvailable \/ AskServer
  \/ AskStatements \/ AskWorkload
  \/ ExplainBefore \/ CreateIndex \/ DefineIndex \/ SizeIndex \/ ExplainAfter
  \/ DropIndex \/ Reset \/ AskOnce \/ Close

Next == Step \/ Grow \/ \E command \in Commands : Start(command)

Spec == Init /\ [][Next]_vars /\ WF_vars(Step)

\* No connection is lost between the two plans of a comparison.
Comparing == {"create", "define", "size", "after"}

SteadyNext == Next /\ (pc' \in Comparing => sessions' # << >>)

SteadySpec == Init /\ [][SteadyNext]_vars

-----------------------------------------------------------------------------
Plans == [indexes : SUBSET Index, hidden : BOOLEAN]

Pcs == Comparing \cup
  {"idle", "before", "installed", "version", "available", "server", "pgss",
   "workload", "drop", "reset", "ask", "ended"}

\* Types of the state: queues of sessions, a command and what it has gathered.
TypeOK ==
  /\ sessions \in Seq(Session) /\ Len(sessions) <= MaxSessions
  /\ cmd \in Commands /\ pc \in Pcs
  /\ status \in {"unknown", "ready", "missing"}
  /\ todo \in Seq(Specs) /\ made \in Seq(Index)
  /\ before \in Plans \cup {None} /\ after \in Plans \cup {None}
  /\ told \in BOOLEAN /\ strayed \in BOOLEAN

\* The specifications the comparison under way is about.
Asked == IF cmd.op = "explain" THEN cmd.specs ELSE <<todo[1]>>

\* The two plans of a report differ by the indexes asked for and by nothing
\* else: the later one was made with each of them, whatever else was left
\* in the backend (explain, explain_with_hypothetical_index).
Isolated ==
  after # None =>
    /\ [i \in DOMAIN made |-> made[i].spec] = Asked
    /\ after.indexes = before.indexes \cup {made[i] : i \in DOMAIN made}
    /\ \A i \in DOMAIN made : made[i] \notin before.indexes
    /\ after.hidden = before.hidden

\* Whatever the size of the pool, and whichever connections are lost, a report whose plans
\* and indexes were all asked of one backend is isolated: nothing but the way a pool hands
\* its connections out can mix two comparisons up.
IsolatedAtHome == ~ strayed => Isolated

\* No comparison that created an index is left without the query that is to
\* remove it, however the queries between them fail (the two `finally`s).
CleansUp ==
  [][made # << >> /\ made' = << >> => cmd.op = "create" \/ pc \in {"drop", "reset"}]_vars

\* Every command ends, whichever of its queries fail.
CommandsEnd == pc # "idle" ~> pc = "idle"

\* A plan made after hide_index was reported done ("Index is now hidden from
\* the query planner") is made without the hidden index.
HiddenStaysHidden == before # None => before.hidden = told
=============================================================================
