------------------------------ MODULE ReadOnlyQuery ------------------------------
(***************************************************************************)
(* One process and the connections of its psycopg pool: execute_query and  *)
(* _execute_with_connection, statement by statement.                       *)
(*                                                                         *)
(* The server may fail any statement, BEGIN, COMMIT and ROLLBACK among      *)
(* them, with or without the connection, and may drop any connection at any *)
(* time; the process may be killed between any two statements.             *)
(*                                                                         *)
(* A query without parameters is sent as one message, and its text may hold *)
(* several statements.  One of them may be a COMMIT: that ends the           *)
(* transaction of _execute_with_connection, and the server runs the rest of *)
(* the text in a transaction that it commits itself at the end.            *)
(***************************************************************************)
EXTENDS Naturals, Sequences

CONSTANTS
  Conns,   \* connections of the pool, max_size of them
  None,    \* no connection
  Texts    \* what queries say: statements that read, write or COMMIT

ASSUME ConnsAssumption == Conns # {} /\ None \notin Conns

ASSUME TextsAssumption == Texts \subseteq Seq({"read", "write", "commit"}) \ {<< >>}

\* force_readonly, and the statements of the text.
Queries == [readonly : BOOLEAN, text : Texts]

VARIABLES
  conn,     \* each connection: its transaction, or lost, or not there
  free,     \* the connections that are in the pool
  valid,    \* DbConnPool has a pool, and has it marked valid
  held,     \* the connection of the `async with`, or None
  pc,       \* the next statement
  query,    \* what is asked
  made,     \* how many statements of the text the server has made
  started,  \* transaction_started
  raised,   \* the exception under way
  effect,   \* the query has changed the database for good
  answer    \* what the caller got

vars == <<conn, free, valid, held, pc, query, made, started, raised, effect, answer>>

\* A transaction that is written in has something to commit; "bare" is that of a
\* text behind its own COMMIT, which the server ends with the text.
Statuses == {"none", "idle", "readonly", "readwrite", "written", "bare",
             "bare written", "failed", "lost"}

Bare == conn[held] \in {"bare", "bare written"}

Becomes(status) == conn' = [conn EXCEPT ![held] = status]

\* A statement raises, and leaves the connection in this status.  Losing the
\* connection is an OperationalError, and so are some errors of statements.
Raises(status, kind) ==
  Becomes(status) /\ raised' = kind /\ pc' = "rollback" /\ UNCHANGED started

Kinds == {"error", "operational"}

\* A statement is answered by an error, or not at all.
FailsIn(statuses) ==
  conn[held] # "lost" /\ \E status \in statuses, kind \in Kinds : Raises(status, kind)

Loses == Raises("lost", "operational")

-----------------------------------------------------------------------------
Gone == [c \in Conns |-> "none"]

Init ==
  /\ conn = Gone /\ free = {} /\ valid = FALSE /\ held = None
  /\ pc = "ready" /\ query \in Queries /\ made = 0 /\ started = FALSE /\ raised = "no"
  /\ effect = FALSE /\ answer = "none"

\* execute_query, entered by an analyzer.
Ask(asked) ==
  /\ pc = "ready"
  /\ query' = asked /\ made' = 0 /\ effect' = FALSE /\ answer' = "none"
  /\ started' = FALSE /\ raised' = "no"
  /\ pc' = IF valid THEN "waiting" ELSE "reconnecting"
  /\ UNCHANGED <<conn, free, valid, held>>

\* Variant: the old pool is forgotten, not closed.
ReconnectForgets ==
  /\ pc = "reconnecting"
  /\ \E c \in Conns : conn' = [conn EXCEPT ![c] = "idle"] /\ free' = {c}
  /\ valid' = TRUE /\ pc' = "waiting"
  /\ UNCHANGED <<held, query, made, started, raised, effect, answer>>

\* DbConnPool.reconnect: the old pool is closed, a new one opened and tried.
Reconnect ==
  /\ pc = "reconnecting"
  /\ \/ \E c \in Conns :
          /\ conn' = [Gone EXCEPT ![c] = "idle"] /\ free' = {c}
          /\ valid' = TRUE /\ pc' = "waiting" /\ UNCHANGED answer
     \/ /\ conn' = Gone /\ free' = {}
        /\ valid' = FALSE /\ pc' = "ready" /\ answer' = "error"
  /\ UNCHANGED <<held, query, made, started, raised, effect>>

\* pool.connection(): psycopg hands out a connection without looking at it.
CheckOut ==
  /\ pc = "waiting"
  /\ \E c \in free : held' = c /\ free' = free \ {c}
  /\ pc' = IF query.readonly THEN "begin" ELSE "execute"
  /\ UNCHANGED <<conn, valid, query, made, started, raised, effect, answer>>

\* PoolTimeout: no connection came within 30 seconds.
TimeOut ==
  /\ pc = "waiting" /\ free = {}
  /\ valid' = FALSE /\ pc' = "ready" /\ answer' = "error"
  /\ UNCHANGED <<conn, free, held, query, made, started, raised, effect>>

\* Variant: the transaction is not made read-only.
BeginReadWrite ==
  /\ pc = "begin"
  /\ \/ /\ conn[held] = "idle" /\ Becomes("readwrite")
        /\ started' = TRUE /\ pc' = "execute" /\ UNCHANGED raised
     \/ FailsIn({"idle", "failed"})
     \/ Loses
  /\ UNCHANGED <<free, valid, held, query, made, effect, answer>>

\* BEGIN TRANSACTION READ ONLY.  psycopg opens a transaction before it sends it:
\* an error of the one leaves no transaction, an error of the other a failed one.
Begin ==
  /\ pc = "begin"
  /\ \/ /\ conn[held] = "idle" /\ Becomes("readonly")
        /\ started' = TRUE /\ pc' = "execute" /\ UNCHANGED raised
     \/ FailsIn({"idle", "failed"})
     \/ Loses
  /\ UNCHANGED <<free, valid, held, query, made, effect, answer>>

\* The transaction after a statement of the text, if the server makes it.
After(statement) ==
  IF statement = "commit" THEN "bare"
  ELSE IF statement = "write" THEN IF Bare THEN "bare written" ELSE "written"
  ELSE IF conn[held] = "idle" THEN "readwrite"
  ELSE conn[held]

\* The transaction after an error of a statement.  Where there is none yet psycopg
\* opens one first, and that may fail; a COMMIT that fails may have ended it.
AfterError(statement) ==
  IF Bare THEN {"idle"}
  ELSE IF conn[held] = "idle" \/ statement = "commit" THEN {"idle", "failed"}
  ELSE {"failed"}

\* The server makes the next statement of the text.  In a read-only transaction
\* it refuses to write.  (It may get further before the process hears that the
\* connection is lost, or is killed: then that step comes later.)
Execute ==
  /\ pc = "execute" /\ made < Len(query.text)
  /\ LET statement == query.text[made + 1]
     IN  \/ /\ conn[held] # "lost" /\ (conn[held] = "readonly" => statement # "write")
            /\ Becomes(After(statement)) /\ made' = made + 1
            /\ effect' = (effect \/ (statement = "commit"
                                       /\ conn[held] \in {"written", "bare written"}))
            /\ UNCHANGED <<pc, started, raised>>
         \/ /\ FailsIn(AfterError(statement)) \/ Loses
            /\ UNCHANGED <<made, effect>>
  /\ UNCHANGED <<free, valid, held, query, answer>>

\* The end of the text, where the server commits what it opened itself.
EndText ==
  /\ pc = "execute" /\ made = Len(query.text)
  /\ \/ /\ conn[held] # "lost" /\ Becomes(IF Bare THEN "idle" ELSE conn[held])
        /\ effect' = (effect \/ conn[held] = "bare written")
        /\ pc' = "finish" /\ UNCHANGED <<started, raised>>
     \/ Bare /\ FailsIn({"idle"}) /\ UNCHANGED effect
     \/ Loses /\ UNCHANGED effect
  /\ UNCHANGED <<free, valid, held, query, made, answer>>

\* There is something to commit, and it is about to be.
InCommit == ~ query.readonly /\ conn[held] = "written"

\* Variant: a statement that has no rows returns before the ROLLBACK.
FinishForgets ==
  /\ pc = "finish"
  /\ \/ started /\ Becomes("idle") /\ started' = FALSE /\ UNCHANGED effect
     \/ started /\ UNCHANGED <<conn, started, effect>>
     \/ ~ query.readonly /\ Becomes("idle") /\ UNCHANGED started
        /\ effect' = (effect \/ InCommit)
  /\ pc' = "leave" /\ UNCHANGED raised
  /\ UNCHANGED <<free, valid, held, query, made, answer>>

\* ROLLBACK, or COMMIT.  A connection that is lost at COMMIT may have made it.
Finish ==
  /\ pc = "finish"
  /\ \/ /\ query.readonly /\ started
        /\ Becomes("idle") /\ started' = FALSE /\ pc' = "leave"
        /\ UNCHANGED <<raised, effect>>
     \/ /\ ~ query.readonly
        /\ Becomes("idle") /\ effect' = (effect \/ InCommit) /\ pc' = "leave"
        /\ UNCHANGED <<started, raised>>
     \/ FailsIn({"idle", "failed"}) /\ UNCHANGED effect
     \/ Loses /\ effect' \in {effect, effect \/ InCommit}
  /\ UNCHANGED <<free, valid, held, query, made, answer>>

\* The except block: connection.rollback(), whose own error is only logged.  It
\* is not called for an exception of the BEGIN, nor without one.
Rollback ==
  /\ pc = "rollback" /\ pc' = "leave"
  /\ IF started
     THEN \E status \in {"idle", conn[held], "lost"} :
            (conn[held] = "lost" => status = "lost") /\ Becomes(status)
     ELSE UNCHANGED conn
  /\ UNCHANGED <<free, valid, held, query, made, started, raised, effect, answer>>

\* Variant: every exception is taken for an error of the statement.
LeaveUnmarked ==
  /\ pc = "leave" /\ pc' = "ready" /\ held' = None
  /\ Becomes(IF conn[held] = "lost" THEN "none" ELSE "idle")
  /\ free' = IF conn[held] = "lost" THEN free ELSE free \cup {held}
  /\ effect' = (effect \/ (raised = "no" /\ conn[held] = "written"))
  /\ answer' = IF raised = "no" THEN "ok" ELSE "error"
  /\ UNCHANGED <<valid, query, made, started, raised>>

\* Variant: a query that lost its connection is asked again.
LeaveRetries ==
  /\ pc = "leave" /\ held' = None
  /\ pc' = IF raised = "operational" THEN "reconnecting" ELSE "ready"
  /\ Becomes(IF conn[held] = "lost" THEN "none" ELSE "idle")
  /\ free' = IF conn[held] = "lost" THEN free ELSE free \cup {held}
  /\ effect' = (effect \/ (raised = "no" /\ conn[held] = "written"))
  /\ answer' = IF raised = "no" THEN "ok" ELSE "error"
  /\ UNCHANGED <<valid, query, made, started, raised>>

\* The end of the `async with`: psycopg commits, or rolls back after an exception,
\* what is still open, and the pool drops a connection that is lost.  An
\* exception about the connection marks the pool invalid.
Leave ==
  /\ pc = "leave" /\ pc' = "ready" /\ held' = None
  /\ \E lost \in {conn[held] = "lost", conn[held] # "idle"} :
       /\ Becomes(IF lost THEN "none" ELSE "idle")
       /\ free' = IF lost THEN free ELSE free \cup {held}
  /\ effect' = (effect \/ (raised = "no" /\ conn[held] = "written"))
  /\ valid' = (valid /\ raised # "operational")
  /\ answer' = IF raised = "no" THEN "ok" ELSE "error"
  /\ UNCHANGED <<query, made, started, raised>>

-----------------------------------------------------------------------------
\* The server drops a connection that is in the pool.
Drop ==
  /\ \E c \in free : conn[c] = "idle" /\ conn' = [conn EXCEPT ![c] = "lost"]
  /\ UNCHANGED <<free, valid, held, pc, query, made, started, raised, effect, answer>>

\* A worker of the pool adds a connection.
Grow ==
  /\ \E c \in Conns :
       /\ conn[c] = "none" /\ conn' = [conn EXCEPT ![c] = "idle"]
       /\ free' = free \cup {c}
  /\ valid
  /\ UNCHANGED <<valid, held, pc, query, made, started, raised, effect, answer>>

\* The process is killed, and another one starts: the server rolls back what it
\* finds open behind the last statement it was sent.
Kill ==
  /\ conn' = Gone /\ free' = {} /\ valid' = FALSE /\ held' = None /\ pc' = "ready"
  /\ UNCHANGED <<query, made, started, raised, effect, answer>>

Step ==
  \/ Reconnect \/ CheckOut \/ TimeOut \/ Begin \/ Execute \/ EndText \/ Finish
  \/ Rollback \/ Leave

Next == (\E asked \in Queries : Ask(asked)) \/ Step \/ Drop \/ Grow \/ Kill

Spec == Init /\ [][Next]_vars /\ WF_vars(Step)

-----------------------------------------------------------------------------
TypesOK ==
  /\ conn \in [Conns -> Statuses] /\ free \subseteq Conns /\ valid \in BOOLEAN
  /\ held \in Conns \cup {None} /\ query \in Queries
  /\ pc \in {"ready", "reconnecting", "waiting", "begin", "execute", "finish",
             "rollback", "leave"}
  /\ made \in 0..Len(query.text)
  /\ started \in BOOLEAN /\ raised \in {"no"} \cup Kinds
  /\ effect \in BOOLEAN /\ answer \in {"none", "ok", "error"}

Holding == pc \in {"begin", "execute", "finish", "rollback", "leave"}

\* Every connection there is, is in the pool or with the query under way.
CustodyOK ==
  /\ Holding <=> held # None
  /\ held \notin free
  /\ \A c \in Conns : conn[c] # "none" <=> c \in free \/ c = held

\* Types, and the custody of connections: none is forgotten at a reconnection.
TypeOK == TypesOK /\ CustodyOK

\* psycopg commits what is open at the end of `async with`, unless an exception
\* leaves it.  _execute_with_connection leaves nothing there that could be
\* committed: it has ended the transaction, or lost the connection, or an exception
\* is under way from a transaction that failed, which psycopg rolls back.
NothingToCommit ==
  pc = "leave" => \/ conn[held] \in {"idle", "lost"}
                  \/ raised # "no" /\ conn[held] = "failed"

\* A query that failed for its connection is the only one to do so: the next gets
\* none of the same pool, whose other connections are likely to be lost as well.
ReconnectsAfterLoss ==
  [][pc = "ready" /\ raised = "operational" => pc' # "waiting"]_vars

Promise == INSTANCE QueryPromise

\* execute_query keeps its promise: what is forced read-only is refused where it
\* writes, and leaves nothing behind unless its own text ends the transaction
\* before it writes; an answer says that the effect is there.
KeepsPromise == Promise!Spec

\* Every query is answered, whatever the server does.
QueryEnds == pc # "ready" ~> pc = "ready"
=============================================================================
