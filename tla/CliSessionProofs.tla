---------------------------- MODULE CliSessionProofs ----------------------------
(***************************************************************************)
(* What holds of a pgreport process for any databases, any length of its   *)
(* REPL and any number of queries.                                         *)
(*                                                                         *)
(* ClosedAtExit is not inductive: that the pool state.conn holds is the     *)
(* only one a single command may have open, and that it is held until the  *)
(* click context closes, is what the steps hand on (Custody).              *)
(***************************************************************************)
EXTENDS CliSession, SequenceTheorems, TLAPS

\* Which pool is whose: a command connects and runs on the pool it holds, a
\* single command has no other one open, and nothing is held at the end.
Custody ==
  /\ pc \in {"connecting", "running"} => held # 0
  /\ pc = "running" => driver
  /\ pc = "prompt" => mode = "repl"
  /\ pc = "exited" => held = 0
  /\ mode = "command" => \A i \in DOMAIN pools : pools[i].open => i = held

Inductive == TypeOK /\ Custody

LEMMA NoPools == << >> \in Seq(Pool) /\ Len(<< >>) = 0
BY EmptySeq

LEMMA Bounds == 0 \in 0..MaxQueries /\ 0 <= MaxLines /\ 1 <= MaxLines
BY SessionAssumption

LEMMA Outcomes ==
  \A r \in {"none", "ok", "error", "usage", "no uri", "interrupted"} : r \in Results
BY DEF Results

\* A change of the held pool changes no other pool, nor how many there are.
LEMMA HoldingChanges ==
  ASSUME PoolsOK, held # 0,
         NEW open \in BOOLEAN, NEW valid \in BOOLEAN, Holding(open, valid)
  PROVE  /\ pools' \in Seq(Pool) /\ Len(pools') = Len(pools)
         /\ DOMAIN pools' = DOMAIN pools
         /\ pools'[held].open = open
         /\ \A i \in DOMAIN pools : i # held => pools'[i] = pools[i]
<1> DEFINE new == [uri |-> pools[held].uri, open |-> open, valid |-> valid]
<1>1. held \in 1..Len(pools) /\ pools[held] \in Pool
  BY DEF PoolsOK
<1>2. pools' = [pools EXCEPT ![held] = new]
  BY DEF Holding
<1>3. new \in Pool /\ new.open = open
  BY <1>1 DEF Pool
<1> HIDE DEF new
<1> QED BY <1>1, <1>2, <1>3 DEF PoolsOK

\* A connection, the first of a process or one more, is held and is the last.
LEMMA Connecting ==
  ASSUME NEW uri \in Uris, NEW made \in Seq(Pool), Connect(uri, made)
  PROVE  /\ pc' = "connecting" /\ driver' = FALSE
         /\ pools' \in Seq(Pool) /\ Len(pools') = Len(made) + 1
         /\ held' = Len(made) + 1
<1> DEFINE new == [uri |-> uri, open |-> TRUE, valid |-> FALSE]
<1>1. new \in Pool
  BY DEF Pool
<1> HIDE DEF new
<1>2. pools' = Append(made, new)
  BY DEF Connect, new
<1> QED BY <1>1, <1>2, AppendProperties DEF Connect

\* A target that is not None is a URI.
LEMMA TargetIsUri ==
  ASSUME TypeOK, NEW given \in Uris \cup {None}, Target(given) # None
  PROVE  Target(given) \in Uris
BY DEF Target, TypeOK, ControlOK

LEMMA InitInductive == Init => Inductive
<1> SUFFICES ASSUME Init PROVE Inductive
  OBVIOUS
<1>1. ControlOK
  BY Bounds, Outcomes DEF Init, ControlOK
<1>2. PoolsOK
  BY NoPools, Bounds DEF Init, PoolsOK
<1>3. Custody
  BY DEF Init, Custody
<1> QED BY <1>1, <1>2, <1>3 DEF Inductive, TypeOK

\* A process that starts has no pool but the one it connects.
LEMMA LaunchInductive ==
  ASSUME Inductive, NEW kind \in {"command", "repl"}, NEW given \in Uris \cup {None},
         Launch(kind, given)
  PROVE  Inductive'
<1>1. CASE Target(given) = None
  <2>1. /\ pc' = "closing" /\ left' = 0 /\ result' = "no uri" /\ mode' = kind
        /\ driver' = FALSE /\ flag' = given /\ active' = active
    BY <1>1 DEF Launch
  <2>2. pools' = << >> /\ held' = 0
    BY <1>1 DEF Launch
  <2>3. ControlOK'
    BY <2>1, Bounds, Outcomes DEF ControlOK, Inductive, TypeOK
  <2>4. PoolsOK'
    BY <2>2, NoPools, Bounds DEF PoolsOK
  <2>5. Custody'
    <3>1. DOMAIN pools' = {}
      BY <2>2
    <3> QED BY <2>1, <2>2, <3>1 DEF Custody
  <2> QED BY <2>3, <2>4, <2>5 DEF Inductive, TypeOK
<1>2. CASE Target(given) # None
  <2>1. << >> \in Seq(Pool) /\ Len(<< >>) = 0
    BY EmptySeq
  <2>2. Target(given) \in Uris /\ Connect(Target(given), << >>)
    BY <1>2, TargetIsUri DEF Launch, Inductive
  <2>3. /\ pc' = "connecting" /\ driver' = FALSE /\ held' = 1
        /\ pools' \in Seq(Pool) /\ Len(pools') = 1
    <3> DEFINE made == << >>
    <3>1. made \in Seq(Pool) /\ Len(made) = 0 /\ Connect(Target(given), made)
      BY <2>1, <2>2
    <3> HIDE DEF made
    <3>2. /\ pc' = "connecting" /\ driver' = FALSE /\ pools' \in Seq(Pool)
          /\ Len(pools') = Len(made) + 1 /\ held' = Len(made) + 1
      BY <2>2, <3>1, Connecting
    <3> QED BY <3>1, <3>2
  <2>4. UNCHANGED <<active, result>> /\ mode' = kind /\ flag' = given /\ left' \in 0..MaxQueries
    BY <1>2, SessionAssumption DEF Launch, Connect
  <2>5. TypeOK'
    <3>1. ControlOK'
      BY <2>3, <2>4 DEF ControlOK, Inductive, TypeOK
    <3>2. PoolsOK'
      BY <2>3, Bounds DEF PoolsOK
    <3> QED BY <3>1, <3>2 DEF TypeOK
  <2>6. Custody'
    BY <2>3, <2>4 DEF Custody
  <2> QED BY <2>5, <2>6 DEF Inductive
<1> QED BY <1>1, <1>2

\* A line of the REPL leaves the pools of the lines before it as they are.
LEMMA LineInductive == ASSUME Inductive, Line PROVE Inductive'
<1> USE DEF Inductive, TypeOK
<1>1. PICK given \in {flag, None} :
        IF Target(given) = None
        THEN Return("no uri") /\ UNCHANGED <<pools, held, driver>>
        ELSE /\ Len(pools) < MaxLines
             /\ Connect(Target(given), pools) /\ left' \in 0..MaxQueries
  BY DEF Line
<1>2. pc = "prompt" /\ mode = "repl" /\ UNCHANGED <<active, mode, flag>>
  BY DEF Line, Custody
<1>3. CASE Target(given) = None
  BY <1>1, <1>2, <1>3, Bounds, Outcomes DEF Return, ControlOK, PoolsOK, Custody
<1>4. CASE Target(given) # None
  <2>1. given \in Uris \cup {None} /\ pools \in Seq(Pool)
    BY DEF ControlOK, PoolsOK
  <2>2. Target(given) \in Uris /\ Connect(Target(given), pools)
    BY <1>1, <1>4, <2>1, TargetIsUri
  <2>3. /\ pc' = "connecting" /\ driver' = FALSE /\ held' = Len(pools) + 1
        /\ pools' \in Seq(Pool) /\ Len(pools') = Len(pools) + 1
    BY <2>1, <2>2, Connecting
  <2>4. Len(pools) \in Nat /\ Len(pools) < MaxLines /\ left' \in 0..MaxQueries /\ result' = result
    BY <1>1, <1>4, <2>1 DEF Connect
  <2>5. TypeOK'
    <3>1. ControlOK'
      BY <1>2, <2>3, <2>4 DEF ControlOK
    <3>2. PoolsOK'
      BY <2>3, <2>4, SessionAssumption DEF PoolsOK
    <3> QED BY <3>1, <3>2
  <2>6. Custody'
    BY <1>2, <2>3, <2>4 DEF Custody
  <2> QED BY <2>5, <2>6
<1> QED BY <1>3, <1>4

\* The outcomes of a connection: a pool that is open is still held, and one
\* that is let go of is closed.
LEMMA OutcomeInductive ==
  ASSUME Inductive, Connected \/ ConnectFailed \/ ConnectTimedOut
  PROVE  Inductive'
<1> USE DEF Inductive, TypeOK
<1>1. pc = "connecting" /\ held # 0
  BY DEF Connected, ConnectFailed, ConnectTimedOut, Custody
<1>2. CASE Connected
  <2>1. Holding(TRUE, TRUE)
    BY <1>2 DEF Connected
  <2>2. /\ pools' \in Seq(Pool) /\ Len(pools') = Len(pools) /\ DOMAIN pools' = DOMAIN pools
        /\ \A i \in DOMAIN pools : i # held => pools'[i] = pools[i]
    BY <1>1, <2>1, HoldingChanges
  <2>3. TypeOK'
    BY <1>2, <2>2, Bounds DEF Connected, ControlOK, PoolsOK
  <2>4. Custody'
    BY <1>1, <1>2, <2>2 DEF Connected, Custody
  <2> QED BY <2>3, <2>4
<1>3. CASE ConnectFailed \/ ConnectTimedOut
  <2>1. Holding(FALSE, FALSE)
    BY <1>3 DEF ConnectFailed, ConnectTimedOut
  <2>2. /\ pools' \in Seq(Pool) /\ Len(pools') = Len(pools) /\ DOMAIN pools' = DOMAIN pools
        /\ pools'[held].open = FALSE
        /\ \A i \in DOMAIN pools : i # held => pools'[i] = pools[i]
    BY <1>1, <2>1, HoldingChanges
  <2>3. /\ left' = 0 /\ result' = "error" /\ held' \in {held, 0}
        /\ pc' \in {"prompt", "closing"} /\ (pc' = "prompt" => mode = "repl")
        /\ UNCHANGED <<active, mode, flag, driver>>
    BY <1>3 DEF ConnectFailed, ConnectTimedOut, GiveUp, Return, ControlOK
  <2>4. TypeOK'
    <3>1. ControlOK'
      BY <2>3, Bounds, Outcomes DEF ControlOK
    <3>2. PoolsOK'
      BY <2>2, <2>3 DEF PoolsOK
    <3> QED BY <3>1, <3>2
  <2>5. Custody'
    BY <1>1, <2>2, <2>3 DEF Custody
  <2> QED BY <2>4, <2>5
<1> QED BY <1>2, <1>3

\* A query closes or reopens the held pool, and no other.
LEMMA QueryInductive == ASSUME Inductive, Query PROVE Inductive'
<1> USE DEF Inductive, TypeOK
<1>1. pc = "running" /\ held # 0 /\ driver
  BY DEF Query, Custody
<1>2. PICK open \in BOOLEAN, valid \in BOOLEAN : Holding(open, valid)
  BY DEF Query
<1>3. /\ pools' \in Seq(Pool) /\ Len(pools') = Len(pools) /\ DOMAIN pools' = DOMAIN pools
      /\ \A i \in DOMAIN pools : i # held => pools'[i] = pools[i]
  BY <1>1, <1>2, HoldingChanges
<1>4. /\ left' \in 0..MaxQueries /\ result' \in Results
      /\ pc' \in {"running", "prompt", "closing"} /\ (pc' = "prompt" => mode = "repl")
      /\ UNCHANGED <<active, mode, flag, held, driver>>
  <2>1. left \in 1..MaxQueries /\ mode \in {"command", "repl"}
    BY DEF Query, ControlOK
  <2>2. CASE left' = left - 1 /\ UNCHANGED <<pc, result>>
    <3>1. left' \in 0..MaxQueries
      BY <2>1, <2>2, SessionAssumption
    <3> QED BY <1>1, <2>2, <3>1 DEF Query, ControlOK
  <2>3. CASE Return("error")
    BY <2>1, <2>3, Bounds, Outcomes DEF Query, Return
  <2> QED BY <2>2, <2>3 DEF Query, Over
<1>5. TypeOK'
  BY <1>3, <1>4 DEF ControlOK, PoolsOK
<1>6. Custody'
  BY <1>1, <1>3, <1>4 DEF Custody
<1> QED BY <1>5, <1>6

\* The context closes the held pool and lets go of it.
LEMMA DisconnectInductive == ASSUME Inductive, Disconnect PROVE Inductive'
<1> USE DEF Inductive, TypeOK
<1>1. CASE held = 0
  BY <1>1 DEF Disconnect, ControlOK, PoolsOK, Custody
<1>2. CASE held # 0
  <2>1. Holding(FALSE, FALSE) /\ held' = 0 /\ driver' = FALSE /\ pc' = "exited"
        /\ UNCHANGED <<active, mode, flag, left, result>>
    BY <1>2 DEF Disconnect
  <2>2. /\ pools' \in Seq(Pool) /\ Len(pools') = Len(pools) /\ DOMAIN pools' = DOMAIN pools
        /\ pools'[held].open = FALSE
        /\ \A i \in DOMAIN pools : i # held => pools'[i] = pools[i]
    BY <1>2, <2>1, HoldingChanges
  <2>3. TypeOK'
    <3>1. ControlOK'
      BY <2>1 DEF ControlOK
    <3>2. PoolsOK'
      BY <2>1, <2>2 DEF PoolsOK
    <3> QED BY <3>1, <3>2
  <2>4. Custody'
    BY <2>1, <2>2 DEF Custody
  <2> QED BY <2>3, <2>4
<1> QED BY <1>1, <1>2

\* Every step keeps the inductive invariant.
LEMMA NextInductive == Inductive /\ [Next]_vars => Inductive'
<1> SUFFICES ASSUME Inductive, [Next]_vars PROVE Inductive'
  OBVIOUS
<1>1. CASE UNCHANGED vars
  BY <1>1 DEF vars, Inductive, TypeOK, ControlOK, PoolsOK, Custody
<1>2. CASE Connected \/ ConnectFailed \/ ConnectTimedOut
  BY <1>2, OutcomeInductive
<1>3. CASE Query
  BY <1>3, QueryInductive
<1>4. CASE Disconnect
  BY <1>4, DisconnectInductive
<1>5. CASE Line
  BY <1>5, LineInductive
<1>6. CASE Done
  BY <1>6, Bounds, Outcomes DEF Done, Return, Inductive, TypeOK, ControlOK, PoolsOK, Custody
<1>7. CASE Switch
  BY <1>7 DEF Switch, Inductive, TypeOK, ControlOK, PoolsOK, Custody
<1>8. CASE Interrupt
  BY <1>8, Bounds, Outcomes DEF Interrupt, Inductive, TypeOK, ControlOK, PoolsOK, Custody
<1>9. CASE LineOffline
  BY <1>9, Outcomes DEF LineOffline, Inductive, TypeOK, ControlOK, PoolsOK, Custody
<1>10. CASE Quit
  BY <1>10, Outcomes DEF Quit, Inductive, TypeOK, ControlOK, PoolsOK, Custody
<1>11. CASE LaunchOffline
  <2>1. ControlOK'
    BY <1>11, Bounds, Outcomes DEF LaunchOffline, Inductive, TypeOK, ControlOK
  <2>2. pools' = << >> /\ held' = 0 /\ pc' = "closing"
    BY <1>11 DEF LaunchOffline
  <2>3. PoolsOK'
    BY <2>2, NoPools, Bounds DEF PoolsOK
  <2>4. Custody'
    BY <2>2, NoPools DEF Custody
  <2> QED BY <2>1, <2>3, <2>4 DEF Inductive, TypeOK
<1>12. ASSUME NEW kind \in {"command", "repl"}, NEW given \in Uris \cup {None},
              Launch(kind, given)
       PROVE  Inductive'
  BY <1>12, LaunchInductive
<1> QED
  BY <1>1, <1>2, <1>3, <1>4, <1>5, <1>6, <1>7, <1>8, <1>9, <1>10, <1>11, <1>12
  DEF Next, Step

LEMMA AlwaysInductive == Spec => []Inductive
BY InitInductive, NextInductive, PTL DEF Spec

\* A process keeps to the types of its state, whatever is asked of it.
THEOREM TypeCorrect == Spec => []TypeOK
<1>1. Inductive => TypeOK
  BY DEF Inductive
<1> QED BY <1>1, AlwaysInductive, PTL

\* A process that ran one command has closed every psycopg pool it opened, and
\* with it every backend it had: through timeouts, lost connections and Ctrl-C.
THEOREM AllClosedAtExit == Spec => []ClosedAtExit
<1>1. Inductive => ClosedAtExit
  BY DEF Inductive, TypeOK, PoolsOK, Custody, ClosedAtExit
<1> QED BY <1>1, AlwaysInductive, PTL

\* No command of a process, or line of its REPL, runs on a manager that is not
\* connected: state.conn.driver never raises.
THEOREM AlwaysConnected == Spec => []NeverNotConnected
<1>1. Inductive => NeverNotConnected
  BY DEF Inductive, Custody, NeverNotConnected
<1> QED BY <1>1, AlwaysInductive, PTL

-----------------------------------------------------------------------------
\* What a command still has to do: connect, its queries, and the end of it.
WorkLeft ==
  CASE pc = "connecting" -> MaxQueries + 3
    [] pc = "running"    -> left + 2
    [] pc = "closing"    -> 1
    [] OTHER             -> 0

LEMMA WorkIsNat == ASSUME Inductive PROVE WorkLeft \in Nat
BY SessionAssumption DEF WorkLeft, Inductive, TypeOK, ControlOK

LEMMA StepLeavesLess == ASSUME Inductive, Step PROVE WorkLeft' < WorkLeft
<1>1. left \in Nat /\ left <= MaxQueries /\ MaxQueries \in Nat
  BY SessionAssumption DEF Inductive, TypeOK, ControlOK
<1>2. CASE Connected
  <2>1. pc = "connecting" /\ \/ pc' = "prompt"
                             \/ pc' = "running" /\ left' = left
    BY <1>2 DEF Connected
  <2> QED BY <1>1, <2>1 DEF WorkLeft
<1>3. CASE ConnectFailed \/ ConnectTimedOut
  <2>1. pc = "connecting" /\ pc' \in {"prompt", "closing"}
    BY <1>3 DEF ConnectFailed, ConnectTimedOut, GiveUp, Return
  <2> QED BY <1>1, <2>1 DEF WorkLeft
<1>4. CASE Query
  <2>1. /\ pc = "running" /\ left > 0
        /\ pc' \in {"prompt", "closing"} \/ (pc' = "running" /\ left' = left - 1)
    BY <1>4 DEF Query, Over, Return
  <2> QED BY <1>1, <2>1 DEF WorkLeft
<1>5. CASE Done
  <2>1. pc = "running" /\ pc' \in {"prompt", "closing"}
    BY <1>5 DEF Done, Return
  <2> QED BY <1>1, <2>1 DEF WorkLeft
<1>6. CASE Disconnect
  BY <1>6 DEF Disconnect, WorkLeft
<1> QED BY <1>2, <1>3, <1>4, <1>5, <1>6 DEF Step

\* Every step of a command leaves less for it to do, and nothing leaves it more: no
\* timeout and no connection error, not even the reconnection in execute_query,
\* makes it connect or ask again what it asked.
THEOREM CommandWindsDown ==
  Spec => /\ [](WorkLeft \in Nat)
          /\ [][/\ Step => WorkLeft' < WorkLeft
                /\ pc \in {"connecting", "running", "closing"} => WorkLeft' <= WorkLeft]_vars
<1>1. Inductive => WorkLeft \in Nat
  BY WorkIsNat
<1>2. ASSUME Inductive, Next, pc \in {"connecting", "running", "closing"}
      PROVE  WorkLeft' <= WorkLeft
  <2>1. left \in Nat /\ MaxQueries \in Nat /\ WorkLeft \in Nat
    BY <1>2, SessionAssumption, WorkIsNat DEF Inductive, TypeOK, ControlOK
  <2>2. CASE Step
    <3>1. WorkLeft' < WorkLeft
      BY <1>2, <2>2, StepLeavesLess
    <3>2. WorkLeft' \in Int
      BY <1>2, <2>2, NextInductive, SessionAssumption
         DEF Next, WorkLeft, Inductive, TypeOK, ControlOK
    <3> QED BY <2>1, <3>1, <3>2
  <2>3. CASE Switch
    BY <2>1, <2>3 DEF Switch, WorkLeft
  <2>4. CASE Interrupt
    BY <2>1, <2>4 DEF Interrupt, WorkLeft
  <2> QED BY <1>2, <2>2, <2>3, <2>4 DEF Next, Line, LineOffline, Quit, LaunchOffline, Launch
<1>3. Inductive /\ [Next]_vars =>
        [/\ Step => WorkLeft' < WorkLeft
         /\ pc \in {"connecting", "running", "closing"} => WorkLeft' <= WorkLeft]_vars
  BY <1>2, StepLeavesLess
<1> QED BY <1>1, <1>3, AlwaysInductive, PTL DEF Spec
=============================================================================
