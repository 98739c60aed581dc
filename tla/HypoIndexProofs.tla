---------------------------- MODULE HypoIndexProofs ----------------------------
(***************************************************************************)
(* What holds of the commands that use HypoPG, for any pool and whatever    *)
(* fails or is lost: what is created is sent for removal, commands wind     *)
(* down, and a comparison that was all asked of one backend is isolated.    *)
(***************************************************************************)
EXTENDS HypoIndex, SequenceTheorems, TLAPS

-----------------------------------------------------------------------------
(* Queues of sessions.                                                      *)

SessionsOK == sessions \in Seq(Session) /\ Len(sessions) <= MaxSessions

LEMMA ReadyType ==
  ASSUME SessionsOK
  PROVE  /\ Ready \in Seq(Session) /\ Ready # << >> /\ Len(Ready) <= MaxSessions
         /\ Mine \in Session
<1>1. Fresh \in Session
  BY DEF Fresh, Session
<1>2. <<Fresh>> \in Seq(Session) /\ Len(<<Fresh>>) = 1 /\ <<Fresh>> # << >>
  BY <1>1
<1>3. Ready \in Seq(Session) /\ Ready # << >> /\ Len(Ready) <= MaxSessions
  BY <1>2, HypoAssumption DEF SessionsOK, Ready
<1> QED
  BY <1>3 DEF Mine

LEMMA AnsweredType ==
  ASSUME SessionsOK, NEW s \in Session, Answered(s)
  PROVE  SessionsOK'
<1>1. Ready \in Seq(Session) /\ Ready # << >> /\ Len(Ready) <= MaxSessions
  BY ReadyType
<1>2. Tail(Ready) \in Seq(Session) /\ Len(Tail(Ready)) = Len(Ready) - 1
  BY <1>1
<1>3. /\ Append(Tail(Ready), s) \in Seq(Session)
      /\ Len(Append(Tail(Ready), s)) = Len(Ready)
  BY <1>1, <1>2
<1> QED
  BY <1>1, <1>3 DEF SessionsOK, Answered

LEMMA AnsweredFirstType ==
  ASSUME SessionsOK, AnsweredFirst
  PROVE  SessionsOK'
<1>1. Ready \in Seq(Session) /\ Ready # << >> /\ Len(Ready) <= MaxSessions /\ Mine \in Session
  BY ReadyType
<1> DEFINE others == [i \in DOMAIN Tail(Ready) |-> [Tail(Ready)[i] EXCEPT !.planned = FALSE]]
           first == [Mine EXCEPT !.planned = TRUE]
<1>2. /\ Tail(Ready) \in Seq(Session) /\ Len(Tail(Ready)) = Len(Ready) - 1
      /\ DOMAIN Tail(Ready) = 1..(Len(Ready) - 1)
  BY <1>1
<1>3. first \in Session /\ \A i \in DOMAIN Tail(Ready) : others[i] \in Session
  <2>1. \A s \in Session, b \in BOOLEAN : [s EXCEPT !.planned = b] \in Session
    BY DEF Session
  <2>2. \A i \in DOMAIN Tail(Ready) : Tail(Ready)[i] \in Session
    BY <1>2
  <2> QED BY <1>1, <2>1, <2>2
<1>4. others \in Seq(Session) /\ Len(others) = Len(Ready) - 1
  BY <1>1, <1>2, <1>3
<1>5. sessions' = Append(others, first)
  BY DEF AnsweredFirst
<1> HIDE DEF others, first
<1> QED
  BY <1>1, <1>3, <1>4, <1>5 DEF SessionsOK

LEMMA FailedType ==
  ASSUME SessionsOK, Failed
  PROVE  SessionsOK'
<1>1. CASE Answered(Mine)
  BY <1>1, AnsweredType, ReadyType
<1>2. CASE sessions' = << >>
  BY <1>2, HypoAssumption DEF SessionsOK
<1> QED
  BY <1>1, <1>2 DEF Failed, Answered

LEMMA AskedType ==
  ASSUME SessionsOK, Answered(Mine) \/ Failed
  PROVE  SessionsOK'
  BY AnsweredType, FailedType, ReadyType

-----------------------------------------------------------------------------
(* What a step does to the rest of the state.                               *)

LEMMA CommandTypes ==
  ASSUME NEW c \in Commands
  PROVE  /\ c.specs \in Seq(Specs)
         /\ c.op \in {"explain", "recommend", "explain_with_index", "create",
                      "estimate_size", "check", "recommend_untested"} \cup Single
         /\ c.op \in {"recommend", "explain_with_index", "create", "estimate_size"}
              => c.specs # << >>
<1>1. CASE c \in [op : {"explain"}, specs : Requests]
  BY <1>1, HypoAssumption
<1>2. CASE c \in [op : {"recommend"}, specs : Requests \ {<< >>}]
  BY <1>2, HypoAssumption
<1>3. CASE c \in [op : {"explain_with_index", "create", "estimate_size"},
                  specs : {<<s>> : s \in Specs}]
  <2>1. PICK s \in Specs : c.specs = <<s>>
    BY <1>3
  <2>2. <<s>> \in Seq(Specs) /\ <<s>> # << >>
    OBVIOUS
  <2> QED
    BY <1>3, <2>1, <2>2
<1>4. CASE c \in [op : Single \cup {"check", "recommend_untested"}, specs : {<< >>}]
  <2>1. << >> \in Seq(Specs)
    OBVIOUS
  <2> QED
    BY <1>4, <2>1 DEF Single
<1> QED
  BY <1>1, <1>2, <1>3, <1>4 DEF Commands

LEMMA PlanType ==
  ASSUME NEW s \in Session
  PROVE  Plan(s) \in Plans
  BY DEF Plan, Session, Plans

-----------------------------------------------------------------------------
(* Types.  The invariant also says which command can be where, and that     *)
(* todo is not empty where it is taken apart.                               *)

Compared == {"explain", "recommend", "explain_with_index"}
Creating == Compared \cup {"create", "estimate_size"}
Asking == {"installed", "version", "available", "server", "pgss", "workload"}

DataOK ==
  /\ cmd \in Commands /\ pc \in Pcs
  /\ status \in {"unknown", "ready", "missing"}
  /\ todo \in Seq(Specs) /\ made \in Seq(Index)
  /\ before \in Plans \cup {None} /\ after \in Plans \cup {None}
  /\ told \in BOOLEAN /\ strayed \in BOOLEAN

Placed ==
  /\ pc \in Asking => todo # << >> \/ cmd.op \notin Creating
  /\ pc = "before" =>
       /\ cmd.op \in Compared
       /\ todo # << >> \/ (cmd.op = "explain" /\ cmd.specs = << >>)
  /\ pc \in {"create", "define", "size"} => cmd.op \in Creating /\ todo # << >>
  /\ pc = "after" => cmd.op \in Compared
  /\ pc = "drop" => cmd.op # "explain" /\ cmd.op \in Creating
  /\ pc \in {"after", "drop"} /\ cmd.op # "explain" => todo # << >>
  /\ pc = "reset" => cmd.op = "explain"

Typed == SessionsOK /\ DataOK /\ Placed

LEMMA NextCandidateTyped ==
  ASSUME DataOK, todo # << >> \/ cmd.op # "recommend", NextCandidate
  PROVE  DataOK' /\ Placed'
<1>1. CASE cmd.op = "recommend"
  <2>1. Tail(todo) \in Seq(Specs) /\ (Len(todo) > 1 => Tail(todo) # << >>)
    <3>1. todo \in Seq(Specs) /\ todo # << >>
      BY <1>1 DEF DataOK
    <3>2. Tail(todo) \in Seq(Specs) /\ Len(Tail(todo)) = Len(todo) - 1
      BY <3>1
    <3>3. Len(todo) > 1 => Len(Tail(todo)) # 0
      BY <3>1, <3>2
    <3>4. Tail(todo) = << >> => Len(Tail(todo)) = 0
      OBVIOUS
    <3> QED
      BY <3>2, <3>3, <3>4
  <2>2. << >> \in Seq(Index)
    OBVIOUS
  <2> QED
    BY <1>1, <2>1, <2>2
    DEF DataOK, Placed, NextCandidate, Forget, Pcs, Comparing, Asking, Creating, Compared
<1>2. CASE cmd.op # "recommend"
  <2>1. << >> \in Seq(Index) /\ << >> \in Seq(Specs)
    OBVIOUS
  <2> QED
    BY <1>2, <2>1
    DEF DataOK, Placed, NextCandidate, Forget, Pcs, Comparing, Asking, Creating, Compared
<1> QED
  BY <1>1, <1>2

LEMMA RaisedTyped ==
  ASSUME DataOK, todo # << >>, Raised
  PROVE  DataOK' /\ Placed'
<1>1. CASE cmd.op = "explain"
  BY <1>1 DEF Raised, DataOK, Placed, Pcs, Comparing, Asking, Creating, Compared
<1>2. CASE cmd.op # "explain"
  BY <1>2, NextCandidateTyped DEF Raised
<1> QED
  BY <1>1, <1>2

\* Starting a command and asking for its status.
LEMMA StartTyped ==
  ASSUME Typed, NEW c \in Commands, Start(c)
  PROVE  Typed'
<1>1. SessionsOK'
  <2>1. Fresh \in Session
    BY DEF Fresh, Session
  <2>2. <<Fresh>> \in Seq(Session) /\ Len(<<Fresh>>) = 1
    BY <2>1
  <2> QED
    BY <2>2, HypoAssumption DEF Start, SessionsOK
<1>2. c.specs \in Seq(Specs) /\ << >> \in Seq(Index)
  BY CommandTypes
<1>3. DataOK'
  BY <1>2 DEF Start, Entries, Forget, Typed, DataOK, Pcs, Comparing
<1>4. Placed'
  <2>1. /\ pc' \in Entries(c.op) /\ cmd' = c /\ todo' = c.specs
    BY DEF Start
  <2>2. CASE c.op = "explain"
    BY <2>1, <2>2 DEF Entries, Placed, Asking, Compared
  <2>3. CASE c.op # "explain"
    BY <2>1, <2>3, CommandTypes DEF Entries, Placed, Asking, Creating, Compared
  <2> QED
    BY <2>2, <2>3
<1> QED
  BY <1>1, <1>3, <1>4 DEF Typed

LEMMA ResolvedTyped ==
  ASSUME DataOK, Placed, pc \in Asking, NEW a \in {"ready", "missing"}, Resolved(a),
         UNCHANGED <<cmd, todo, made, before, after, told, strayed>>
  PROVE  DataOK' /\ Placed'
  BY CommandTypes
  DEF DataOK, Placed, Resolved, Goal, Pcs, Comparing, Asking, Creating, Compared, Single

LEMMA StatusTyped ==
  ASSUME Typed,
         \/ AskInstalled \/ AskVersion \/ AskAvailable \/ AskServer
         \/ AskStatements \/ AskWorkload
  PROVE  Typed'
<1>1. SessionsOK'
  BY AskedType
  DEF Typed, AskInstalled, AskVersion, AskAvailable, AskServer, AskStatements, AskWorkload
<1>2. DataOK' /\ Placed'
  <2>1. CASE AskInstalled
    BY <2>1 DEF Typed, DataOK, Placed, AskInstalled, Status, Pcs, Comparing, Asking
  <2>2. CASE AskVersion
    BY <2>2, ResolvedTyped DEF Typed, AskVersion, Status, Asking
  <2>3. CASE AskAvailable
    <3>1. CASE Resolved("missing")
      BY <2>3, <3>1, ResolvedTyped DEF Typed, AskAvailable, Status, Asking
    <3>2. CASE pc' = "server" /\ UNCHANGED status
      BY <2>3, <3>2 DEF Typed, DataOK, Placed, AskAvailable, Status, Pcs, Comparing, Asking
    <3> QED
      BY <2>3, <3>1, <3>2 DEF AskAvailable
  <2>4. CASE AskServer
    BY <2>4, ResolvedTyped DEF Typed, AskServer, Status, Asking
  <2>5. CASE AskStatements
    BY <2>5 DEF Typed, DataOK, Placed, AskStatements, Status, Pcs, Comparing, Asking
  <2>6. CASE AskWorkload
    BY <2>6 DEF Typed, DataOK, Placed, AskWorkload, Status, Pcs, Comparing, Asking
  <2> QED
    BY <2>1, <2>2, <2>3, <2>4, <2>5, <2>6
<1> QED
  BY <1>1, <1>2 DEF Typed

\* The queries of a comparison.
LEMMA BeforeTyped ==
  ASSUME Typed, ExplainBefore
  PROVE  Typed'
<1>1. SessionsOK'
  BY AnsweredFirstType, FailedType DEF Typed, ExplainBefore
<1>2. CASE /\ before' = Plan(Mine) /\ strayed' = FALSE
           /\ pc' = IF cmd.op # "explain" THEN "create"
                    ELSE IF cmd.specs = << >> THEN "ended" ELSE "installed"
           /\ UNCHANGED <<cmd, status, todo, made, after, told>>
  <2>1. Plan(Mine) \in Plans
    BY PlanType, ReadyType DEF Typed
  <2> QED
    BY <1>1, <1>2, <2>1
    DEF Typed, DataOK, Placed, ExplainBefore, Pcs, Comparing, Asking, Creating, Compared
<1>3. CASE NextCandidate
  <2>1. todo # << >> \/ cmd.op # "recommend"
    BY DEF Typed, Placed, ExplainBefore
  <2> QED
    BY <1>1, <1>3, <2>1, NextCandidateTyped DEF Typed
<1> QED
  BY <1>2, <1>3 DEF ExplainBefore

LEMMA CreateTyped ==
  ASSUME Typed, CreateIndex
  PROVE  Typed'
<1>0. todo \in Seq(Specs) /\ todo # << >> /\ Head(todo) \in Specs
  BY DEF Typed, DataOK, Placed, CreateIndex
<1> DEFINE index == [oid |-> Mine.next, spec |-> Head(todo)]
           s == [Mine EXCEPT !.next = @ + 1, !.made = @ \cup {index}]
<1>1. CASE (Failed \/ UNCHANGED sessions) /\ Raised
  <2>1. SessionsOK'
    <3>1. CASE Failed
      BY <3>1, FailedType DEF Typed
    <3>2. CASE UNCHANGED sessions
      BY <3>2 DEF Typed, SessionsOK
    <3> QED
      BY <1>1, <3>1, <3>2
  <2> QED
    BY <1>0, <1>1, <2>1, RaisedTyped DEF Typed
<1>2. CASE /\ AnsweredNext(s) /\ made' = Append(made, index) /\ pc' = "define"
           /\ UNCHANGED <<cmd, status, todo, before, after, told>>
  <2>2. Mine \in Session
    BY ReadyType DEF Typed
  <2>3. index \in Index
    BY <1>0, <2>2 DEF Session, Index
  <2>4. s \in Session
    <3> HIDE DEF index
    <3>1. Mine.next + 1 \in Nat /\ Mine.made \cup {index} \in SUBSET Index
      BY <2>2, <2>3 DEF Session
    <3> QED
      BY <2>2, <3>1 DEF Session
  <2>5. SessionsOK' /\ strayed' \in BOOLEAN
    BY <1>2, <2>2, <2>4, AnsweredType DEF Typed, DataOK, AnsweredNext, Session
  <2>6. made' \in Seq(Index)
    <3> HIDE DEF index
    <3> QED
      BY <1>2, <2>3 DEF Typed, DataOK
  <2> QED
    BY <1>2, <2>5, <2>6
    DEF Typed, DataOK, Placed, CreateIndex, Pcs, Comparing, Asking, Creating, Compared
<1> QED
  BY <1>1, <1>2 DEF CreateIndex

LEMMA DefineTyped ==
  ASSUME Typed, DefineIndex
  PROVE  Typed'
<1>1. SessionsOK'
  BY AskedType DEF Typed, DefineIndex
<1> QED
  BY <1>1 DEF Typed, DataOK, Placed, DefineIndex, Pcs, Comparing, Asking

LEMMA SizeTyped ==
  ASSUME Typed, SizeIndex
  PROVE  Typed'
<1>1. SessionsOK'
  BY AskedType DEF Typed, SizeIndex
<1>2. todo \in Seq(Specs) /\ todo # << >> /\ cmd.op \in Creating
  BY DEF Typed, DataOK, Placed, SizeIndex
<1>3. Tail(todo) \in Seq(Specs) /\ Len(Tail(todo)) = Len(todo) - 1
  BY <1>2
<1>4. Len(todo) > 1 => Tail(todo) # << >>
  <2>1. Len(todo) > 1 => Len(Tail(todo)) # 0
    BY <1>2, <1>3
  <2> QED
    BY <2>1
<1>5. DataOK'
  BY <1>3 DEF Typed, DataOK, SizeIndex, Pcs, Comparing
<1>6. Placed'
  BY <1>2, <1>4 DEF Typed, Placed, SizeIndex, Asking, Creating, Compared
<1> QED
  BY <1>1, <1>5, <1>6 DEF Typed

LEMMA AfterTyped ==
  ASSUME Typed, ExplainAfter
  PROVE  Typed'
<1>1. SessionsOK' /\ strayed' \in BOOLEAN
  BY AskedType, ReadyType DEF Typed, DataOK, ExplainAfter, AnsweredNext, Session
<1>2. Plan(Mine) \in Plans
  BY PlanType, ReadyType DEF Typed
<1> QED
  BY <1>1, <1>2
  DEF Typed, DataOK, Placed, ExplainAfter, Pcs, Comparing, Asking, Creating, Compared

LEMMA CleanupTyped ==
  ASSUME Typed, DropIndex \/ Reset
  PROVE  Typed'
<1>1. SessionsOK'
  <2>1. Mine \in Session
    BY ReadyType DEF Typed
  <2>2. /\ [Mine EXCEPT !.made = {}] \in Session
        /\ [Mine EXCEPT !.made = {x \in @ : x.oid # made[1].oid}] \in Session
    BY <2>1 DEF Session
  <2> QED
    BY <2>2, AnsweredType, FailedType DEF Typed, DropIndex, Reset
<1>2. CASE DropIndex
  BY <1>1, <1>2, NextCandidateTyped DEF Typed, Placed, DropIndex
<1>3. CASE Reset
  <2>1. << >> \in Seq(Index) /\ << >> \in Seq(Specs)
    OBVIOUS
  <2> QED
    BY <1>1, <1>3, <2>1 DEF Typed, DataOK, Placed, Reset, Forget, Pcs, Comparing, Asking
<1> QED
  BY <1>2, <1>3

LEMMA RestTyped ==
  ASSUME Typed, AskOnce \/ Close \/ Grow
  PROVE  Typed'
<1>1. CASE AskOnce
  <2>1. SessionsOK'
    <3>1. Mine \in Session
      BY ReadyType DEF Typed
    <3>2. \A b \in BOOLEAN : [Mine EXCEPT !.hidden = b] \in Session
      BY <3>1 DEF Session
    <3>3. [Mine EXCEPT !.made = {}] \in Session
      BY <3>1 DEF Session
    <3>4. PICK s \in Session : Answered(s) \/ Failed
      BY <1>1, <3>1, <3>2, <3>3 DEF AskOnce
    <3> QED
      BY <3>4, AnsweredType, FailedType DEF Typed
  <2> QED
    BY <1>1, <2>1 DEF Typed, DataOK, Placed, AskOnce, Pcs, Comparing, Asking
<1>2. CASE Close
  <2>1. SessionsOK'
    BY <1>2, HypoAssumption DEF Close, SessionsOK
  <2> QED
    BY <1>2, <2>1 DEF Typed, DataOK, Placed, Close, Pcs, Comparing, Asking
<1>3. CASE Grow
  <2>1. Fresh \in Session
    BY DEF Fresh, Session
  <2>2. /\ Append(sessions, Fresh) \in Seq(Session)
        /\ Len(Append(sessions, Fresh)) = Len(sessions) + 1
        /\ Len(sessions) \in Nat
    BY <2>1 DEF Typed, SessionsOK
  <2>3. SessionsOK'
    BY <1>3, <2>2, HypoAssumption DEF Grow, SessionsOK
  <2> QED
    BY <1>3, <2>3 DEF Typed, DataOK, Placed, Grow
<1> QED
  BY <1>1, <1>2, <1>3

LEMMA TypedInit == Init => Typed
<1>1. << >> \in Seq(Session) /\ << >> \in Seq(Specs) /\ << >> \in Seq(Index)
  OBVIOUS
<1>2. [op |-> "check", specs |-> << >>] \in Commands
  BY DEF Commands
<1>3. 0 <= MaxSessions /\ Len(<< >>) = 0
  BY HypoAssumption
<1> QED
  BY <1>1, <1>2, <1>3
  DEF Init, Typed, SessionsOK, DataOK, Placed, Pcs, Comparing, Asking

LEMMA TypedStep ==
  ASSUME Typed, [Next]_vars
  PROVE  Typed'
<1>1. CASE UNCHANGED vars
  BY <1>1 DEF vars, Typed, SessionsOK, DataOK, Placed
<1>2. CASE Step
  BY <1>2, StatusTyped, BeforeTyped, CreateTyped, DefineTyped, SizeTyped, AfterTyped,
     CleanupTyped, RestTyped DEF Step
<1>3. CASE Grow
  BY <1>3, RestTyped
<1>4. CASE \E command \in Commands : Start(command)
  BY <1>4, StartTyped
<1> QED
  BY <1>1, <1>2, <1>3, <1>4 DEF Next

\* Under Spec the state keeps its types: the pool never holds more than its
\* connections, and every command is somewhere it can be.
THEOREM TypeCorrect == Spec => []TypeOK
<1>1. Typed => TypeOK
  BY DEF Typed, TypeOK, SessionsOK, DataOK
<1> QED
  BY <1>1, TypedInit, TypedStep, PTL DEF Spec

-----------------------------------------------------------------------------
(* A comparison that is all asked of one backend: what its planner goes by  *)
(* changes only by what the comparison itself does, wherever in the queue   *)
(* the backend is and whatever becomes of the others.                       *)

Numbered(s) == \A x \in s.made : x.oid < s.next

\* A backend holds what it held before, and the indexes made since.
Holds(s) ==
  /\ s.hidden = before.hidden
  /\ s.made = before.indexes \cup {made[i] : i \in DOMAIN made}

\* Backends number their indexes, and one of them at most made the plan before.
InOrder(queue) ==
  /\ \A i \in DOMAIN queue : Numbered(queue[i])
  /\ \A i, j \in DOMAIN queue : queue[i].planned /\ queue[j].planned => i = j

Home(queue) == \A i \in DOMAIN queue : queue[i].planned => Holds(queue[i])

LEMMA FreshSession == Fresh \in Session /\ Numbered(Fresh) /\ ~ Fresh.planned
BY DEF Fresh, Session, Numbered

\* The queue that a query finds.
LEMMA Found ==
  ASSUME SessionsOK
  PROVE  /\ Len(Ready) \in Nat /\ DOMAIN Ready = 1..Len(Ready) /\ 1 \in DOMAIN Ready
         /\ Mine = Ready[1] /\ Mine \in Session /\ \A i \in DOMAIN Ready : Ready[i] \in Session
         /\ InOrder(sessions) => InOrder(Ready) /\ Numbered(Mine)
         /\ Home(sessions) => Home(Ready)
<1>1. Ready \in Seq(Session) /\ Ready # << >> /\ Mine \in Session
  BY ReadyType
<1>2. Len(Ready) \in Nat /\ DOMAIN Ready = 1..Len(Ready) /\ 1 \in DOMAIN Ready
  BY <1>1, EmptySeq
<1>3. Mine = Ready[1] /\ \A i \in DOMAIN Ready : Ready[i] \in Session
  BY <1>1, <1>2 DEF Mine
<1>4. InOrder(sessions) => InOrder(Ready)
  BY FreshSession DEF InOrder, Ready
<1>5. Home(sessions) => Home(Ready)
  BY FreshSession DEF Home, Ready
<1> QED
  BY <1>1, <1>2, <1>3, <1>4, <1>5 DEF InOrder

\* The queue that it leaves.
LEMMA Rotated ==
  ASSUME SessionsOK, NEW s \in Session, Answered(s)
  PROVE  /\ DOMAIN sessions' = DOMAIN Ready /\ sessions'[Len(Ready)] = s
         /\ \A i \in DOMAIN Ready : i # Len(Ready) =>
              i + 1 \in DOMAIN Ready /\ sessions'[i] = Ready[i + 1]
<1>1. /\ Ready \in Seq(Session) /\ Ready # << >> /\ Len(Ready) \in Nat \ {0}
      /\ DOMAIN Ready = 1..Len(Ready)
  BY ReadyType, EmptySeq
<1>2. /\ Tail(Ready) \in Seq(Session) /\ Len(Tail(Ready)) = Len(Ready) - 1
      /\ \A i \in 1..(Len(Ready) - 1) : Tail(Ready)[i] = Ready[i + 1]
  BY <1>1, HeadTailProperties
<1>3. sessions' = Append(Tail(Ready), s)
  BY DEF Answered
<1>4. /\ DOMAIN sessions' = 1..Len(Ready) /\ sessions'[Len(Ready)] = s
      /\ \A i \in 1..(Len(Ready) - 1) : sessions'[i] = Tail(Ready)[i]
  BY <1>1, <1>2, <1>3
<1> QED
  BY <1>1, <1>2, <1>4

LEMMA InOrderAnswered ==
  ASSUME SessionsOK, InOrder(sessions), NEW s \in Session, Answered(s),
         Numbered(s), s.planned = Mine.planned
  PROVE  InOrder(sessions')
<1>1. /\ Len(Ready) \in Nat /\ DOMAIN Ready = 1..Len(Ready) /\ 1 \in DOMAIN Ready
      /\ Mine = Ready[1] /\ InOrder(Ready)
  BY Found
<1>2. /\ DOMAIN sessions' = DOMAIN Ready /\ sessions'[Len(Ready)] = s
      /\ \A i \in DOMAIN Ready : i # Len(Ready) =>
           i + 1 \in DOMAIN Ready /\ sessions'[i] = Ready[i + 1]
  BY Rotated
<1>3. \A i \in DOMAIN sessions' : Numbered(sessions'[i])
  BY <1>1, <1>2 DEF InOrder
<1>4. ASSUME NEW i \in DOMAIN sessions', NEW j \in DOMAIN sessions',
             sessions'[i].planned, sessions'[j].planned
      PROVE  i = j
  <2>1. CASE i # Len(Ready) /\ j # Len(Ready)
    <3>1. i + 1 = j + 1
      BY <1>1, <1>2, <1>4, <2>1 DEF InOrder
    <3> QED BY <1>1, <1>2, <3>1
  <2>2. CASE i = Len(Ready) /\ j # Len(Ready)
    <3>1. j + 1 = 1
      BY <1>1, <1>2, <1>4, <2>2 DEF InOrder
    <3> QED BY <1>1, <1>2, <3>1
  <2>3. CASE i # Len(Ready) /\ j = Len(Ready)
    <3>1. i + 1 = 1
      BY <1>1, <1>2, <1>4, <2>3 DEF InOrder
    <3> QED BY <1>1, <1>2, <3>1
  <2> QED BY <2>1, <2>2, <2>3
<1> QED BY <1>3, <1>4 DEF InOrder

LEMMA InOrderAsked ==
  ASSUME SessionsOK, InOrder(sessions), Answered(Mine) \/ Failed
  PROVE  InOrder(sessions')
<1>1. Mine \in Session /\ Numbered(Mine)
  BY Found
<1>2. CASE Answered(Mine)
  BY <1>1, <1>2, InOrderAnswered
<1>3. CASE sessions' = << >>
  BY <1>3 DEF InOrder
<1> QED BY <1>2, <1>3 DEF Failed, Answered

\* A query that tells the planner nothing.
LEMMA HomeAsked ==
  ASSUME SessionsOK, Home(sessions), Answered(Mine) \/ Failed, UNCHANGED <<before, made>>
  PROVE  Home(sessions)'
<1>1. /\ Len(Ready) \in Nat /\ DOMAIN Ready = 1..Len(Ready) /\ 1 \in DOMAIN Ready
      /\ Mine = Ready[1] /\ Mine \in Session /\ Home(Ready)
  BY Found
<1>2. \A s : Holds(s)' <=> Holds(s)
  BY DEF Holds
<1>3. CASE Answered(Mine)
  <2>1. /\ DOMAIN sessions' = DOMAIN Ready /\ sessions'[Len(Ready)] = Mine
        /\ \A i \in DOMAIN Ready : i # Len(Ready) =>
             i + 1 \in DOMAIN Ready /\ sessions'[i] = Ready[i + 1]
    BY <1>1, <1>3, Rotated
  <2>2. \A i \in DOMAIN sessions' : \E j \in DOMAIN Ready : sessions'[i] = Ready[j]
    BY <1>1, <2>1
  <2> QED BY <1>1, <1>2, <2>2 DEF Home
<1>4. CASE sessions' = << >>
  BY <1>4 DEF Home
<1> QED BY <1>3, <1>4 DEF Failed, Answered

\* A backend that joins the queue.
LEMMA Grown ==
  ASSUME SessionsOK, Grow
  PROVE  /\ InOrder(sessions) => InOrder(sessions)'
         /\ Home(sessions) => Home(sessions)'
<1>1. /\ sessions' = Append(sessions, Fresh) /\ sessions \in Seq(Session)
      /\ UNCHANGED <<made, before>>
  BY DEF Grow, SessionsOK
<1>2. /\ Len(sessions) \in Nat /\ DOMAIN sessions = 1..Len(sessions)
      /\ DOMAIN sessions' = 1..(Len(sessions) + 1) /\ sessions'[Len(sessions) + 1] = Fresh
      /\ \A i \in 1..Len(sessions) : sessions'[i] = sessions[i]
  BY <1>1, FreshSession
<1>3. \A i \in DOMAIN sessions' :
        i \in DOMAIN sessions \/ (i = Len(sessions) + 1 /\ ~ sessions'[i].planned)
  BY <1>2, FreshSession
<1>4. InOrder(sessions) => InOrder(sessions)'
  BY <1>2, <1>3, FreshSession DEF InOrder
<1>5. \A s : Holds(s)' <=> Holds(s)
  BY <1>1 DEF Holds
<1>6. Home(sessions) => Home(sessions)'
  BY <1>2, <1>3, <1>5 DEF Home
<1> QED BY <1>4, <1>6

\* The specifications created so far are the first ones asked for.
Tally ==
  LET done == IF pc \in {"define", "size"} THEN Len(made) - 1 ELSE Len(made)
  IN  /\ done + Len(todo) = Len(cmd.specs)
      /\ \A j \in 1..Len(todo) : todo[j] = cmd.specs[done + j]
      /\ \A i \in 1..Len(made) : made[i].spec = cmd.specs[i]
      /\ pc = "after" => todo = << >>

\* Nothing but the indexes made since is in the backend of the plan before, which may be
\* lost, or at another place in the queue.
Added ==
  /\ before \in Plans
  /\ ~ strayed => /\ Home(sessions)
                  /\ \A i \in DOMAIN made : made[i] \notin before.indexes

Iso ==
  /\ InOrder(sessions)
  /\ pc \notin {"drop", "reset"} => after = None
  /\ IsolatedAtHome
  /\ cmd.op = "explain" /\ pc \in Asking \cup {"before"} => made = << >> /\ todo = cmd.specs
  /\ cmd.op = "explain" /\ pc \in Asking => Added
  /\ cmd.op \in Compared /\ pc \in Comparing => Added
  /\ cmd.op = "explain" /\ pc \in Comparing => Tally
  /\ cmd.op \in Compared \ {"explain"} =>
       /\ pc \in Asking \cup {"before", "create"} => made = << >>
       /\ pc \in {"define", "size", "after"} => Len(made) = 1 /\ made[1].spec = todo[1]

LEMMA AddedAsked ==
  ASSUME SessionsOK, Answered(Mine) \/ Failed, UNCHANGED <<before, made, strayed>>
  PROVE  Added => Added'
BY HomeAsked DEF Added

LEMMA StartIso ==
  ASSUME Typed, Iso, NEW c \in Commands, Start(c)
  PROVE  Iso'
<1>1. InOrder(sessions')
  BY FreshSession DEF Start, InOrder
<1>2. cmd' = c /\ todo' = c.specs /\ made' = << >> /\ after' = None
  BY DEF Start, Forget
<1>3. /\ pc' \in {"before", "ended"} \cup Asking
      /\ c.op = "explain" => pc' = "before"
  BY DEF Start, Entries, Asking
<1> QED
  BY <1>1, <1>2, <1>3 DEF Iso, IsolatedAtHome, Isolated, Asking, Comparing

\* Nothing of the comparison changes while the status is asked for.
LEMMA StatusIso ==
  ASSUME Typed, Iso,
         \/ AskInstalled \/ AskVersion \/ AskAvailable \/ AskServer
         \/ AskStatements \/ AskWorkload
  PROVE  Iso'
<1>1. /\ pc \in Asking
      /\ pc' \in Asking \cup {"create", "before", "ask", "ended"}
      /\ pc' = "before" => cmd.op \in {"recommend", "explain_with_index"}
      /\ pc' = "create" => cmd.op \notin {"recommend", "explain_with_index"}
      /\ UNCHANGED <<cmd, todo, made, before, after, told, strayed>>
  BY DEF AskInstalled, AskVersion, AskAvailable, AskServer, AskStatements, AskWorkload,
         Status, Resolved, Goal, Asking
<1>2. Answered(Mine) \/ Failed
  BY DEF AskInstalled, AskVersion, AskAvailable, AskServer, AskStatements, AskWorkload
<1>3. InOrder(sessions')
  BY <1>2, InOrderAsked DEF Typed, Iso
<1>4. cmd.op = "explain" => made = << >> /\ todo = cmd.specs /\ Added'
  BY <1>1, <1>2, AddedAsked DEF Iso, Typed
<1>5. after = None
  BY <1>1 DEF Iso, Asking
<1>6. pc' = "create" /\ cmd.op = "explain" => Tally'
  BY <1>1, <1>4, CommandTypes DEF Tally, Typed, DataOK
<1> QED
  BY <1>1, <1>3, <1>4, <1>5, <1>6
  DEF Iso, IsolatedAtHome, Isolated, Asking, Comparing, Compared

\* A comparison is over, whatever became of the connections.
LEMMA NextCandidateIso ==
  ASSUME InOrder(sessions'), NextCandidate
  PROVE  Iso'
<1>1. /\ made' = << >> /\ after' = None /\ UNCHANGED cmd
      /\ pc' = "ended" \/ (pc' = "before" /\ cmd.op = "recommend")
  BY DEF NextCandidate, Forget
<1> QED
  BY <1>1 DEF Iso, IsolatedAtHome, Isolated, Asking, Comparing

\* The backend of the plan before is marked, and no other.
LEMMA MarkedHome ==
  ASSUME SessionsOK, InOrder(sessions), AnsweredFirst, before' = Plan(Mine),
         made = << >>, made' = << >>
  PROVE  InOrder(sessions') /\ Home(sessions)'
<1>1. /\ Ready \in Seq(Session) /\ Ready # << >> /\ Len(Ready) \in Nat \ {0}
      /\ Mine \in Session /\ Numbered(Mine) /\ InOrder(Ready) /\ DOMAIN Ready = 1..Len(Ready)
  BY ReadyType, EmptySeq, Found
<1> DEFINE unmarked(i) == [Tail(Ready)[i] EXCEPT !.planned = FALSE]
           others == [i \in DOMAIN Tail(Ready) |-> unmarked(i)]
           first == [Mine EXCEPT !.planned = TRUE]
<1>2. /\ Tail(Ready) \in Seq(Session) /\ Len(Tail(Ready)) = Len(Ready) - 1
      /\ DOMAIN Tail(Ready) = 1..(Len(Ready) - 1)
      /\ \A i \in 1..(Len(Ready) - 1) : Tail(Ready)[i] = Ready[i + 1]
  BY <1>1, HeadTailProperties
<1>3. \A i \in 1..(Len(Ready) - 1) : Tail(Ready)[i] \in Session /\ Numbered(Tail(Ready)[i])
  BY <1>1, <1>2 DEF InOrder
<1>4. \A i \in 1..(Len(Ready) - 1) : ~ unmarked(i).planned /\ Numbered(unmarked(i))
  BY <1>3 DEF Session, Numbered
<1>5. /\ first \in Session /\ Numbered(first)
      /\ first.hidden = Mine.hidden /\ first.made = Mine.made
  BY <1>1 DEF Session, Numbered
<1>6. \A i \in 1..(Len(Ready) - 1) : unmarked(i) \in Session
  BY <1>3 DEF Session
<1>7. others \in Seq(Session) /\ Len(others) = Len(Ready) - 1
  BY <1>1, <1>2, <1>6
<1>8. sessions' = Append(others, first)
  BY DEF AnsweredFirst
<1>9. \A i \in 1..(Len(Ready) - 1) : others[i] = unmarked(i)
  BY <1>2
<1> HIDE DEF others, first, unmarked
<1>10. /\ DOMAIN sessions' = 1..Len(Ready) /\ sessions'[Len(Ready)] = first
       /\ \A i \in 1..(Len(Ready) - 1) : sessions'[i] = unmarked(i)
  <2>1. /\ DOMAIN Append(others, first) = 1..(Len(others) + 1)
        /\ Append(others, first)[Len(others) + 1] = first
        /\ \A i \in 1..Len(others) : Append(others, first)[i] = others[i]
    BY <1>5, <1>7
  <2>2. Len(others) + 1 = Len(Ready)
    BY <1>1, <1>7
  <2> QED BY <1>7, <1>8, <1>9, <2>1, <2>2
<1>11. /\ \A i \in DOMAIN sessions' : Numbered(sessions'[i])
       /\ \A i \in DOMAIN sessions' : sessions'[i].planned => i = Len(Ready)
  BY <1>1, <1>4, <1>5, <1>10
<1>12. /\ first.hidden = before'.hidden
       /\ first.made = before'.indexes \cup {made'[i] : i \in DOMAIN made'}
  BY <1>5 DEF Plan
<1>13. InOrder(sessions')
  BY <1>1, <1>10, <1>11 DEF InOrder
<1>14. \A i \in DOMAIN sessions' : sessions'[i].planned => sessions'[i] = first
  BY <1>10, <1>11
<1> QED
  BY <1>12, <1>13, <1>14 DEF Home, Holds

LEMMA BeforeIso ==
  ASSUME Typed, Iso, ExplainBefore
  PROVE  Iso'
<1>0. pc = "before" /\ after = None /\ cmd.op \in Compared /\ made = << >>
  BY DEF Typed, Placed, Iso, ExplainBefore
<1>1. CASE /\ AnsweredFirst /\ before' = Plan(Mine) /\ strayed' = FALSE
           /\ pc' = IF cmd.op # "explain" THEN "create"
                    ELSE IF cmd.specs = << >> THEN "ended" ELSE "installed"
           /\ UNCHANGED <<cmd, status, todo, made, after, told>>
  <2>1. InOrder(sessions') /\ Home(sessions)'
    BY <1>0, <1>1, MarkedHome DEF Typed, Iso
  <2>2. before' \in Plans
    BY <1>1, PlanType, ReadyType DEF Typed
  <2>3. Added'
    BY <1>0, <1>1, <2>1, <2>2 DEF Added
  <2> QED
    BY <1>0, <1>1, <2>1, <2>3 DEF Iso, IsolatedAtHome, Isolated, Asking, Comparing
<1>2. CASE Failed /\ NextCandidate
  BY <1>2, InOrderAsked, NextCandidateIso DEF Typed, Iso
<1> QED
  BY <1>1, <1>2 DEF ExplainBefore

\* An index that the marked backend creates is in it, and was not before.
LEMMA HomeGains ==
  ASSUME SessionsOK, InOrder(sessions), Home(sessions), Mine.planned,
         NEW index \in Index, index \notin Mine.made, made \in Seq(Index),
         NEW s \in Session, Answered(s), s.hidden = Mine.hidden,
         s.made = Mine.made \cup {index}, UNCHANGED before, made' = Append(made, index)
  PROVE  /\ Home(sessions)'
         /\ index \notin before.indexes
<1>1. /\ Len(Ready) \in Nat /\ DOMAIN Ready = 1..Len(Ready) /\ 1 \in DOMAIN Ready
      /\ Mine = Ready[1] /\ InOrder(Ready) /\ Home(Ready)
  BY Found
<1>2. Holds(Mine)
  BY <1>1 DEF Home
<1>3. {made'[i] : i \in DOMAIN made'} = {made[i] : i \in DOMAIN made} \cup {index}
  <2>1. /\ Len(made) \in Nat /\ DOMAIN made = 1..Len(made)
        /\ DOMAIN made' = 1..(Len(made) + 1) /\ made'[Len(made) + 1] = index
        /\ \A i \in 1..Len(made) : made'[i] = made[i]
    OBVIOUS
  <2>2. \A i \in DOMAIN made' : i \in DOMAIN made \/ i = Len(made) + 1
    BY <2>1
  <2>3. \A i \in DOMAIN made : i \in DOMAIN made' /\ made'[i] = made[i]
    BY <2>1
  <2>4. Len(made) + 1 \in DOMAIN made'
    BY <2>1
  <2> QED BY <2>1, <2>2, <2>3, <2>4
<1>4. /\ s.hidden = before'.hidden
      /\ s.made = before'.indexes \cup {made'[i] : i \in DOMAIN made'}
  BY <1>2, <1>3 DEF Holds
<1>5. \A i \in DOMAIN sessions' : sessions'[i].planned => sessions'[i] = s
  <2>1. /\ DOMAIN sessions' = DOMAIN Ready /\ sessions'[Len(Ready)] = s
        /\ \A i \in DOMAIN Ready : i # Len(Ready) =>
             i + 1 \in DOMAIN Ready /\ sessions'[i] = Ready[i + 1]
    BY Rotated
  <2>2. ASSUME NEW i \in DOMAIN sessions', i # Len(Ready), sessions'[i].planned PROVE FALSE
    <3>1. i + 1 = 1
      BY <1>1, <2>1, <2>2 DEF InOrder
    <3> QED BY <1>1, <2>1, <2>2, <3>1
  <2> QED BY <2>1, <2>2
<1> QED
  BY <1>2, <1>4, <1>5 DEF Home, Holds

LEMMA CreateIso ==
  ASSUME Typed, Iso, CreateIndex
  PROVE  Iso'
<1> DEFINE index == [oid |-> Mine.next, spec |-> todo[1]]
           s == [Mine EXCEPT !.next = @ + 1, !.made = @ \cup {index}]
<1>0. /\ Mine \in Session /\ Numbered(Mine) /\ InOrder(sessions) /\ SessionsOK
      /\ pc = "create" /\ after = None
      /\ todo \in Seq(Specs) /\ todo # << >> /\ Head(todo) = todo[1] /\ todo[1] \in Specs
  <2>1. todo \in Seq(Specs) /\ todo # << >> /\ pc = "create"
    BY DEF Typed, DataOK, Placed, CreateIndex
  <2>2. Head(todo) = todo[1] /\ todo[1] \in Specs
    BY <2>1, EmptySeq, ElementOfSeq
  <2> QED
    BY <2>1, <2>2, Found DEF Typed, Iso
<1>1. CASE (Failed \/ UNCHANGED sessions) /\ Raised
  <2>1. InOrder(sessions')
    <3>1. CASE Failed
      BY <1>0, <3>1, InOrderAsked
    <3>2. CASE UNCHANGED sessions
      BY <1>0, <3>2
    <3> QED BY <1>1, <3>1, <3>2
  <2>2. CASE cmd.op = "explain"
    BY <1>0, <1>1, <2>1, <2>2
    DEF Raised, Iso, IsolatedAtHome, Isolated, Asking, Comparing
  <2>3. CASE cmd.op # "explain"
    BY <1>1, <2>1, <2>3, NextCandidateIso DEF Raised
  <2> QED
    BY <2>2, <2>3
<1>2. CASE /\ AnsweredNext(s) /\ made' = Append(made, index) /\ pc' = "define"
           /\ UNCHANGED <<cmd, status, todo, before, after, told>>
  <2>1. /\ index \in Index /\ index.spec = todo[1] /\ index \notin Mine.made
        /\ s \in Session /\ Numbered(s) /\ s.planned = Mine.planned
        /\ s.hidden = Mine.hidden /\ s.made = Mine.made \cup {index}
    <3>1. Mine.next \in Nat /\ Mine.made \in SUBSET Index
      BY <1>0 DEF Session
    <3>2. index \in Index /\ index.spec = todo[1] /\ index.oid = Mine.next
      BY <1>0, <3>1 DEF Index
    <3> HIDE DEF index
    <3>3. /\ s.next = Mine.next + 1 /\ s.made = Mine.made \cup {index}
          /\ s.hidden = Mine.hidden /\ s.planned = Mine.planned
      BY <1>0 DEF Session
    <3>4. s \in Session
      <4>1. Mine.next + 1 \in Nat /\ Mine.made \cup {index} \in SUBSET Index
        BY <3>1, <3>2
      <4> QED BY <1>0, <4>1 DEF Session
    <3>5. \A x \in Mine.made : x.oid \in Nat /\ x.oid < Mine.next
      BY <1>0, <3>1 DEF Numbered, Index
    <3>6. index \notin Mine.made
      BY <3>1, <3>2, <3>5
    <3>7. Numbered(s)
      <4>1. \A x \in Mine.made \cup {index} : x.oid < Mine.next + 1
        BY <3>1, <3>2, <3>5
      <4> QED BY <3>3, <4>1 DEF Numbered
    <3> QED BY <3>2, <3>3, <3>4, <3>6, <3>7
  <2> HIDE DEF index, s
  <2>2. Answered(s) /\ strayed' = (strayed \/ ~ Mine.planned)
    BY <1>2 DEF AnsweredNext
  <2>3. InOrder(sessions')
    BY <1>0, <2>1, <2>2, InOrderAnswered
  <2>4. made \in Seq(Index)
    BY DEF Typed, DataOK
  <2>5. /\ Len(made') = Len(made) + 1 /\ made'[Len(made) + 1] = index
        /\ \A i \in 1..Len(made) : made'[i] = made[i]
        /\ DOMAIN made = 1..Len(made) /\ DOMAIN made' = 1..(Len(made) + 1)
        /\ Len(made) \in Nat
    BY <1>2, <2>1, <2>4
  <2>6. cmd.op \in Compared => Added'
    <3> SUFFICES ASSUME cmd.op \in Compared PROVE Added'
      OBVIOUS
    <3>1. Added
      BY <1>0 DEF Iso, Comparing
    <3>2. CASE ~ strayed'
      <4>1. ~ strayed /\ Mine.planned /\ Home(sessions)
        BY <2>2, <3>1, <3>2 DEF Added
      <4>2. Home(sessions)' /\ index \notin before.indexes
        BY <1>0, <1>2, <2>1, <2>2, <2>4, <4>1, HomeGains
      <4>3. \A i \in DOMAIN made' : made'[i] \notin before.indexes
        BY <2>5, <3>1, <4>1, <4>2 DEF Added
      <4> QED
        BY <1>2, <3>1, <4>2, <4>3 DEF Added
    <3>3. CASE strayed'
      BY <1>2, <3>1, <3>3 DEF Added
    <3> QED BY <3>2, <3>3
  <2>7. cmd.op = "explain" => Tally'
    <3> SUFFICES ASSUME cmd.op = "explain" PROVE Tally'
      OBVIOUS
    <3>1. Tally
      BY <1>0 DEF Iso, Comparing
    <3>2. /\ Len(made) + Len(todo) = Len(cmd.specs)
          /\ \A j \in 1..Len(todo) : todo[j] = cmd.specs[Len(made) + j]
          /\ \A i \in 1..Len(made) : made[i].spec = cmd.specs[i]
      BY <1>0, <3>1 DEF Tally
    <3>3. 1 \in 1..Len(todo)
      BY <1>0, EmptySeq
    <3>4. \A i \in 1..Len(made') : made'[i].spec = cmd.specs[i]
      BY <2>1, <2>5, <3>2, <3>3
    <3>5. Len(made') - 1 = Len(made)
      BY <2>5
    <3> QED
      BY <1>2, <3>2, <3>4, <3>5 DEF Tally
  <2>8. cmd.op \in Compared \ {"explain"} => Len(made') = 1 /\ made'[1].spec = todo[1]
    <3> SUFFICES ASSUME cmd.op \in Compared \ {"explain"}
                 PROVE  Len(made') = 1 /\ made'[1].spec = todo[1]
      OBVIOUS
    <3>1. Len(made) = 0
      BY <1>0 DEF Iso
    <3> QED
      BY <2>1, <2>5, <3>1
  <2> QED
    BY <1>0, <1>2, <2>3, <2>6, <2>7, <2>8
    DEF Iso, IsolatedAtHome, Isolated, Asking, Comparing
<1> QED
  BY <1>0, <1>1, <1>2 DEF CreateIndex

\* The definition and the size tell nothing.
LEMMA DefineIso ==
  ASSUME Typed, Iso, DefineIndex
  PROVE  Iso'
<1>1. /\ pc = "define" /\ pc' = "size"
      /\ UNCHANGED <<cmd, status, todo, made, before, after, told, strayed>>
  BY DEF DefineIndex
<1>2. InOrder(sessions') /\ (Added => Added')
  BY <1>1, InOrderAsked, AddedAsked DEF Typed, Iso, DefineIndex
<1>3. Tally => Tally'
  BY <1>1 DEF Tally
<1> QED
  BY <1>1, <1>2, <1>3 DEF Iso, IsolatedAtHome, Isolated, Asking, Comparing

LEMMA SizeIso ==
  ASSUME Typed, Iso, SizeIndex
  PROVE  Iso'
<1>0. /\ pc = "size" /\ after = None /\ todo \in Seq(Specs) /\ todo # << >>
      /\ cmd.op \in Creating /\ made \in Seq(Index)
  BY DEF Typed, DataOK, Placed, SizeIndex, Iso
<1>1. /\ pc' \in {"create", "after", "drop", "ended"}
      /\ UNCHANGED <<cmd, status, made, before, after, told, strayed>>
      /\ todo' = IF cmd.op = "explain" THEN Tail(todo) ELSE todo
  BY DEF SizeIndex
<1>2. /\ pc' = "create" => cmd.op = "explain" /\ Len(todo) > 1
      /\ pc' = "after" /\ cmd.op = "explain" => Len(todo) <= 1
      /\ pc' \in {"create", "after"} => cmd.op \in Compared
  BY <1>0 DEF SizeIndex, Creating, Compared
<1>3. InOrder(sessions') /\ (Added => Added')
  BY <1>1, InOrderAsked, AddedAsked DEF Typed, Iso, SizeIndex
<1>4. pc' \in Comparing => Added'
  BY <1>0, <1>1, <1>2, <1>3 DEF Iso, Comparing
<1>5. cmd.op = "explain" /\ pc' \in Comparing => Tally'
  <2> SUFFICES ASSUME cmd.op = "explain", pc' \in Comparing PROVE Tally'
    OBVIOUS
  <2>1. /\ Len(made) - 1 + Len(todo) = Len(cmd.specs)
        /\ \A j \in 1..Len(todo) : todo[j] = cmd.specs[Len(made) - 1 + j]
        /\ \A i \in 1..Len(made) : made[i].spec = cmd.specs[i]
    BY <1>0 DEF Iso, Comparing, Tally
  <2>2. /\ Len(todo) \in Nat \ {0} /\ Len(todo') = Len(todo) - 1 /\ todo' \in Seq(Specs)
        /\ \A j \in 1..Len(todo') : todo'[j] = todo[j + 1]
        /\ Len(made) \in Nat
    BY <1>0, <1>1, EmptySeq, HeadTailProperties
  <2>3. Len(made') + Len(todo') = Len(cmd'.specs)
    BY <1>1, <2>1, <2>2
  <2>4. \A j \in 1..Len(todo') : todo'[j] = cmd'.specs[Len(made') + j]
    <3> TAKE j \in 1..Len(todo')
    <3>1. j + 1 \in 1..Len(todo) /\ Len(made) - 1 + (j + 1) = Len(made) + j
      BY <2>2
    <3> QED
      BY <1>1, <2>1, <2>2, <3>1
  <2>5. pc' = "after" => todo' = << >>
    BY <1>2, <2>2, EmptySeq
  <2> QED
    BY <1>1, <2>1, <2>3, <2>4, <2>5 DEF Tally, Comparing
<1>6. cmd.op \in Compared \ {"explain"} /\ pc' = "after" =>
        Len(made) = 1 /\ made[1].spec = todo[1]
  BY <1>0 DEF Iso
<1> QED
  BY <1>0, <1>1, <1>2, <1>3, <1>4, <1>5, <1>6
  DEF Iso, IsolatedAtHome, Isolated, Asking, Comparing, Compared

\* The second plan: what was asked for is there, and nothing else is new.
LEMMA AfterIso ==
  ASSUME Typed, Iso, ExplainAfter
  PROVE  Iso'
<1>0. /\ pc = "after" /\ after = None /\ cmd.op \in Compared /\ Added
      /\ Mine \in Session /\ Mine.planned \in BOOLEAN
      /\ made \in Seq(Index) /\ cmd.specs \in Seq(Specs)
  BY ReadyType, CommandTypes
  DEF Typed, DataOK, Placed, ExplainAfter, Iso, Comparing, Session
<1>1. /\ pc' = IF cmd.op = "explain" THEN "reset" ELSE "drop"
      /\ UNCHANGED <<cmd, status, todo, made, before, told>>
  BY DEF ExplainAfter
<1>2. InOrder(sessions')
  BY InOrderAsked DEF Typed, Iso, ExplainAfter, AnsweredNext
<1>3. [i \in DOMAIN made |-> made[i].spec] = Asked
  <2>1. CASE cmd.op = "explain"
    <3>1. /\ todo = << >> /\ Len(made) + Len(todo) = Len(cmd.specs)
          /\ \A i \in 1..Len(made) : made[i].spec = cmd.specs[i]
      BY <1>0, <2>1 DEF Iso, Comparing, Tally
    <3>2. Len(made) = Len(cmd.specs) /\ DOMAIN made = 1..Len(made)
      BY <1>0, <3>1
    <3>3. DOMAIN cmd.specs = DOMAIN made
      BY <1>0, <3>2
    <3> QED
      BY <1>0, <2>1, <3>1, <3>2, <3>3 DEF Asked
  <2>2. CASE cmd.op # "explain"
    <3>1. Len(made) = 1 /\ made[1].spec = todo[1]
      BY <1>0, <2>2 DEF Iso
    <3>2. DOMAIN made = {1}
      BY <1>0, <3>1
    <3>3. [i \in DOMAIN made |-> made[i].spec] = <<todo[1]>>
      BY <3>1, <3>2
    <3> QED
      BY <2>2, <3>3 DEF Asked
  <2> QED
    BY <2>1, <2>2
<1>4. IsolatedAtHome'
  <2>1. CASE AnsweredNext(Mine) /\ after' = Plan(Mine) /\ ~ strayed'
    <3>1. ~ strayed /\ Mine.planned
      BY <1>0, <2>1 DEF AnsweredNext
    <3>2. Holds(Mine) /\ \A i \in DOMAIN made : made[i] \notin before.indexes
      BY <1>0, <3>1, Found DEF Added, Home, Typed
    <3> QED
      BY <1>1, <1>3, <2>1, <3>2 DEF IsolatedAtHome, Isolated, Asked, Holds, Plan
  <2>2. CASE UNCHANGED after
    BY <1>0, <2>2 DEF IsolatedAtHome, Isolated
  <2> QED
    BY <2>1, <2>2 DEF ExplainAfter, IsolatedAtHome
<1> QED
  BY <1>0, <1>1, <1>2, <1>4 DEF Iso, Asking, Comparing

\* A drop and a reset leave the numbers of what is left.
LEMMA CleanupIso ==
  ASSUME Typed, Iso, DropIndex \/ Reset
  PROVE  Iso'
<1>1. Mine \in Session /\ Numbered(Mine) /\ InOrder(sessions) /\ SessionsOK
  BY Found DEF Typed, Iso
<1> DEFINE reset == [Mine EXCEPT !.made = {}]
           drop == [Mine EXCEPT !.made = {x \in @ : x.oid # made[1].oid}]
<1>2. \A s \in {reset, drop} : s \in Session /\ Numbered(s) /\ s.planned = Mine.planned
  BY <1>1 DEF Session, Numbered
<1>3. Failed \/ \E s \in {reset, drop} : Answered(s)
  BY DEF DropIndex, Reset
<1> HIDE DEF reset, drop
<1>4. InOrder(sessions')
  BY <1>1, <1>2, <1>3, InOrderAsked, InOrderAnswered
<1>5. CASE DropIndex
  BY <1>4, <1>5, NextCandidateIso DEF DropIndex
<1>6. CASE Reset
  BY <1>4, <1>6 DEF Reset, Forget, Iso, IsolatedAtHome, Isolated, Asking, Comparing
<1> QED
  BY <1>5, <1>6

LEMMA RestIso ==
  ASSUME Typed, Iso, AskOnce \/ Close
  PROVE  Iso'
<1>1. /\ pc' \in {"idle", "ended"} /\ after' = None
  BY DEF AskOnce, Close, Iso
<1>2. InOrder(sessions')
  <2>1. Mine \in Session /\ Numbered(Mine) /\ InOrder(sessions) /\ SessionsOK
    BY Found DEF Typed, Iso
  <2>2. CASE Close
    BY <2>2 DEF Close, InOrder
  <2>3. CASE AskOnce
    <3> DEFINE reset == [Mine EXCEPT !.made = {}]
               hide(b) == [Mine EXCEPT !.hidden = b]
    <3>1. \A s \in {reset, hide(TRUE), hide(FALSE), Mine} :
            s \in Session /\ Numbered(s) /\ s.planned = Mine.planned
      BY <2>1 DEF Session, Numbered
    <3>2. \/ \E s \in {reset, hide(TRUE), hide(FALSE), Mine} : Answered(s)
          \/ Failed
      BY <2>3 DEF AskOnce
    <3> HIDE DEF reset, hide
    <3> QED
      BY <2>1, <3>1, <3>2, InOrderAsked, InOrderAnswered
  <2> QED
    BY <2>2, <2>3
<1> QED
  BY <1>1, <1>2 DEF Iso, IsolatedAtHome, Isolated, Asking, Comparing

LEMMA GrowIso ==
  ASSUME Typed, Iso, Grow
  PROVE  Iso'
<1>1. UNCHANGED <<cmd, pc, status, todo, made, before, after, told, strayed>>
  BY DEF Grow
<1>2. InOrder(sessions') /\ (Added => Added')
  BY <1>1, Grown DEF Typed, Iso, Added, InOrder
<1>3. (Tally => Tally') /\ (IsolatedAtHome => IsolatedAtHome')
  BY <1>1 DEF Tally, IsolatedAtHome, Isolated, Asked
<1> QED
  BY <1>1, <1>2, <1>3 DEF Iso

LEMMA IsoStep ==
  ASSUME Typed, Iso, [Next]_vars
  PROVE  Iso'
<1>1. CASE UNCHANGED vars
  <2>1. (Added => Added') /\ (Tally => Tally') /\ (IsolatedAtHome => IsolatedAtHome')
    BY <1>1 DEF vars, Added, Home, Holds, Tally, IsolatedAtHome, Isolated, Asked
  <2> QED
    BY <1>1, <2>1 DEF vars, Iso
<1>2. CASE Step
  BY <1>2, StatusIso, BeforeIso, CreateIso, DefineIso, SizeIso, AfterIso, CleanupIso,
     RestIso DEF Step
<1>3. CASE Grow
  BY <1>3, GrowIso
<1>4. CASE \E command \in Commands : Start(command)
  BY <1>4, StartIso
<1> QED
  BY <1>1, <1>2, <1>3, <1>4 DEF Next

\* Whatever the size of the pool, whatever fails and whichever connections are lost: a
\* report of which the indexes and the second plan were asked of the backend of the first
\* plan compares it with one that has the indexes asked for and differs in nothing else.
THEOREM ComparisonIsolated == Spec => []IsolatedAtHome
<1>1. Init => Typed /\ Iso
  <2>1. Init => Iso
    BY DEF Init, Iso, InOrder, IsolatedAtHome, Isolated, Asking, Comparing
  <2> QED
    BY <2>1, TypedInit
<1>2. Typed /\ Iso /\ [Next]_vars => (Typed /\ Iso)'
  BY TypedStep, IsoStep
<1>3. Iso => IsolatedAtHome
  BY DEF Iso
<1> QED
  BY <1>1, <1>2, <1>3, PTL DEF Spec

-----------------------------------------------------------------------------
(* What is created is sent for removal.  Outside a comparison no index is   *)
(* held, and only `create` keeps one beyond its end.                        *)

Held ==
  /\ pc \in Asking \cup {"before", "ask"} => made = << >>
  /\ pc = "create" /\ cmd.op # "explain" => made = << >>
  /\ pc \in {"idle", "ended"} /\ made # << >> => cmd.op = "create"

Kept == made # << >> /\ made' = << >> => cmd.op = "create" \/ pc \in {"drop", "reset"}

\* check_status and the workload: nothing is held yet, and nothing is lost.
LEMMA StatusHeld ==
  ASSUME Held, \E at \in Asking : Status(at),
         pc' \in Asking \cup {"ended", Goal(cmd)}
  PROVE  Held' /\ Kept
<1>1. made = << >> /\ made' = << >>
  BY DEF Held, Status
<1> QED
  BY <1>1 DEF Held, Kept

LEMMA AsksHeld ==
  ASSUME Held,
         AskInstalled \/ AskVersion \/ AskAvailable \/ AskServer
           \/ AskStatements \/ AskWorkload
  PROVE  Held' /\ Kept
<1>1. \E at \in Asking : Status(at)
  BY DEF AskInstalled, AskVersion, AskAvailable, AskServer, AskStatements,
         AskWorkload, Asking
<1>2. pc' \in Asking \cup {"ended", Goal(cmd)}
  BY DEF AskInstalled, AskVersion, AskAvailable, AskServer, AskStatements,
         AskWorkload, Asking, Resolved
<1> QED
  BY <1>1, <1>2, StatusHeld

LEMMA NextCandidateHeld ==
  ASSUME NextCandidate, made = << >> \/ pc = "drop"
  PROVE  Held' /\ Kept
  BY DEF NextCandidate, Forget, Held, Kept

LEMMA CreateHeld ==
  ASSUME Typed, Held, CreateIndex
  PROVE  Held' /\ Kept
<1>1. pc = "create" /\ made \in Seq(Index) /\ cmd.op \in Creating
  BY DEF CreateIndex, Typed, DataOK, Placed
<1>2. ASSUME Raised PROVE Held' /\ Kept
  <2>1. CASE cmd.op = "explain"
    BY <1>2, <2>1 DEF Raised, Held, Kept, Asking
  <2>2. CASE cmd.op # "explain"
    BY <1>1, <1>2, <2>2, NextCandidateHeld DEF Raised, Held
  <2> QED
    BY <2>1, <2>2
<1>3. ASSUME NEW index, made' = Append(made, index), pc' = "define"
      PROVE  Held' /\ Kept
  <2>1. made' # << >>
    BY <1>1, <1>3
  <2> QED
    BY <1>3, <2>1 DEF Held, Kept, Asking
<1> QED
  BY <1>2, <1>3 DEF CreateIndex

LEMMA SizeHeld ==
  ASSUME Typed, Held, SizeIndex
  PROVE  Held' /\ Kept
<1>1. /\ made' = made /\ cmd' = cmd /\ pc = "size"
      /\ \/ pc' = "create" /\ cmd.op = "explain"
         \/ pc' = "ended" /\ cmd.op = "create"
         \/ pc' \in {"drop", "after"}
  BY DEF SizeIndex
<1> QED
  BY <1>1 DEF Held, Kept, Asking

LEMMA BeforeHeld ==
  ASSUME Held, ExplainBefore
  PROVE  Held' /\ Kept
<1>1. pc = "before" /\ made = << >>
  BY DEF ExplainBefore, Held
<1>2. CASE NextCandidate
  BY <1>1, <1>2, NextCandidateHeld
<1>3. CASE UNCHANGED made
  BY <1>1, <1>3 DEF Held, Kept
<1> QED
  BY <1>2, <1>3 DEF ExplainBefore

LEMMA RestHeld ==
  ASSUME Held,
         DefineIndex \/ ExplainAfter \/ DropIndex \/ Reset \/ AskOnce \/ Close
           \/ Grow \/ \E command \in Commands : Start(command)
  PROVE  Held' /\ Kept
<1>1. CASE DefineIndex
  BY <1>1 DEF DefineIndex, Held, Kept, Asking
<1>2. CASE ExplainAfter
  BY <1>2 DEF ExplainAfter, Held, Kept, Asking
<1>3. CASE DropIndex
  BY <1>3, NextCandidateHeld DEF DropIndex
<1>4. CASE Reset
  BY <1>4 DEF Reset, Forget, Held, Kept
<1>5. CASE AskOnce
  BY <1>5 DEF AskOnce, Held, Kept
<1>6. CASE Close
  BY <1>6 DEF Close, Held, Kept, Asking
<1>7. CASE Grow
  BY <1>7 DEF Grow, Held, Kept
<1>8. CASE \E command \in Commands : Start(command)
  BY <1>8 DEF Start, Forget, Held, Kept
<1> QED
  BY <1>1, <1>2, <1>3, <1>4, <1>5, <1>6, <1>7, <1>8

LEMMA HeldStep ==
  ASSUME Typed, Held, [Next]_vars
  PROVE  Held' /\ Kept
<1>1. CASE UNCHANGED vars
  BY <1>1 DEF vars, Held, Kept
<1>2. CASE Next
  BY <1>2, AsksHeld, BeforeHeld, CreateHeld, SizeHeld, RestHeld DEF Next, Step
<1> QED
  BY <1>1, <1>2

\* No comparison that created an index is left without the query that is to
\* remove it, wherever its queries fail and however many connections the pool
\* holds (the two `finally`s and estimate_index_size).
THEOREM CreatedIsSentForRemoval == Spec => CleansUp
<1>1. Init => Typed /\ Held
  BY TypedInit DEF Init, Held
<1>2. Typed /\ Held /\ [Next]_vars => Typed' /\ Held'
  BY TypedStep, HeldStep
<1>3. Typed /\ Held /\ [Next]_vars =>
        [made # << >> /\ made' = << >> => cmd.op = "create" \/ pc \in {"drop", "reset"}]_vars
  BY HeldStep DEF Kept
<1> QED
  BY <1>1, <1>2, <1>3, PTL DEF Spec, CleansUp

-----------------------------------------------------------------------------
(* A command makes finitely many queries.                                   *)

\* Where a command is on its way through one specification.
Place ==
  CASE pc \in {"ask", "reset", "drop"}  -> 2
    [] pc = "after"                     -> 3
    [] pc = "size"                      -> 4
    [] pc = "define"                    -> 5
    [] pc = "create"                    -> 6
    [] pc = "before"                    -> IF cmd.op = "explain" THEN 11 ELSE 7
    [] pc \in {"version", "server"}     -> 8
    [] pc = "available"                 -> 9
    [] pc = "installed"                 -> 10
    [] pc = "workload"                  -> 11
    [] pc = "pgss"                      -> 12
    [] pc = "ended"                     -> 1
    [] OTHER                            -> 0

\* No less than the queries it still makes.
QueriesLeft == 10 * Len(todo) + Place

LEMMA PlaceIsSmall == Place \in 0..12
BY DEF Place

LEMMA TodoShrinks ==
  ASSUME DataOK
  PROVE  /\ Len(todo) \in Nat
         /\ todo # << >> => Len(Tail(todo)) = Len(todo) - 1 /\ Len(todo) > 0
         /\ Len(<< >>) = 0
<1>1. todo \in Seq(Specs)
  BY DEF DataOK
<1>2. todo # << >> => Len(Tail(todo)) = Len(todo) - 1 /\ Len(todo) > 0
  BY <1>1, HeadTailProperties, EmptySeq
<1> QED BY <1>1, <1>2

\* A query after which there is as much to do, but for itself.
LEMMA Nearer ==
  ASSUME DataOK, UNCHANGED todo, Place' < Place PROVE QueriesLeft' < QueriesLeft
<1>1. Place \in 0..12 /\ Place' \in 0..12
  BY DEF Place
<1> QED BY <1>1, TodoShrinks DEF QueriesLeft

\* One after which a specification less is to be seen to.
LEMMA Fewer ==
  ASSUME DataOK, Place' \in 0..12, \/ todo' = Tail(todo) /\ todo # << >>
                                   \/ todo' = << >> /\ todo # << >>,
         Place' <= 7, Place >= 2
  PROVE  QueriesLeft' < QueriesLeft
<1>1. Len(todo') <= Len(todo) - 1 /\ Len(todo') \in Nat /\ Len(todo) \in Nat
  BY TodoShrinks
<1> QED BY <1>1, PlaceIsSmall DEF QueriesLeft

LEMMA CandidateLeft ==
  ASSUME DataOK, NextCandidate, pc # "ended", todo # << >> \/ cmd.op = "explain",
         Place >= 2
  PROVE  QueriesLeft' < QueriesLeft
<1>1. /\ cmd' = cmd /\ Place' \in 0..12
      /\ Place' = IF cmd.op = "recommend" /\ Len(todo) > 1 THEN 7 ELSE 1
  BY DEF NextCandidate, Place
<1>2. CASE todo # << >>
  BY <1>1, <1>2, Fewer DEF NextCandidate
<1>3. CASE todo = << >>
  <2>1. todo' = todo /\ Place' = 1
    BY <1>1, <1>3 DEF NextCandidate
  <2> QED BY <2>1, PlaceIsSmall, Nearer
<1> QED BY <1>2, <1>3

LEMMA AsksLeft ==
  ASSUME Typed, \/ AskInstalled \/ AskVersion \/ AskAvailable \/ AskServer
                \/ AskStatements \/ AskWorkload
  PROVE  QueriesLeft' < QueriesLeft
<1>1. todo' = todo /\ cmd' = cmd
  BY DEF AskInstalled, AskVersion, AskAvailable, AskServer, AskStatements, AskWorkload, Status
<1>2. ASSUME pc' = Goal(cmd) PROVE Place' <= 7
  BY <1>1, <1>2 DEF Goal, Place, Single
<1>3. Place' < Place
  <2>1. CASE AskInstalled
    BY <2>1 DEF AskInstalled, Status, Place
  <2>2. CASE AskVersion
    <3>1. pc = "version" /\ pc' \in {Goal(cmd), "ended"}
      BY <2>2 DEF AskVersion, Status, Resolved
    <3> QED BY <1>2, <3>1, PlaceIsSmall DEF Place
  <2>3. CASE AskAvailable
    BY <2>3 DEF AskAvailable, Status, Resolved, Place
  <2>4. CASE AskServer
    BY <2>4 DEF AskServer, Status, Resolved, Place
  <2>5. CASE AskStatements
    BY <2>5 DEF AskStatements, Status, Place
  <2>6. CASE AskWorkload
    BY <2>6 DEF AskWorkload, Status, Place
  <2> QED BY <2>1, <2>2, <2>3, <2>4, <2>5, <2>6
<1> QED BY <1>1, <1>3, Nearer DEF Typed

LEMMA BeforeLeft == ASSUME Typed, ExplainBefore PROVE QueriesLeft' < QueriesLeft
<1>1. CASE NextCandidate
  <2>1. Place >= 2 /\ pc # "ended"
    BY DEF ExplainBefore, Place
  <2>2. todo # << >> \/ cmd.op = "explain"
    BY DEF ExplainBefore, Typed, Placed
  <2> QED BY <1>1, <2>1, <2>2, CandidateLeft DEF Typed
<1>2. CASE UNCHANGED <<cmd, todo>> /\ pc' = IF cmd.op # "explain" THEN "create"
                 ELSE IF cmd.specs = << >> THEN "ended" ELSE "installed"
  <2>1. Place' < Place
    BY <1>2 DEF ExplainBefore, Place
  <2> QED BY <1>2, <2>1, Nearer DEF Typed
<1> QED BY <1>1, <1>2 DEF ExplainBefore

LEMMA CreateLeft == ASSUME Typed, CreateIndex PROVE QueriesLeft' < QueriesLeft
<1>1. pc = "create" /\ todo # << >>
  BY DEF CreateIndex, Typed, Placed
<1>2. CASE UNCHANGED <<cmd, todo>> /\ pc' \in {"define", "reset"}
  <2>1. Place' < Place
    BY <1>1, <1>2 DEF Place
  <2> QED BY <1>2, <2>1, Nearer DEF Typed
<1>3. CASE NextCandidate
  BY <1>1, <1>3, CandidateLeft DEF Typed, Place
<1> QED BY <1>2, <1>3 DEF CreateIndex, Raised

LEMMA SizeLeft == ASSUME Typed, SizeIndex PROVE QueriesLeft' < QueriesLeft
<1>1. pc = "size" /\ todo # << >> /\ cmd' = cmd /\ Place = 4
  BY DEF SizeIndex, Typed, Placed, Place
<1>2. Place' <= 6 /\ Place' \in 0..12
  BY DEF SizeIndex, Place
<1>3. CASE cmd.op = "explain"
  <2>1. todo' = Tail(todo)
    BY <1>3 DEF SizeIndex
  <2> QED BY <1>1, <1>2, <2>1, Fewer DEF Typed
<1>4. CASE cmd.op # "explain"
  <2>1. todo' = todo /\ Place' < Place
    BY <1>1, <1>4 DEF SizeIndex, Place
  <2> QED BY <2>1, Nearer DEF Typed
<1> QED BY <1>3, <1>4

LEMMA RestLeft ==
  ASSUME Typed, DefineIndex \/ ExplainAfter \/ DropIndex \/ Reset \/ AskOnce \/ Close
  PROVE  QueriesLeft' < QueriesLeft
<1>1. CASE DefineIndex \/ ExplainAfter \/ AskOnce \/ Close
  <2>1. todo' = todo /\ Place' < Place
    BY <1>1 DEF DefineIndex, ExplainAfter, AskOnce, Close, Place
  <2> QED BY <2>1, Nearer DEF Typed
<1>2. CASE DropIndex
  <2>1. todo # << >> /\ Place = 2 /\ pc # "ended"
    BY <1>2 DEF DropIndex, Typed, Placed, Place
  <2> QED BY <1>2, <2>1, CandidateLeft DEF Typed, DropIndex
<1>3. CASE Reset
  <2>1. Place = 2 /\ Place' = 1 /\ todo' = << >>
    BY <1>3 DEF Reset, Place
  <2>2. CASE todo = << >>
    BY <2>1, <2>2, Nearer DEF Typed
  <2>3. CASE todo # << >>
    BY <2>1, <2>3, Fewer DEF Typed
  <2> QED BY <2>2, <2>3
<1> QED BY <1>1, <1>2, <1>3

\* A command makes finitely many queries, at most ten for each specification and
\* twelve more: nothing that fails is asked again, no candidate is compared twice,
\* and the two `finally`s do not start over.
THEOREM CommandsWindDown ==
  Spec => /\ [](QueriesLeft \in 0..(10 * Len(todo) + 12))
          /\ [][/\ Step => QueriesLeft' < QueriesLeft
                /\ pc # "idle" => QueriesLeft' <= QueriesLeft]_vars
<1>1. ASSUME Typed, Step PROVE QueriesLeft' < QueriesLeft
  BY <1>1, AsksLeft, BeforeLeft, CreateLeft, SizeLeft, RestLeft DEF Step
<1>2. ASSUME Typed, Next, pc # "idle" PROVE QueriesLeft' <= QueriesLeft
  <2>1. Typed'
    BY <1>2, TypedStep
  <2>2. QueriesLeft \in Nat /\ QueriesLeft' \in Nat
    <3>1. Len(todo) \in Nat /\ Len(todo') \in Nat
      BY <1>2, <2>1 DEF Typed, DataOK
    <3>2. Place \in 0..12 /\ Place' \in 0..12
      BY DEF Place
    <3> QED BY <3>1, <3>2 DEF QueriesLeft
  <2>3. CASE Step
    <3>1. QueriesLeft' < QueriesLeft
      BY <1>1, <1>2, <2>3
    <3> QED BY <2>2, <3>1
  <2>4. CASE Grow
    BY <2>2, <2>4 DEF Grow, QueriesLeft, Place
  <2> QED BY <1>2, <2>3, <2>4 DEF Next, Start
<1>3. Typed /\ [Next]_vars =>
        [/\ Step => QueriesLeft' < QueriesLeft
         /\ pc # "idle" => QueriesLeft' <= QueriesLeft]_vars
  BY <1>1, <1>2
<1>4. Spec => []Typed
  BY TypedInit, TypedStep, PTL DEF Spec
<1>5. Typed => QueriesLeft \in 0..(10 * Len(todo) + 12)
  BY TodoShrinks, PlaceIsSmall DEF Typed, QueriesLeft
<1> QED BY <1>3, <1>4, <1>5, PTL DEF Spec
=============================================================================
