--------------------------- MODULE ReadOnlyQueryProofs ---------------------------
(***************************************************************************)
(* What holds of execute_query for a pool of any size.                     *)
(*                                                                         *)
(* That the promise is kept rests on what each statement finds: the         *)
(* connection it is given has no transaction, and the transaction the last *)
(* statement left is the one of this query, and of its kind (Stages).       *)
(* Within the text, what was written so far is either there for good or in  *)
(* the transaction that is open, and a read-only query has written nothing  *)
(* that its text had not freed before (InText).                             *)
(***************************************************************************)
EXTENDS ReadOnlyQuery, TLAPS

\* What the pool hands out has no transaction.
PoolOK == \A c \in free : conn[c] \in {"idle", "lost"}

Wrote(k) == \E i \in 1..k : query.text[i] = "write"

Freed(k) == \E i \in 1..k : query.text[i] = "commit"

\* What may have an effect, by the promise.
MayLast == Promise!Writes(query) /\ ~ Promise!Refused(query)

Written == conn[held] \in {"written", "bare written"}

\* The transaction between two statements of the text, and what was written so far.
InText ==
  /\ conn[held] \in {"idle", "readonly", "readwrite", "written", "bare",
                     "bare written", "lost"}
  /\ query.readonly => started
  /\ conn[held] = "lost" => made = 0
  /\ Wrote(made) <=> effect \/ Written
  /\ conn[held] = "readonly" => ~ Wrote(made) /\ query.readonly
  /\ conn[held] \in {"idle", "readwrite", "written"} => ~ query.readonly
  /\ Bare => Freed(made)
  /\ query.readonly => \A i \in 1..made : query.text[i] = "write" => Freed(i)

\* The text is made, and what there is to end.
AtFinish ==
  /\ conn[held] \in {"idle", "readonly", "readwrite", "written"}
  /\ query.readonly => started /\ conn[held] \in {"idle", "readonly"}
  /\ ~ Promise!Refused(query)
  /\ Promise!Writes(query) <=> effect \/ conn[held] = "written"

\* Before each statement: the transaction there is, and its effect so far.
Stages ==
  /\ pc # "ready" => answer = "none"
  /\ pc \in {"reconnecting", "waiting", "begin", "execute", "finish"} => raised = "no"
  /\ pc \in {"reconnecting", "waiting", "begin"} => ~ started /\ made = 0 /\ ~ effect
  /\ pc = "begin" => query.readonly
  /\ pc = "execute" => InText
  /\ pc = "finish" => AtFinish
  /\ pc = "rollback" => raised # "no" /\ conn[held] \in {"idle", "failed", "lost"}
  /\ pc = "leave" /\ raised = "no" =>
       /\ conn[held] = "idle" /\ ~ Promise!Refused(query)
       /\ effect = Promise!Writes(query)
  /\ pc = "ready" /\ raised = "operational" => ~ valid
  /\ effect => MayLast

Inductive == TypeOK /\ PoolOK /\ Stages /\ NothingToCommit

LEMMA TextType ==
  ASSUME Inductive
  PROVE  /\ query.text \in Seq({"read", "write", "commit"}) /\ Len(query.text) \in Nat
         /\ Len(query.text) >= 1 /\ DOMAIN query.text = 1..Len(query.text)
         /\ made \in 0..Len(query.text) /\ query.readonly \in BOOLEAN
<1>1. query.text \in Texts /\ query.readonly \in BOOLEAN /\ made \in 0..Len(query.text)
  BY DEF Inductive, TypeOK, TypesOK, Queries
<1>2. query.text \in Seq({"read", "write", "commit"}) /\ query.text # << >>
  BY <1>1, TextsAssumption
<1> QED BY <1>1, <1>2

LEMMA InitInductive == Init => Inductive
<1> SUFFICES ASSUME Init PROVE Inductive
  OBVIOUS
<1> USE ConnsAssumption DEF Init, Gone
<1>1. TypeOK
  <2>1. query.text \in Seq({"read", "write", "commit"})
    BY TextsAssumption DEF Queries
  <2>2. made \in 0..Len(query.text)
    BY <2>1
  <2> QED BY <2>2 DEF TypeOK, TypesOK, CustodyOK, Statuses, Holding
<1>2. PoolOK /\ Stages /\ NothingToCommit
  BY DEF PoolOK, Stages, NothingToCommit
<1> QED BY <1>1, <1>2 DEF Inductive

\* Ask: a query begins with no exception and no effect.
LEMMA AskInductive ==
  ASSUME Inductive, NEW asked \in Queries, Ask(asked) PROVE Inductive'
<1> USE DEF Inductive, Ask
<1>1. TypeOK'
  <2>1. asked.text \in Seq({"read", "write", "commit"})
    BY TextsAssumption DEF Queries
  <2>2. made' \in 0..Len(query'.text)
    BY <2>1
  <2> QED BY <2>2 DEF TypeOK, TypesOK, CustodyOK, Holding
<1>2. PoolOK' /\ Stages' /\ NothingToCommit'
  BY DEF PoolOK, Stages, NothingToCommit, TypeOK, TypesOK
<1> QED BY <1>1, <1>2

\* A new pool has one connection, or there is none.
LEMMA ReconnectInductive == Inductive /\ Reconnect => Inductive'
<1> SUFFICES ASSUME Inductive, Reconnect PROVE Inductive'
  OBVIOUS
<1> USE ConnsAssumption DEF Inductive, Reconnect, Gone
<1>1. held = None
  BY DEF TypeOK, CustodyOK, Holding
<1>2. TypeOK'
  BY <1>1 DEF TypeOK, TypesOK, CustodyOK, Holding, Statuses
<1>3. PoolOK' /\ Stages' /\ NothingToCommit'
  BY DEF PoolOK, Stages, NothingToCommit
<1> QED BY <1>2, <1>3

LEMMA CheckOutInductive == Inductive /\ CheckOut => Inductive'
<1> SUFFICES ASSUME Inductive, CheckOut PROVE Inductive'
  OBVIOUS
<1> USE DEF Inductive, CheckOut
<1> PICK c \in free : held' = c /\ free' = free \ {c}
  OBVIOUS
<1>1. c \in Conns /\ c # None /\ held = None
  BY ConnsAssumption DEF TypeOK, TypesOK, CustodyOK, Holding
<1>2. TypeOK'
  <2>1. TypesOK'
    BY <1>1 DEF TypeOK, TypesOK
  <2>2. Holding' /\ held' = c /\ c \notin free'
    BY DEF Holding
  <2>3. conn' = conn /\ \A d \in Conns : conn[d] # "none" <=> d \in free' \/ d = held'
    BY <1>1, ConnsAssumption DEF TypeOK, CustodyOK
  <2>4. CustodyOK'
    BY <1>1, <2>2, <2>3 DEF CustodyOK
  <2> QED BY <2>1, <2>4 DEF TypeOK
<1>3. PoolOK' /\ conn'[held'] \in {"idle", "lost"}
  BY DEF PoolOK
<1>4. made = 0 /\ ~ effect /\ made' = made /\ UNCHANGED <<query, effect, started>>
  BY DEF Stages
<1>5. made' = 0 /\ ~ Wrote(made)'
  BY <1>4 DEF Wrote
<1>6. query.readonly \/ InText'
  <2> SUFFICES ASSUME ~ query.readonly PROVE InText'
    OBVIOUS
  <2>1. query' = query /\ ~ effect'
    BY <1>4
  <2>2. ~ Written' /\ ~ Bare'
    BY <1>3 DEF Written, Bare
  <2> QED BY <1>3, <1>5, <2>1, <2>2 DEF InText
<1>7. pc' = "execute" => ~ query.readonly
  OBVIOUS
<1>8. Stages' /\ NothingToCommit'
  BY <1>3, <1>4, <1>6, <1>7 DEF Stages, NothingToCommit, MayLast
<1> QED BY <1>2, <1>3, <1>8

LEMMA TimeOutInductive == Inductive /\ TimeOut => Inductive'
<1> SUFFICES ASSUME Inductive, TimeOut PROVE Inductive'
  OBVIOUS
<1> USE DEF Inductive, TimeOut
<1>1. TypeOK'
  BY DEF TypeOK, TypesOK, CustodyOK, Holding
<1>2. PoolOK' /\ Stages' /\ NothingToCommit'
  BY DEF PoolOK, Stages, NothingToCommit
<1> QED BY <1>1, <1>2

\* A statement of the query under way changes the status of its connection only.
LEMMA Statement ==
  ASSUME Inductive, Holding, pc' \in {"execute", "finish", "rollback", "leave"},
         NEW status \in Statuses \ {"none"}, Becomes(status),
         UNCHANGED <<free, valid, held, query, answer>>,
         made' \in 0..Len(query.text), started' \in BOOLEAN, effect' \in BOOLEAN,
         raised' \in {"no"} \cup Kinds
  PROVE  TypeOK' /\ PoolOK' /\ conn'[held] = status /\ held \in Conns
<1> USE DEF Inductive, Becomes
<1>1. held \in Conns
  BY DEF TypeOK, TypesOK, CustodyOK
<1>2. conn'[held] = status /\ \A c \in Conns \ {held} : conn'[c] = conn[c]
  BY <1>1 DEF TypeOK, TypesOK
<1>3. TypesOK'
  BY <1>1 DEF TypeOK, TypesOK
<1>4. CustodyOK'
  BY <1>1, <1>2 DEF TypeOK, TypesOK, CustodyOK, Holding
<1>5. PoolOK'
  BY <1>2 DEF PoolOK, TypeOK, TypesOK, CustodyOK
<1> QED BY <1>1, <1>2, <1>3, <1>4, <1>5 DEF TypeOK

\* An exception: the except block finds the connection in the status it left.
LEMMA Raising ==
  ASSUME Inductive, pc \in {"begin", "execute", "finish"},
         NEW status \in {"idle", "failed", "lost"}, NEW kind \in Kinds,
         Raises(status, kind), UNCHANGED <<free, valid, held, query, made, answer>>,
         effect' \in BOOLEAN, effect' => MayLast
  PROVE  Inductive'
<1> USE DEF Inductive, Raises
<1>1. Holding /\ status \in Statuses \ {"none"} /\ started \in BOOLEAN
  BY DEF Holding, Statuses, TypeOK, TypesOK
<1>2. TypeOK' /\ PoolOK' /\ conn'[held] = status
  BY <1>1, Statement, TextType
<1>3. MayLast' <=> MayLast
  BY DEF MayLast
<1>4. Stages' /\ NothingToCommit'
  BY <1>2, <1>3 DEF Stages, NothingToCommit, Kinds
<1> QED BY <1>2, <1>4

\* The same for the two ways a statement fails, whatever effect there was before.
LEMMA Failing ==
  ASSUME Inductive, pc \in {"begin", "execute", "finish"},
         NEW statuses \in SUBSET {"idle", "failed"}, FailsIn(statuses) \/ Loses,
         UNCHANGED <<free, valid, held, query, made, effect, answer>>
  PROVE  Inductive'
<1>1. effect' \in BOOLEAN /\ (effect' => MayLast)
  BY DEF Inductive, Stages, TypeOK, TypesOK
<1>2. CASE FailsIn(statuses)
  BY <1>1, <1>2, Raising DEF FailsIn
<1>3. CASE Loses
  BY <1>1, <1>3, Raising DEF Loses, Kinds
<1> QED BY <1>2, <1>3

LEMMA BeginInductive == Inductive /\ Begin => Inductive'
<1> SUFFICES ASSUME Inductive, Begin PROVE Inductive'
  OBVIOUS
<1>1. CASE /\ conn[held] = "idle" /\ Becomes("readonly")
           /\ started' = TRUE /\ pc' = "execute" /\ UNCHANGED raised
  <2>1. TypeOK' /\ PoolOK' /\ conn'[held] = "readonly"
    BY <1>1, Statement, TextType DEF Begin, Inductive, Holding, Statuses, TypeOK, TypesOK
  <2>2. made = 0 /\ ~ effect /\ query.readonly /\ raised = "no" /\ answer = "none"
    BY DEF Begin, Inductive, Stages
  <2>3. InText'
    BY <1>1, <2>1, <2>2 DEF Begin, InText, Wrote, Written, Bare
  <2>4. Stages' /\ NothingToCommit'
    BY <1>1, <2>2, <2>3 DEF Begin, Stages, NothingToCommit
  <2> QED BY <2>1, <2>4 DEF Inductive
<1>2. CASE FailsIn({"idle", "failed"}) \/ Loses
  BY <1>2, Failing DEF Begin
<1> QED BY <1>1, <1>2 DEF Begin

\* A statement that is made: what it writes comes to what was written before.
LEMMA MadeInText ==
  ASSUME Inductive, pc = "execute", made < Len(query.text), conn[held] # "lost",
         conn[held] = "readonly" => query.text[made + 1] # "write",
         conn'[held] = After(query.text[made + 1]), made' = made + 1,
         effect' = (effect \/ (query.text[made + 1] = "commit" /\ Written)),
         UNCHANGED <<held, query, started>>
  PROVE  InText' /\ (effect' => MayLast)
<1> DEFINE statement == query.text[made + 1]
<1>1. /\ InText /\ (effect => MayLast) /\ effect \in BOOLEAN
      /\ made \in Nat /\ made + 1 \in DOMAIN query.text
      /\ DOMAIN query.text = 1..Len(query.text) /\ Len(query.text) \in Nat
      /\ statement \in {"read", "write", "commit"}
  BY TextType DEF Inductive, Stages, TypeOK, TypesOK
<1>2. 1..(made + 1) = 1..made \cup {made + 1}
  BY <1>1
<1>3. /\ Wrote(made + 1) <=> Wrote(made) \/ statement = "write"
      /\ Freed(made + 1) <=> Freed(made) \/ statement = "commit"
  BY <1>2 DEF Wrote, Freed
<1>4. /\ Wrote(made)' <=> Wrote(made + 1)
      /\ Freed(made)' <=> Freed(made + 1)
      /\ \A i : Freed(i)' <=> Freed(i)
  BY DEF Wrote, Freed
<1>5. /\ conn'[held] = "readonly" => conn[held] = "readonly" /\ statement = "read"
      /\ conn'[held] \in {"idle", "readwrite", "written"} =>
           conn[held] \in {"idle", "readwrite", "written"}
      /\ Bare' => Bare \/ statement = "commit"
      /\ conn'[held] \in {"readonly", "readwrite", "written", "bare", "bare written"}
      /\ Written' <=> statement = "write" \/ (statement = "read" /\ Written)
  BY <1>1 DEF InText, After, Bare, Written
<1>6. query.readonly /\ statement = "write" => Freed(made + 1)
  BY <1>1, <1>3 DEF InText, Bare
<1>7. query.readonly => \A i \in 1..(made + 1) : query.text[i] = "write" => Freed(i)
  BY <1>1, <1>2, <1>6 DEF InText
<1>8. effect' => MayLast
  <2> SUFFICES ASSUME statement = "commit", Written PROVE MayLast
    BY <1>1
  <2>1. Promise!Writes(query)
    <3>1. PICK i \in 1..made : query.text[i] = "write"
      BY <1>1 DEF InText, Wrote
    <3>2. i \in DOMAIN query.text
      BY <1>1
    <3> QED BY <3>1, <3>2 DEF Promise!Writes
  <2>2. ASSUME query.readonly, NEW i \in DOMAIN query.text, query.text[i] = "write"
        PROVE  \E j \in 1..i : query.text[j] = "commit"
    <3>1. CASE i <= made + 1
      BY <1>1, <1>7, <2>2, <3>1 DEF Freed
    <3>2. CASE i > made + 1
      BY <1>1, <3>2
    <3> QED BY <1>1, <3>1, <3>2
  <2> QED BY <2>1, <2>2 DEF MayLast, Promise!Refused
<1>9. InText'
  BY <1>1, <1>3, <1>4, <1>5, <1>7 DEF InText
<1> QED BY <1>8, <1>9

LEMMA ExecuteInductive == Inductive /\ Execute => Inductive'
<1> SUFFICES ASSUME Inductive, Execute PROVE Inductive'
  OBVIOUS
<1> DEFINE statement == query.text[made + 1]
<1>1. CASE /\ conn[held] # "lost" /\ (conn[held] = "readonly" => statement # "write")
           /\ Becomes(After(statement)) /\ made' = made + 1
           /\ effect' = (effect \/ (statement = "commit" /\ Written))
           /\ UNCHANGED <<pc, started, raised>>
  <2>1. After(statement) \in Statuses \ {"none"}
    BY DEF After, Statuses, Inductive, Stages, InText, Execute
  <2>2. /\ made' \in 0..Len(query.text) /\ started' \in BOOLEAN
        /\ effect' \in BOOLEAN /\ raised' \in {"no"} \cup Kinds
    <3>1. effect \in BOOLEAN /\ started \in BOOLEAN /\ raised \in {"no"} \cup Kinds
      BY DEF Inductive, TypeOK, TypesOK
    <3>2. made' = made + 1 /\ made < Len(query.text)
      BY <1>1 DEF Execute
    <3>3. made' \in 0..Len(query.text)
      BY <3>2, TextType
    <3> QED BY <1>1, <3>1, <3>3
  <2>3. TypeOK' /\ PoolOK' /\ conn'[held] = After(statement)
    BY <1>1, <2>1, <2>2, Statement DEF Execute, Holding
  <2>4. InText' /\ (effect' => MayLast)
    BY <1>1, <2>3, MadeInText DEF Execute
  <2>5. MayLast' <=> MayLast
    BY DEF MayLast, Execute
  <2>6. Stages' /\ NothingToCommit'
    BY <1>1, <2>4, <2>5 DEF Execute, Inductive, Stages, NothingToCommit
  <2> QED BY <2>3, <2>6 DEF Inductive
<1>2. CASE (FailsIn(AfterError(statement)) \/ Loses) /\ UNCHANGED <<made, effect>>
  <2>1. AfterError(statement) \in SUBSET {"idle", "failed"}
    BY DEF AfterError
  <2> QED BY <1>2, <2>1, Failing DEF Execute
<1> QED BY <1>1, <1>2 DEF Execute, Written

\* At the end of the text every write is there or in the transaction.
LEMMA EndTextInductive == Inductive /\ EndText => Inductive'
<1> SUFFICES ASSUME Inductive, EndText PROVE Inductive'
  OBVIOUS
<1>1. /\ InText /\ made = Len(query.text) /\ DOMAIN query.text = 1..made
      /\ effect \in BOOLEAN /\ (effect => MayLast)
  BY TextType DEF EndText, Inductive, Stages, TypeOK, TypesOK
<1>2. /\ Promise!Writes(query) <=> effect \/ Written
      /\ ~ Promise!Refused(query)
  BY <1>1 DEF InText, Wrote, Freed, Promise!Writes, Promise!Refused
<1> DEFINE status == IF Bare THEN "idle" ELSE conn[held]
<1>3. CASE /\ conn[held] # "lost" /\ Becomes(status)
           /\ effect' = (effect \/ conn[held] = "bare written")
           /\ pc' = "finish" /\ UNCHANGED <<started, raised>>
  <2>1. status \in Statuses \ {"none"}
    BY <1>1, <1>3 DEF Statuses, InText, Bare
  <2>2. TypeOK' /\ PoolOK' /\ conn'[held] = status
    BY <1>1, <1>3, <2>1, Statement, TextType
    DEF EndText, Inductive, Holding, TypeOK, TypesOK
  <2>3. AtFinish' /\ (effect' => MayLast')
    BY <1>1, <1>2, <1>3, <2>2
    DEF EndText, AtFinish, InText, Bare, Written, MayLast
  <2>4. Stages' /\ NothingToCommit'
    BY <1>3, <2>3 DEF EndText, Inductive, Stages, NothingToCommit
  <2> QED BY <2>2, <2>4 DEF Inductive
<1>4. CASE (FailsIn({"idle"}) \/ Loses) /\ UNCHANGED effect
  BY <1>4, Failing DEF EndText
<1> QED BY <1>3, <1>4 DEF EndText

LEMMA FinishInductive == Inductive /\ Finish => Inductive'
<1> SUFFICES ASSUME Inductive, Finish PROVE Inductive'
  OBVIOUS
<1>1. /\ AtFinish /\ (effect => MayLast) /\ effect \in BOOLEAN /\ query.readonly \in BOOLEAN
      /\ InCommit \in BOOLEAN /\ (InCommit => MayLast)
  BY TextType DEF Finish, Inductive, Stages, AtFinish, InCommit, MayLast, TypeOK, TypesOK
<1>2. CASE Loses /\ effect' \in {effect, effect \/ InCommit}
  <2>1. effect' \in BOOLEAN /\ (effect' => MayLast)
    BY <1>1, <1>2
  <2> QED BY <1>2, <2>1, Raising DEF Finish, Loses, Kinds
<1>3. CASE FailsIn({"idle", "failed"}) /\ UNCHANGED effect
  BY <1>3, Failing DEF Finish
<1>4. CASE /\ Becomes("idle") /\ pc' = "leave" /\ UNCHANGED raised
           /\ \/ query.readonly /\ started /\ started' = FALSE /\ UNCHANGED effect
              \/ ~ query.readonly /\ effect' = (effect \/ InCommit) /\ UNCHANGED started
  <2>0. effect' \in BOOLEAN /\ started' \in BOOLEAN
    BY <1>1, <1>4 DEF Inductive, TypeOK, TypesOK
  <2>1. TypeOK' /\ PoolOK' /\ conn'[held] = "idle"
    BY <1>4, <2>0, Statement, TextType
    DEF Finish, Inductive, Holding, Statuses, TypeOK, TypesOK
  <2>2. effect' = Promise!Writes(query) /\ ~ Promise!Refused(query)
    <3>1. Promise!Writes(query) \in BOOLEAN
      BY DEF Promise!Writes
    <3>2. effect' <=> effect \/ (~ query.readonly /\ conn[held] = "written")
      <4>1. CASE query.readonly
        BY <1>4, <4>1
      <4>2. CASE ~ query.readonly
        <5>1. effect' = (effect \/ InCommit)
          BY <1>4, <4>2
        <5>2. InCommit <=> conn[held] = "written"
          BY <4>2 DEF InCommit
        <5> QED BY <4>2, <5>1, <5>2
      <4> QED BY <4>1, <4>2
    <3>3. query.readonly => conn[held] # "written"
      BY <1>1 DEF AtFinish
    <3>4. effect' <=> Promise!Writes(query)
      BY <1>1, <3>2, <3>3 DEF AtFinish
    <3> QED BY <1>1, <2>0, <3>1, <3>4 DEF AtFinish
  <2>3. raised = "no" /\ answer = "none" /\ query' = query /\ answer' = answer
    BY DEF Finish, Inductive, Stages
  <2>4. Stages' /\ NothingToCommit'
    BY <1>4, <2>1, <2>2, <2>3 DEF Finish, Stages, NothingToCommit, MayLast
  <2> QED BY <2>1, <2>4 DEF Inductive
<1> QED BY <1>2, <1>3, <1>4 DEF Finish

LEMMA RollbackInductive == Inductive /\ Rollback => Inductive'
<1> SUFFICES ASSUME Inductive, Rollback PROVE Inductive'
  OBVIOUS
<1>0. /\ conn[held] \in {"idle", "failed", "lost"} /\ raised # "no"
      /\ Holding /\ made \in 0..Len(query.text)
  BY DEF Rollback, Inductive, Stages, Holding, TypeOK, TypesOK
<1>1. CASE started /\ \E status \in {"idle", conn[held], "lost"} : Becomes(status)
  <2> PICK status \in {"idle", "failed", "lost"} : Becomes(status)
    BY <1>0, <1>1
  <2>1. TypeOK' /\ PoolOK' /\ conn'[held] = status
    BY <1>0, Statement DEF Rollback, Inductive, Statuses, TypeOK, TypesOK
  <2>2. Stages' /\ NothingToCommit'
    BY <1>0, <2>1 DEF Rollback, Inductive, Stages, NothingToCommit, MayLast
  <2> QED BY <2>1, <2>2 DEF Inductive
<1>2. CASE ~ started /\ UNCHANGED conn
  <2>1. TypeOK' /\ PoolOK'
    BY <1>2 DEF Rollback, Inductive, TypeOK, TypesOK, CustodyOK, Holding, PoolOK
  <2>2. Stages' /\ NothingToCommit'
    BY <1>0, <1>2 DEF Rollback, Inductive, Stages, NothingToCommit, MayLast
  <2> QED BY <2>1, <2>2 DEF Inductive
<1> QED BY <1>1, <1>2 DEF Rollback, Inductive, TypeOK, TypesOK

\* After a query that raised nothing no transaction is left to commit.
LEMMA LeaveCommitsNothing ==
  ASSUME Inductive, Leave PROVE effect' = effect
BY DEF Inductive, Leave, Stages, TypeOK, TypesOK

LEMMA LeaveInductive == Inductive /\ Leave => Inductive'
<1> SUFFICES ASSUME Inductive, Leave PROVE Inductive'
  OBVIOUS
<1> USE DEF Inductive, Leave
<1> PICK lost \in {conn[held] = "lost", conn[held] # "idle"} :
       /\ Becomes(IF lost THEN "none" ELSE "idle")
       /\ free' = IF lost THEN free ELSE free \cup {held}
  OBVIOUS
<1>1. effect' = effect
  BY LeaveCommitsNothing
<1>2. held \in Conns /\ held' = None /\ None \notin Conns
  BY ConnsAssumption DEF TypeOK, TypesOK, CustodyOK, Holding
<1>3. /\ conn'[held] = IF lost THEN "none" ELSE "idle"
      /\ \A c \in Conns \ {held} : conn'[c] = conn[c]
  BY <1>2 DEF Becomes, TypeOK, TypesOK
<1>4. TypesOK'
  BY <1>1, <1>2 DEF Becomes, TypeOK, TypesOK, Statuses
<1>5. CustodyOK'
  BY <1>2, <1>3 DEF TypeOK, TypesOK, CustodyOK, Holding
<1>6. PoolOK'
  <2>1. CASE lost
    BY <1>2, <1>3, <2>1 DEF PoolOK, TypeOK, TypesOK, CustodyOK
  <2>2. CASE ~ lost
    BY <1>2, <1>3, <2>2 DEF PoolOK, TypeOK, TypesOK, CustodyOK
  <2> QED BY <2>1, <2>2
<1>7. Stages' /\ NothingToCommit'
  BY <1>1 DEF Stages, NothingToCommit, MayLast, TypeOK, TypesOK, Kinds
<1> QED BY <1>4, <1>5, <1>6, <1>7 DEF TypeOK

\* What happens to other connections than the one of the query is nothing to it.
LEMMA StagesStay ==
  ASSUME Inductive, conn'[held] = conn[held] \/ ~ Holding,
         UNCHANGED <<valid, held, pc, query, made, started, raised, effect, answer>>
  PROVE  Stages' /\ NothingToCommit'
<1>1. MayLast' <=> MayLast
  BY DEF MayLast
<1>2. CASE Holding /\ conn'[held] = conn[held]
  <2>1. AtFinish' <=> AtFinish
    BY <1>2 DEF AtFinish
  <2>2. InText' <=> InText
    BY <1>2 DEF InText, Wrote, Freed, Written, Bare
  <2> QED BY <1>1, <1>2, <2>1, <2>2 DEF Inductive, Stages, NothingToCommit
<1>3. CASE ~ Holding
  BY <1>1, <1>3 DEF Inductive, Stages, NothingToCommit, Holding
<1> QED BY <1>2, <1>3

\* The connection of the query under way is not in the pool.
LEMMA DropInductive == Inductive /\ Drop => Inductive'
<1> SUFFICES ASSUME Inductive, Drop PROVE Inductive'
  OBVIOUS
<1> USE DEF Inductive, Drop
<1> PICK c \in free : conn[c] = "idle" /\ conn' = [conn EXCEPT ![c] = "lost"]
  OBVIOUS
<1>1. c \in Conns /\ c # held
  BY DEF TypeOK, TypesOK, CustodyOK
<1>2. conn'[c] = "lost" /\ \A d \in Conns \ {c} : conn'[d] = conn[d]
  BY <1>1 DEF TypeOK, TypesOK
<1>3. TypeOK'
  BY <1>1, <1>2 DEF TypeOK, TypesOK, CustodyOK, Holding, Statuses
<1>4. PoolOK'
  BY <1>1, <1>2 DEF PoolOK, TypeOK, TypesOK
<1>5. conn'[held] = conn[held] \/ ~ Holding
  BY <1>1, <1>2 DEF TypeOK, TypesOK, CustodyOK
<1>6. Stages' /\ NothingToCommit'
  BY <1>5, StagesStay
<1> QED BY <1>3, <1>4, <1>6

LEMMA GrowInductive == Inductive /\ Grow => Inductive'
<1> SUFFICES ASSUME Inductive, Grow PROVE Inductive'
  OBVIOUS
<1> USE DEF Inductive, Grow
<1> PICK c \in Conns : /\ conn[c] = "none" /\ conn' = [conn EXCEPT ![c] = "idle"]
                       /\ free' = free \cup {c}
  OBVIOUS
<1>1. c # held
  BY DEF TypeOK, TypesOK, CustodyOK
<1>2. conn'[c] = "idle" /\ \A d \in Conns \ {c} : conn'[d] = conn[d]
  BY DEF TypeOK, TypesOK
<1>3. TypeOK'
  BY <1>1, <1>2 DEF TypeOK, TypesOK, CustodyOK, Holding, Statuses
<1>4. PoolOK'
  BY <1>2 DEF PoolOK, TypeOK, TypesOK
<1>5. conn'[held] = conn[held] \/ ~ Holding
  BY <1>1, <1>2 DEF TypeOK, TypesOK, CustodyOK
<1>6. Stages' /\ NothingToCommit'
  BY <1>5, StagesStay
<1> QED BY <1>3, <1>4, <1>6

LEMMA KillInductive == Inductive /\ Kill => Inductive'
<1> SUFFICES ASSUME Inductive, Kill PROVE Inductive'
  OBVIOUS
<1> USE ConnsAssumption DEF Inductive, Kill, Gone
<1>1. TypeOK'
  BY DEF TypeOK, TypesOK, CustodyOK, Holding, Statuses
<1>2. PoolOK' /\ Stages' /\ NothingToCommit'
  BY DEF PoolOK, Stages, NothingToCommit, MayLast
<1> QED BY <1>1, <1>2

LEMMA NextInductive == Inductive /\ [Next]_vars => Inductive'
<1> SUFFICES ASSUME Inductive, [Next]_vars PROVE Inductive'
  OBVIOUS
<1>1. ASSUME NEW asked \in Queries, Ask(asked) PROVE Inductive'
  BY <1>1, AskInductive
<1>2. CASE Step
  BY <1>2, ReconnectInductive, CheckOutInductive, TimeOutInductive, BeginInductive,
     ExecuteInductive, EndTextInductive, FinishInductive, RollbackInductive,
     LeaveInductive DEF Step
<1>3. CASE Drop \/ Grow \/ Kill
  BY <1>3, DropInductive, GrowInductive, KillInductive
<1>4. CASE UNCHANGED vars
  <2>1. Stages'
    BY <1>4, StagesStay DEF vars
  <2> QED BY <1>4, <2>1 DEF vars, Inductive, TypeOK, TypesOK, CustodyOK, Holding,
          PoolOK, NothingToCommit
<1> QED BY <1>1, <1>2, <1>3, <1>4 DEF Next

LEMMA AlwaysInductive == Spec => []Inductive
BY InitInductive, NextInductive, PTL DEF Spec

-----------------------------------------------------------------------------
\* Types and the custody of connections: whatever the size of the pool, each
\* connection is in it or with the query under way (DbConnPool, execute_query).
THEOREM TypeCorrect == Spec => []TypeOK
BY AlwaysInductive, PTL DEF Inductive

\* On every path out of _execute_with_connection, a BEGIN or a ROLLBACK that fails with
\* the connection alive included, what psycopg finds open is nothing it would commit.
THEOREM TransactionEnded == Spec => []NothingToCommit
BY AlwaysInductive, PTL DEF Inductive

\* After an exception about a connection the next query of execute_query makes a
\* new pool first.
THEOREM NewPoolAfterLoss == Spec => ReconnectsAfterLoss
<1>1. Inductive /\ [Next]_vars =>
        [pc = "ready" /\ raised = "operational" => pc' # "waiting"]_vars
  <2> SUFFICES ASSUME Inductive, Next, pc = "ready", raised = "operational"
               PROVE  pc' # "waiting"
    BY DEF vars
  <2>1. ~ valid
    BY DEF Inductive, Stages
  <2> QED BY <2>1 DEF Next, Step, Ask, Reconnect, CheckOut, TimeOut, Begin, Execute,
                      EndText, Finish, Rollback, Leave, Drop, Grow, Kill
<1> QED BY <1>1, AlwaysInductive, PTL DEF Spec, ReconnectsAfterLoss

-----------------------------------------------------------------------------
LEMMA PromisedInit == Init => Promise!Init
BY DEF Init, Promise!Init

\* The answer of a query that raised nothing comes after its whole effect.
LEMMA LeavePromised ==
  ASSUME Inductive, Leave PROVE Promise!Succeed \/ Promise!Fail
<1>1. effect' = effect /\ query' = query
  BY LeaveCommitsNothing DEF Leave
<1>2. /\ answer = "none"
      /\ raised = "no" => ~ Promise!Refused(query) /\ effect = Promise!Writes(query)
  BY DEF Inductive, Stages, Leave
<1> QED BY <1>1, <1>2 DEF Leave, Promise!Succeed, Promise!Fail

\* A step that is not an answer makes the effect of a query that may have one, if it
\* makes any; what was there before stays.
LEMMA CommitPromised ==
  ASSUME Inductive, Inductive', pc # "ready", effect => effect',
         UNCHANGED <<query, answer>>
  PROVE  Promise!Commit \/ UNCHANGED Promise!vars
<1>1. answer = "none" /\ effect \in BOOLEAN /\ effect' \in BOOLEAN
  BY DEF Inductive, Stages, TypeOK, TypesOK
<1>2. effect' => MayLast
  BY DEF Inductive, Stages, MayLast
<1> QED BY <1>1, <1>2 DEF MayLast, Promise!Commit, Promise!vars

LEMMA PromisedNext == Inductive /\ [Next]_vars => [Promise!Next]_(Promise!vars)
<1> SUFFICES ASSUME Inductive, [Next]_vars PROVE [Promise!Next]_(Promise!vars)
  OBVIOUS
<1> USE DEF Promise!Next
<1>1. ASSUME NEW asked \in Queries, Ask(asked) PROVE Promise!Next
  BY <1>1 DEF Ask, Promise!Ask
<1>2. CASE Reconnect
  BY <1>2 DEF Reconnect, Inductive, Stages, Promise!Fail, Promise!vars
<1>3. CASE TimeOut
  BY <1>3 DEF TimeOut, Inductive, Stages, Promise!Fail
<1>4. CASE Execute \/ EndText \/ Finish
  <2>1. Inductive' /\ pc # "ready" /\ UNCHANGED <<query, answer>>
    BY <1>4, ExecuteInductive, EndTextInductive, FinishInductive
    DEF Execute, EndText, Finish
  <2>2. effect => effect'
    BY <1>4 DEF Execute, EndText, Finish
  <2> QED BY <2>1, <2>2, CommitPromised
<1>5. CASE Leave
  BY <1>5, LeavePromised
<1>6. CASE CheckOut \/ Begin \/ Rollback \/ Drop \/ Grow \/ Kill \/ UNCHANGED vars
  BY <1>6 DEF CheckOut, Begin, Rollback, Drop, Grow, Kill, vars, Promise!vars
<1> QED BY <1>1, <1>2, <1>3, <1>4, <1>5, <1>6 DEF Next, Step

\* execute_query keeps QueryPromise for texts of any length: however statements fail,
\* connections are lost or the process is killed, nothing of a read-only query stays in
\* the database, unless its own text has ended the transaction before it writes.
THEOREM PromiseKept == Spec => KeepsPromise
<1>1. Spec => Promise!Spec
  BY PromisedInit, PromisedNext, AlwaysInductive, PTL DEF Spec, Promise!Spec
<1> QED BY <1>1 DEF KeepsPromise

-----------------------------------------------------------------------------
\* How far a query is from its answer.
StatementsLeft ==
  CASE pc = "reconnecting" -> Len(query.text) + 7
    [] pc = "waiting"      -> Len(query.text) + 6
    [] pc = "begin"        -> Len(query.text) + 5
    [] pc = "execute"      -> (Len(query.text) - made) + 4
    [] pc = "finish"       -> 3
    [] pc = "rollback"     -> 2
    [] pc = "leave"        -> 1
    [] OTHER               -> 0

\* Each statement of a query is made once, whatever is answered to it: every step of
\* execute_query is a step towards the answer, and neither the server nor a kill
\* ever takes a query back to a statement it has made.
THEOREM StatementsMadeOnce ==
  Spec => [][/\ Step => StatementsLeft' < StatementsLeft
             /\ pc # "ready" => StatementsLeft' <= StatementsLeft]_vars
<1>a. Inductive => StatementsLeft \in Nat
  BY TextType DEF StatementsLeft
<1>b. Inductive' => (StatementsLeft \in Nat)'
  BY <1>a, PTL
<1>1. ASSUME Inductive, Inductive', Next
      PROVE  /\ Step => StatementsLeft' < StatementsLeft
             /\ pc # "ready" => StatementsLeft' <= StatementsLeft
  <2>0. /\ Len(query.text) \in Nat /\ Len(query.text) >= 1
        /\ made \in 0..Len(query.text)
        /\ pc \in {"reconnecting", "waiting", "begin"} => made = 0
    BY <1>1, TextType DEF Inductive, Stages
  <2>1. StatementsLeft \in Nat /\ StatementsLeft' \in Nat
    BY <1>a, <1>b, <1>1
  <2>2. Step => StatementsLeft' < StatementsLeft
    <3>1. Reconnect \/ CheckOut \/ TimeOut => StatementsLeft' < StatementsLeft
      BY <2>0 DEF Reconnect, CheckOut, TimeOut, StatementsLeft
    <3>2. Begin => /\ pc = "begin" /\ pc' \in {"execute", "rollback"}
                   /\ UNCHANGED <<query, made>>
      BY DEF Begin, Raises, FailsIn, Loses
    <3>3. Execute =>
            /\ pc = "execute" /\ query' = query /\ made < Len(query.text)
            /\ (pc' = "execute" /\ made' = made + 1) \/ pc' = "rollback"
      BY DEF Execute, Raises, FailsIn, Loses
    <3>4. EndText => pc = "execute" /\ pc' \in {"finish", "rollback"}
      BY DEF EndText, Raises, FailsIn, Loses
    <3>5. Finish => pc = "finish" /\ pc' \in {"leave", "rollback"}
      BY DEF Finish, Raises, FailsIn, Loses
    <3>6. Begin \/ Execute => StatementsLeft' < StatementsLeft
      BY <2>0, <3>2, <3>3 DEF StatementsLeft
    <3>7. EndText \/ Finish => StatementsLeft' < StatementsLeft
      BY <2>0, <3>4, <3>5 DEF StatementsLeft
    <3>8. Rollback \/ Leave => StatementsLeft' < StatementsLeft
      BY DEF Rollback, Leave, StatementsLeft
    <3> QED BY <3>1, <3>6, <3>7, <3>8 DEF Step
  <2>3. Drop \/ Grow \/ Kill => StatementsLeft' <= StatementsLeft
    <3>1. CASE Drop \/ Grow
      BY <3>1, <2>1 DEF Drop, Grow, StatementsLeft
    <3>2. CASE Kill
      BY <3>2, <2>1 DEF Kill, StatementsLeft
    <3> QED BY <3>1, <3>2
  <2>4. (\E asked \in Queries : Ask(asked)) => pc = "ready"
    BY DEF Ask
  <2> QED BY <1>1, <2>1, <2>2, <2>3, <2>4 DEF Next
<1>2. Inductive /\ Inductive' /\ [Next]_vars =>
        [/\ Step => StatementsLeft' < StatementsLeft
         /\ pc # "ready" => StatementsLeft' <= StatementsLeft]_vars
  BY <1>1
<1> QED BY <1>2, AlwaysInductive, PTL DEF Spec
=============================================================================
