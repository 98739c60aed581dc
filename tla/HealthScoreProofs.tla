---------------------------- MODULE HealthScoreProofs ----------------------------
(***************************************************************************)
(* The checks of health-check for every reading of a server, not only for  *)
(* those next to a threshold.                                              *)
(*                                                                         *)
(* Each check is settled by a lemma of its own (...Fair: what it scores and *)
(* explains, ...Ordered: worse readings); the inductive invariant says that *)
(* a score stays what its check gave, its issues stay with it, and a check  *)
(* without an issue lost little.                                           *)
(***************************************************************************)
EXTENDS HealthScore, CommonTheorems

\* A verdict that scores 0 to 100, and explains the loss of half of them.
Fair(verdict) ==
  /\ verdict.score \in 0..100
  /\ verdict.levels \subseteq Levels
  /\ verdict.score <= 50 => verdict.levels # {}

LEMMA NoneIsNoNumber == None \notin Nat
BY HealthAssumption

LEMMA OrZeroIsNat == ASSUME NEW value \in Nat \cup {None} PROVE OrZero(value) \in Nat
BY DEF OrZero

LEMMA ParsedIsNat == ASSUME NEW size \in Size PROVE ParseSize(size) \in Nat
BY DEF ParseSize, Size

LEMMA ConnectionsFair == ASSUME NEW used \in Nat PROVE Fair(CheckConnections(used))
BY DEF Fair, CheckConnections, Verdict, Labelled, Levels

LEMMA CacheFair == ASSUME NEW ratio PROVE Fair(CheckCacheRatios(ratio))
BY DEF Fair, CheckCacheRatios, Verdict, Labelled, Lost, Levels

LEMMA LocksFair == ASSUME NEW locks PROVE Fair(CheckLocks(locks))
BY DEF Fair, CheckLocks, Verdict, Labelled, Lost, Levels

LEMMA ReplicationFair ==
  ASSUME NEW lag \in Nat \cup {None} PROVE Fair(CheckReplication(lag))
BY OrZeroIsNat DEF Fair, CheckReplication, Verdict, Labelled, Levels, Mb

LEMMA WraparoundFair == ASSUME NEW pct \in Nat PROVE Fair(CheckWraparound(pct))
BY DEF Fair, CheckWraparound, Verdict, Labelled, Levels

LEMMA BgwriterFair == ASSUME NEW writes PROVE Fair(CheckBgwriter(writes))
BY DEF Fair, CheckBgwriter, Verdict, Labelled, Lost, Levels

LEMMA CheckpointsFair == ASSUME NEW hourly PROVE Fair(CheckCheckpoints(hourly))
BY DEF Fair, CheckCheckpoints, Verdict, Labelled, Levels

LEMMA SettingsFair == ASSUME NEW set PROVE Fair(CheckCriticalSettings(set))
BY DEF Fair, CheckCriticalSettings, Verdict, Labelled, Lost, Levels

LEMMA ReadingTypes ==
  ASSUME NEW check \in Checks, NEW reading \in Answers[check]
  PROVE  /\ check = "connections" => reading \in Percent
         /\ check = "replication" => reading \in Nat \cup {None}
         /\ check = "wraparound" => reading \in Percent \cup {None}
         /\ check = "cache" => reading \in [buffer : Percent \cup {None}, index : Percent \cup {None}]
         /\ check = "locks" => reading \in [waiting : Nat, blocked : Nat]
         /\ check = "bgwriter" => reading \in [timed : Percent, backend : Percent]
         /\ check = "checkpoints" => reading \in Nat
         /\ check = "settings" =>
              reading \in [shared_buffers : Size, work_mem : Size,
                           completion_target : Percent, autovacuum : {"on", "off"}]
<1>1. reading \in Readable[check]
  BY HealthAssumption
<1>2. Readable["connections"] = Percent /\ Readable["replication"] = Nat \cup {None}
  BY DEF Readable
<1>3. Readable["wraparound"] = Percent \cup {None} /\ Readable["checkpoints"] = Nat
  BY DEF Readable
<1>4. Readable["cache"] = [buffer : Percent \cup {None}, index : Percent \cup {None}]
  BY DEF Readable
<1>5. Readable["locks"] = [waiting : Nat, blocked : Nat]
  BY DEF Readable
<1>6. Readable["bgwriter"] = [timed : Percent, backend : Percent]
  BY DEF Readable
<1>7. Readable["settings"] = [shared_buffers : Size, work_mem : Size,
                              completion_target : Percent, autovacuum : {"on", "off"}]
  BY DEF Readable
<1> QED BY <1>1, <1>2, <1>3, <1>4, <1>5, <1>6, <1>7

\* Whatever is read, the verdict on it is fair.
LEMMA JudgedFairly ==
  ASSUME NEW check \in Checks, NEW reading \in Answers[check], Scored(check, reading)
  PROVE  Fair(Judge(check, reading))
<1>1. CASE check = "connections"
  BY <1>1, ReadingTypes, ConnectionsFair DEF Judge, Percent
<1>2. CASE check = "cache"
  BY <1>2, CacheFair DEF Judge
<1>3. CASE check = "locks"
  BY <1>3, LocksFair DEF Judge
<1>4. CASE check = "replication"
  BY <1>4, ReadingTypes, ReplicationFair DEF Judge
<1>5. CASE check = "wraparound"
  BY <1>5, ReadingTypes, WraparoundFair DEF Judge, Scored, Percent
<1>6. CASE check = "disk_usage"
  BY <1>6 DEF Judge, Fair, Verdict
<1>7. CASE check = "bgwriter"
  BY <1>7, BgwriterFair DEF Judge
<1>8. CASE check = "checkpoints"
  BY <1>8, CheckpointsFair DEF Judge
<1>9. CASE check = "settings"
  BY <1>9, SettingsFair DEF Judge
<1> QED BY <1>1, <1>2, <1>3, <1>4, <1>5, <1>6, <1>7, <1>8, <1>9 DEF Checks

-----------------------------------------------------------------------------
\* A reading at least as bad never scores higher.
LEMMA WorseJudgedLower ==
  ASSUME NEW check \in Checks, NEW r \in Answers[check], NEW s \in Answers[check],
         AsBad(check, r, s)
  PROVE  Judge(check, r).score <= Judge(check, s).score
<1>1. CASE check = "connections"
  <2>1. r \in Nat /\ s \in Nat /\ r >= s
    BY <1>1, ReadingTypes DEF AsBad, Percent
  <2> QED BY <1>1, <2>1 DEF Judge, CheckConnections, Verdict
<1>2. CASE check = "cache"
  <2>1. /\ OrZero(r.buffer) \in Nat /\ OrZero(s.buffer) \in Nat
        /\ OrZero(r.index) \in Nat /\ OrZero(s.index) \in Nat
    BY <1>2, ReadingTypes DEF OrZero, Percent
  <2>2. OrZero(r.buffer) <= OrZero(s.buffer) /\ OrZero(r.index) <= OrZero(s.index)
    BY <1>2 DEF AsBad
  <2> QED BY <1>2, <2>1, <2>2 DEF Judge, CheckCacheRatios, Verdict, Lost
<1>3. CASE check = "locks"
  BY <1>3, ReadingTypes DEF AsBad, Judge, CheckLocks, Verdict, Lost
<1>4. CASE check = "replication"
  <2>1. r \in Nat /\ s \in Nat /\ r >= s /\ OrZero(r) = r /\ OrZero(s) = s
    BY <1>4, ReadingTypes DEF AsBad, OrZero
  <2> QED BY <1>4, <2>1 DEF Judge, CheckReplication, Verdict, Mb
<1>5. CASE check = "wraparound"
  <2>1. r \in Nat /\ s \in Nat /\ r >= s
    BY <1>5, ReadingTypes DEF AsBad, Percent
  <2> QED BY <1>5, <2>1 DEF Judge, CheckWraparound, Verdict
<1>6. CASE check = "disk_usage"
  BY <1>6 DEF AsBad
<1>7. CASE check = "bgwriter"
  <2>1. /\ r.timed \in Nat /\ s.timed \in Nat /\ r.backend \in Nat /\ s.backend \in Nat
        /\ 0 < r.timed /\ r.timed <= s.timed /\ r.backend >= s.backend
    BY <1>7, ReadingTypes DEF AsBad, Percent
  <2>2. /\ OrHundred(r.timed) = r.timed /\ OrHundred(s.timed) = s.timed
        /\ OrZero(r.backend) = r.backend /\ OrZero(s.backend) = s.backend
    BY <2>1, NoneIsNoNumber DEF OrHundred, OrZero
  <2> QED BY <1>7, <2>1, <2>2 DEF Judge, CheckBgwriter, Verdict, Lost
<1>8. CASE check = "checkpoints"
  BY <1>8, ReadingTypes DEF AsBad, Judge, CheckCheckpoints, Verdict
<1>9. CASE check = "settings"
  <2>1. /\ ParseSize(r.shared_buffers) \in Nat /\ ParseSize(s.shared_buffers) \in Nat
        /\ ParseSize(r.work_mem) \in Nat /\ ParseSize(s.work_mem) \in Nat
        /\ r.completion_target \in Nat /\ s.completion_target \in Nat
    BY <1>9, ReadingTypes, ParsedIsNat DEF Percent
  <2>2. /\ ParseSize(r.shared_buffers) <= ParseSize(s.shared_buffers)
        /\ ParseSize(r.work_mem) <= ParseSize(s.work_mem)
        /\ r.completion_target <= s.completion_target
        /\ s.autovacuum = "off" => r.autovacuum = "off"
    BY <1>9 DEF AsBad
  <2> QED BY <1>9, <2>1, <2>2 DEF Judge, CheckCriticalSettings, Verdict, Lost, Mb
<1> QED BY <1>1, <1>2, <1>3, <1>4, <1>5, <1>6, <1>7, <1>8, <1>9 DEF Checks

-----------------------------------------------------------------------------
\* The least a check scores when it leaves no issue: six locks waiting, or two
\* settings of medium weight, take 20 points in silence, and nothing else does.
Floor(check) == IF check \in {"locks", "settings"} THEN 80 ELSE 100

LEMMA SilenceIsMild ==
  ASSUME NEW check \in Checks, NEW reading \in Answers[check],
         Scored(check, reading), Judge(check, reading).levels = {}
  PROVE  Judge(check, reading).score >= Floor(check)
<1>1. CASE check = "connections"
  <2>1. reading \in Nat
    BY <1>1, ReadingTypes DEF Percent
  <2> QED BY <1>1, <2>1 DEF Judge, Floor, CheckConnections, Verdict, Labelled
<1>2. CASE check = "cache"
  BY <1>2 DEF Judge, Floor, CheckCacheRatios, Verdict, Labelled, Lost
<1>3. CASE check = "locks"
  <2>1. reading.waiting \in Nat /\ reading.blocked \in Nat
    BY <1>3, ReadingTypes
  <2> QED BY <1>3, <2>1 DEF Judge, Floor, CheckLocks, Verdict, Labelled, Lost
<1>4. CASE check = "replication"
  <2>1. OrZero(reading) \in Nat
    BY <1>4, ReadingTypes, OrZeroIsNat
  <2> QED BY <1>4, <2>1 DEF Judge, Floor, CheckReplication, Verdict, Labelled, Mb
<1>5. CASE check = "wraparound"
  <2>1. reading \in Nat
    BY <1>5, ReadingTypes DEF Scored, Percent
  <2> QED BY <1>5, <2>1 DEF Judge, Floor, CheckWraparound, Verdict, Labelled
<1>6. CASE check = "disk_usage"
  BY <1>6 DEF Judge, Floor, Verdict
<1>7. CASE check = "bgwriter"
  BY <1>7 DEF Judge, Floor, CheckBgwriter, Verdict, Labelled, Lost
<1>8. CASE check = "checkpoints"
  BY <1>8 DEF Judge, Floor, CheckCheckpoints, Verdict, Labelled
<1>9. CASE check = "settings"
  BY <1>9 DEF Judge, Floor, CheckCriticalSettings, Verdict, Labelled, Lost
<1> QED BY <1>1, <1>2, <1>3, <1>4, <1>5, <1>6, <1>7, <1>8, <1>9 DEF Checks

-----------------------------------------------------------------------------
\* Each check comes once in Order.
LEMMA OrderTakesAll ==
  /\ Len(Order) = 9
  /\ \A i \in 1..9 : Order[i] \in Checks
  /\ \A i, j \in 1..9 : Order[i] = Order[j] => i = j
BY DEF Order, Checks

LEMMA ChecksFinite == ASSUME NEW S \in SUBSET Checks PROVE IsFiniteSet(S)
<1>1. Order \in [1..9 -> Checks]
  BY DEF Checks, Order
<1>2. \A c \in Checks : \E i \in 1..9 : Order[i] = c
  BY DEF Checks, Order
<1>3. 1 \in Int /\ 9 \in Int
  OBVIOUS
<1>4. IsFiniteSet(1..9)
  BY <1>3, FS_Interval
<1>5. Order \in Surjection(1..9, Checks)
  BY <1>1, <1>2 DEF Surjection
<1>6. IsFiniteSet(Checks)
  BY <1>4, <1>5, FS_Surjection
<1> QED BY <1>6, FS_Subset

\* The mean of every check at its floor or above is a healthy one.
LEMMA SilentIsHealthy ==
  ASSUME DOMAIN scores \subseteq Checks, Checks \ {"wraparound"} \subseteq DOMAIN scores,
         \A c \in DOMAIN scores : scores[c] \in 0..100 /\ scores[c] >= Floor(c)
  PROVE  MeanIs(90)
<1> DEFINE mild == DOMAIN scores \ {"locks"}
           full == mild \ {"settings"}
<1>1. IsFiniteSet(DOMAIN scores)
  BY ChecksFinite
<1>2. /\ IsFiniteSet(mild) /\ "locks" \in DOMAIN scores
      /\ IsFiniteSet(full) /\ "settings" \in mild
  BY <1>1, FS_Subset DEF Checks
<1>3. \A c \in DOMAIN scores : scores[c] \in Nat
  OBVIOUS
<1>4. Total = Sum(scores, DOMAIN scores)
  BY DEF Total, FoldFunction, Sum, SumFunctionOnSet
<1>5. Sum(scores, DOMAIN scores) = scores["locks"] + Sum(scores, mild)
  BY <1>1, <1>2, <1>3, SumRemove
<1>6. Sum(scores, mild) = scores["settings"] + Sum(scores, full)
  BY <1>2, <1>3, SumRemove
<1>7. Cardinality(full) \in Nat /\ Sum(scores, full) = 100 * Cardinality(full)
  <2>1. \A c \in full : scores[c] = 100
    BY DEF Floor
  <2> QED BY <1>2, <2>1, SumConstant
<1>8. Cardinality(DOMAIN scores) = Cardinality(full) + 2
  <2>1. Cardinality(DOMAIN scores) \in Nat /\ Cardinality(mild) \in Nat
    BY <1>1, <1>2, FS_CardinalityType
  <2>2. Cardinality(mild) = Cardinality(DOMAIN scores) - 1
    BY <1>1, <1>2, FS_RemoveElement
  <2>3. Cardinality(full) = Cardinality(mild) - 1
    BY <1>2, FS_RemoveElement
  <2> QED BY <2>1, <2>2, <2>3
<1>9. Cardinality(full) >= 2
  <2>1. {"cache", "disk_usage"} \subseteq full
    BY DEF Checks
  <2>2. Cardinality({"cache", "disk_usage"}) = 2
    <3>1. IsFiniteSet({"cache"}) /\ Cardinality({"cache"}) = 1
      BY FS_Singleton
    <3>2. Cardinality({"cache"} \cup {"disk_usage"}) = 2
      BY <3>1, FS_AddElement
    <3>3. {"cache"} \cup {"disk_usage"} = {"cache", "disk_usage"}
      OBVIOUS
    <3> QED BY <3>2, <3>3
  <2> QED BY <1>2, <2>1, <2>2, FS_Subset
<1>10. scores["locks"] \in Nat /\ scores["locks"] >= 80
  BY <1>2 DEF Floor
<1>11. scores["settings"] \in Nat /\ scores["settings"] >= 80
  BY <1>2 DEF Floor
<1> HIDE DEF mild, full
<1> QED BY <1>4, <1>5, <1>6, <1>7, <1>8, <1>9, <1>10, <1>11 DEF MeanIs

\* What is scored is the verdict on what was read, with its issues.
LastJudged ==
  at > 0 => /\ answer \in Answers[Order[at]]
            /\ Order[at] \in DOMAIN scores =>
                 scores[Order[at]] = Judge(Order[at], answer).score

\* Every check so far has a score, but for one that may find nothing to score.
AllScored == \A i \in 1..at : Order[i] # "wraparound" => Order[i] \in DOMAIN scores

SilenceBounded ==
  \A check \in DOMAIN scores :
    (\A issue \in issues : issue.check # check) => scores[check] >= Floor(check)

Inductive ==
  TypeOK /\ LossesExplained /\ LastJudged /\ AllScored /\ SilenceBounded /\ StatusExplained

LEMMA CleanInductive ==
  ASSUME at = 0, scores = << >>, issues = {}, status = "none"
  PROVE  Inductive
<1>1. DOMAIN scores = {}
  OBVIOUS
<1> QED BY <1>1, OrderTakesAll DEF Inductive, TypeOK, LossesExplained, LastJudged,
        AllScored, SilenceBounded, StatusExplained

LEMMA CheckInductive == ASSUME Inductive, Check PROVE Inductive'
<1> DEFINE check == Order[at + 1]
<1>1. at \in 0..8 /\ at' = at + 1 /\ status' = status /\ check \in Checks
  BY OrderTakesAll DEF Check, Inductive, TypeOK
<1>2. PICK reading \in Answers[check] :
        /\ answer' = reading
        /\ IF Scored(check, reading)
           THEN /\ scores' = [c \in DOMAIN scores \cup {check} |->
                                IF c = check THEN Judge(check, reading).score ELSE scores[c]]
                /\ issues' = issues \cup
                     {[check |-> check, level |-> level] : level \in Judge(check, reading).levels}
           ELSE UNCHANGED <<scores, issues>>
  BY DEF Check
<1>3. check = Order[at'] /\ check \notin DOMAIN scores
  <2>1. DOMAIN scores \subseteq {Order[i] : i \in 1..at}
    BY DEF Inductive, TypeOK
  <2>2. \A i \in 1..at : Order[i] # Order[at + 1]
    BY <1>1, OrderTakesAll
  <2> QED BY <1>1, <2>1, <2>2
<1>4. {Order[i] : i \in 1..at} \cup {check} \subseteq {Order[i] : i \in 1..at'}
  BY <1>1
<1> HIDE DEF check
<1>5. CASE Scored(check, reading)
  <2>1. Fair(Judge(check, reading))
    BY <1>1, <1>2, <1>5, JudgedFairly
  <2>2. DOMAIN scores' = DOMAIN scores \cup {check}
    BY <1>2, <1>5
  <2>3. scores'[check] = Judge(check, reading).score
    BY <1>2, <1>5
  <2>4. \A c \in DOMAIN scores : scores'[c] = scores[c]
    BY <1>2, <1>3, <1>5
  <2>5. issues' = issues \cup
          {[check |-> check, level |-> level] : level \in Judge(check, reading).levels}
    BY <1>2, <1>5
  <2>6. TypeOK'
    <3>1. at' \in 0..Len(Order) /\ status' \in {"none", "healthy", "warning", "critical"}
      BY <1>1, OrderTakesAll DEF Inductive, TypeOK
    <3>2. DOMAIN scores' \subseteq {Order[i] : i \in 1..at'}
      BY <1>4, <2>2 DEF Inductive, TypeOK
    <3>3. \A c \in DOMAIN scores' : scores'[c] \in 0..100
      BY <2>1, <2>2, <2>3, <2>4 DEF Fair, Inductive, TypeOK
    <3>4. issues' \subseteq [check : DOMAIN scores', level : Levels]
      BY <2>1, <2>2, <2>5 DEF Fair, Inductive, TypeOK
    <3> QED BY <3>1, <3>2, <3>3, <3>4 DEF TypeOK
  <2>7. LossesExplained'
    <3>1. SUFFICES ASSUME NEW c \in DOMAIN scores', scores'[c] <= 50
                   PROVE  \E issue \in issues' : issue.check = c
      BY DEF LossesExplained
    <3>2. CASE c = check
      <4>1. PICK level : level \in Judge(check, reading).levels
        BY <2>1, <2>3, <3>1, <3>2 DEF Fair
      <4>2. [check |-> check, level |-> level] \in issues'
        BY <2>5, <4>1
      <4> QED BY <3>2, <4>2
    <3>3. CASE c # check
      BY <2>2, <2>4, <2>5, <3>1, <3>3 DEF Inductive, LossesExplained
    <3> QED BY <3>2, <3>3
  <2>8. LastJudged'
    BY <1>2, <1>3, <2>3 DEF LastJudged
  <2>9. AllScored'
    <3>1. \A i \in 1..at' : i \in 1..at \/ i = at'
      BY <1>1
    <3> QED BY <1>3, <2>2, <3>1 DEF Inductive, AllScored
  <2>10. SilenceBounded'
    <3>1. SUFFICES ASSUME NEW c \in DOMAIN scores', \A issue \in issues' : issue.check # c
                   PROVE  scores'[c] >= Floor(c)
      BY DEF SilenceBounded
    <3>2. CASE c = check
      <4>1. \A level \in Judge(check, reading).levels :
              [check |-> check, level |-> level] \in issues'
        BY <2>5
      <4>2. Judge(check, reading).levels = {}
        BY <3>1, <3>2, <4>1
      <4> QED BY <1>1, <1>2, <1>5, <2>3, <3>2, <4>2, SilenceIsMild
    <3>3. CASE c # check
      BY <2>2, <2>4, <2>5, <3>1, <3>3 DEF Inductive, SilenceBounded
    <3> QED BY <3>2, <3>3
  <2>11. StatusExplained'
    BY <1>1, <2>5 DEF Inductive, StatusExplained
  <2> QED BY <2>6, <2>7, <2>8, <2>9, <2>10, <2>11 DEF Inductive
<1>6. CASE ~ Scored(check, reading)
  <2>1. UNCHANGED <<scores, issues>>
    BY <1>2, <1>6
  <2>2. TypeOK'
    BY <1>1, <1>4, <2>1, OrderTakesAll DEF Inductive, TypeOK
  <2>3. LossesExplained'
    BY <2>1 DEF Inductive, LossesExplained
  <2>4. LastJudged'
    BY <1>2, <1>3, <2>1 DEF LastJudged
  <2>5. AllScored'
    <3>1. \A i \in 1..at' : i \in 1..at \/ i = at'
      BY <1>1
    <3>2. check = "wraparound"
      BY <1>6 DEF Scored
    <3> QED BY <1>3, <2>1, <3>1, <3>2 DEF Inductive, AllScored
  <2>6. SilenceBounded' /\ StatusExplained'
    BY <1>1, <2>1 DEF Inductive, SilenceBounded, StatusExplained
  <2> QED BY <2>2, <2>3, <2>4, <2>5, <2>6 DEF Inductive
<1> QED BY <1>5, <1>6

LEMMA ReportInductive == ASSUME Inductive, Report PROVE Inductive'
<1>1. at = 9 /\ UNCHANGED <<at, answer, scores, issues>>
  BY OrderTakesAll DEF Report
<1>2. TypeOK' /\ LossesExplained' /\ LastJudged' /\ AllScored' /\ SilenceBounded'
  <2>1. status' \in {"healthy", "warning", "critical"}
    BY DEF Report
  <2> QED BY <1>1, <2>1 DEF Inductive, TypeOK, LossesExplained, LastJudged, AllScored,
          SilenceBounded
<1>3. StatusExplained'
  <2>1. SUFFICES ASSUME issues = {} PROVE status' = "healthy"
    BY <1>1 DEF StatusExplained
  <2>2. DOMAIN scores \subseteq Checks
    BY <1>1, OrderTakesAll DEF Inductive, TypeOK
  <2>3. Checks \ {"wraparound"} \subseteq DOMAIN scores
    <3>1. Checks \subseteq {Order[i] : i \in 1..9}
      BY DEF Checks, Order
    <3> QED BY <1>1, <3>1 DEF Inductive, AllScored
  <2>4. \A c \in DOMAIN scores : scores[c] \in 0..100 /\ scores[c] >= Floor(c)
    BY <2>1 DEF Inductive, TypeOK, SilenceBounded
  <2>5. MeanIs(90)
    BY <2>2, <2>3, <2>4, SilentIsHealthy
  <2> QED BY <2>5 DEF Report
<1> QED BY <1>2, <1>3 DEF Inductive

LEMMA NextInductive == Inductive /\ [Next]_vars => Inductive'
<1> SUFFICES ASSUME Inductive, [Next]_vars PROVE Inductive'
  OBVIOUS
<1>1. CASE Check
  BY <1>1, CheckInductive
<1>2. CASE Clear
  <2>1. at' = 0 /\ scores' = << >> /\ issues' = {} /\ status' = "none" /\ DOMAIN scores' = {}
    BY <1>2 DEF Clear
  <2> QED BY <2>1, OrderTakesAll DEF Inductive, TypeOK, LossesExplained, LastJudged,
          AllScored, SilenceBounded, StatusExplained
<1>3. CASE Report
  BY <1>3, ReportInductive
<1>4. CASE UNCHANGED vars
  BY <1>4 DEF vars, Inductive, TypeOK, LossesExplained, LastJudged,
              AllScored, SilenceBounded, StatusExplained
<1> QED BY <1>1, <1>2, <1>3, <1>4 DEF Next, Fail, Again

LEMMA AlwaysInductive == Spec => []Inductive
<1>1. Init => Inductive
  BY CleanInductive DEF Init
<1> QED BY <1>1, NextInductive, PTL DEF Spec

\* A score is 0 to 100 whatever a server answers: no check goes below 0, with
\* or without the max(0, score) of the code.
THEOREM TypeCorrect == Spec => []TypeOK
<1>1. Inductive => TypeOK
  BY DEF Inductive
<1> QED BY <1>1, AlwaysInductive, PTL

\* For every server, a check that loses half of its points says why.
THEOREM AllLossesExplained == Spec => []LossesExplained
<1>1. Inductive => LossesExplained
  BY DEF Inductive
<1> QED BY <1>1, AlwaysInductive, PTL

\* No server is reported below healthy without an issue that says why,
\* whatever its checks read: what they take off in silence is at most 40
\* points of the eight or nine scores, and 80 are needed.
THEOREM EveryStatusExplained == Spec => []StatusExplained
<1>1. Inductive => StatusExplained
  BY DEF Inductive
<1> QED BY <1>1, AlwaysInductive, PTL

\* For any two readings, the worse one scores no higher, but for a server none
\* of whose checkpoints were timed.
THEOREM ScoresAreMonotone == Spec => []WorseNeverScoresHigher
<1>1. ASSUME Inductive PROVE WorseNeverScoresHigher
  <2>1. SUFFICES ASSUME NEW check \in DOMAIN scores, at > 0, Order[at] = check,
                        NEW r \in Answers[check], AsBad(check, r, answer)
                 PROVE  Judge(check, r).score <= scores[check]
    BY DEF WorseNeverScoresHigher
  <2>2. at \in 1..9 /\ check \in Checks
    BY <1>1, <2>1, OrderTakesAll DEF Inductive, TypeOK
  <2>3. answer \in Answers[check] /\ scores[check] = Judge(check, answer).score
    BY <1>1, <2>1 DEF Inductive, LastJudged
  <2> QED BY <2>1, <2>2, <2>3, WorseJudgedLower
<1> QED BY <1>1, AlwaysInductive, PTL

-----------------------------------------------------------------------------
(* The status as a function of what a server answers, one reading a check.  *)

Readings(server) == \A c \in Checks : server[c] \in Answers[c]

ScoredIn(server) == {c \in Checks : Scored(c, server[c])}

ScoresOf(server) == [c \in ScoredIn(server) |-> Judge(c, server[c]).score]

MeanOf(server, bound) ==
  SumFunction(ScoresOf(server)) >= bound * Cardinality(ScoredIn(server))

StatusOf(server) ==
  IF MeanOf(server, 90) THEN "healthy" ELSE IF MeanOf(server, 70) THEN "warning" ELSE "critical"

Severity == [healthy |-> 0, warning |-> 1, critical |-> 2]

\* Every reading of a server is that of another, or at least as bad.
AsBadServer(worse, better) ==
  \A c \in Checks : worse[c] = better[c] \/ AsBad(c, worse[c], better[c])

\* A worse server is not reported as healthier.
LEMMA WorseNeverHealthier ==
  ASSUME NEW worse, NEW better, Readings(worse), Readings(better), AsBadServer(worse, better)
  PROVE  Severity[StatusOf(worse)] >= Severity[StatusOf(better)]
<1> DEFINE S == ScoredIn(better)  f == ScoresOf(worse)  g == ScoresOf(better)
<1>1. ScoredIn(worse) = S
  <2>1. \A c \in Checks : Scored(c, worse[c]) <=> Scored(c, better[c])
    <3>1. \A c \in Checks : c # "wraparound" => Scored(c, worse[c]) /\ Scored(c, better[c])
      BY DEF Scored
    <3>2. Scored("wraparound", worse["wraparound"])
            <=> Scored("wraparound", better["wraparound"])
      BY DEF AsBadServer, AsBad, Scored, Checks
    <3> QED BY <3>1, <3>2
  <2> QED BY <2>1 DEF ScoredIn
<1>2. IsFiniteSet(S) /\ S \subseteq Checks /\ Cardinality(S) \in Nat
  BY ChecksFinite, FS_CardinalityType DEF ScoredIn
<1>3. ASSUME NEW c \in S PROVE f[c] \in Nat /\ g[c] \in Nat /\ f[c] <= g[c]
  <2>1. c \in Checks /\ Scored(c, worse[c]) /\ Scored(c, better[c])
    BY <1>1 DEF ScoredIn
  <2>2. worse[c] \in Answers[c] /\ better[c] \in Answers[c]
    BY <2>1 DEF Readings
  <2>3. f[c] = Judge(c, worse[c]).score /\ g[c] = Judge(c, better[c]).score
    BY <1>1 DEF ScoresOf
  <2>4. Judge(c, worse[c]).score \in 0..100 /\ Judge(c, better[c]).score \in 0..100
    BY <2>1, <2>2, JudgedFairly DEF Fair
  <2>5. Judge(c, worse[c]).score <= Judge(c, better[c]).score
    BY <2>1, <2>2, <2>4, WorseJudgedLower DEF AsBadServer
  <2> QED BY <2>3, <2>4, <2>5
<1>4. DOMAIN f = S /\ DOMAIN g = S
  BY <1>1 DEF ScoresOf
<1>5. /\ SumFunction(f) = Sum(f, S) /\ SumFunction(g) = Sum(g, S)
      /\ Sum(f, S) \in Nat /\ Sum(g, S) \in Nat /\ Sum(f, S) <= Sum(g, S)
  <2> HIDE DEF f, g, S
  <2>1. SumFunction(f) = Sum(f, S) /\ SumFunction(g) = Sum(g, S)
    BY <1>4, FunctionSum, Zenon
  <2> QED BY <1>2, <1>3, <2>1, SumNat, SumMonotone
<1>6. /\ MeanOf(worse, 90) <=> Sum(f, S) >= 90 * Cardinality(S)
      /\ MeanOf(worse, 70) <=> Sum(f, S) >= 70 * Cardinality(S)
      /\ MeanOf(better, 90) <=> Sum(g, S) >= 90 * Cardinality(S)
      /\ MeanOf(better, 70) <=> Sum(g, S) >= 70 * Cardinality(S)
  BY <1>1, <1>5 DEF MeanOf
<1> HIDE DEF f, g, S
<1>7. /\ MeanOf(worse, 90) => MeanOf(better, 90)
      /\ MeanOf(worse, 70) => MeanOf(better, 70)
      /\ MeanOf(worse, 90) => MeanOf(worse, 70)
  BY <1>2, <1>5, <1>6
<1> QED BY <1>7 DEF StatusOf, Severity

-----------------------------------------------------------------------------
\* The scores so far are those of one server.
ScoresAre(server) ==
  \A i \in 1..at :
    /\ server[Order[i]] \in Answers[Order[i]]
    /\ Order[i] \in DOMAIN scores <=> Scored(Order[i], server[Order[i]])
    /\ Order[i] \in DOMAIN scores => scores[Order[i]] = Judge(Order[i], server[Order[i]]).score

Traced ==
  /\ \E server : ScoresAre(server)
  /\ status # "none" => at = 9 /\ \E server : ScoresAre(server) /\ status = StatusOf(server)

LEMMA CheckTraced == ASSUME Inductive, Traced, Check PROVE Traced'
<1> DEFINE check == Order[at + 1]
<1>1. at \in 0..8 /\ at' = at + 1 /\ status' = status
  BY OrderTakesAll DEF Check, Inductive, TypeOK
<1>2. status = "none"
  BY <1>1 DEF Traced
<1>3. PICK reading \in Answers[check] :
        IF Scored(check, reading)
        THEN scores' = [c \in DOMAIN scores \cup {check} |->
                          IF c = check THEN Judge(check, reading).score ELSE scores[c]]
        ELSE scores' = scores
  BY DEF Check
<1>4. PICK server : ScoresAre(server)
  BY DEF Traced
<1> PICK next : next = [c \in Checks |-> IF c = check THEN reading ELSE server[c]]
  OBVIOUS
<1>5. check \in Checks /\ \A i \in 1..at : Order[i] \in Checks /\ Order[i] # check
  BY <1>1, OrderTakesAll
<1>6. check \notin DOMAIN scores
  BY <1>5 DEF Inductive, TypeOK
<1>7. next[check] = reading /\ \A i \in 1..at : next[Order[i]] = server[Order[i]]
  BY <1>5
<1>8. \A i \in 1..at' : i \in 1..at \/ i = at + 1
  BY <1>1
<1> HIDE DEF check
<1>9. /\ check \in DOMAIN scores' <=> Scored(check, reading)
      /\ check \in DOMAIN scores' => scores'[check] = Judge(check, reading).score
      /\ \A c : c # check => (c \in DOMAIN scores' <=> c \in DOMAIN scores)
      /\ \A c \in DOMAIN scores : scores'[c] = scores[c]
  <2>1. CASE Scored(check, reading)
    BY <1>3, <1>6, <2>1
  <2>2. CASE ~ Scored(check, reading)
    BY <1>3, <1>6, <2>2
  <2> QED BY <2>1, <2>2
<1>10. ScoresAre(next)'
  <2>1. SUFFICES ASSUME NEW i \in 1..at'
                 PROVE  /\ next[Order[i]] \in Answers[Order[i]]
                        /\ Order[i] \in DOMAIN scores' <=> Scored(Order[i], next[Order[i]])
                        /\ Order[i] \in DOMAIN scores' =>
                             scores'[Order[i]] = Judge(Order[i], next[Order[i]]).score
    BY DEF ScoresAre
  <2>2. CASE i = at + 1
    <3>1. Order[i] = check
      BY <2>2 DEF check
    <3> QED BY <1>3, <1>7, <1>9, <3>1
  <2>3. CASE i \in 1..at
    BY <1>4, <1>5, <1>7, <1>9, <2>3 DEF ScoresAre
  <2> QED BY <1>8, <2>1, <2>2, <2>3
<1> QED BY <1>1, <1>2, <1>10 DEF Traced

LEMMA ReportTraced == ASSUME Inductive, Traced, Report PROVE Traced'
<1>1. at = 9 /\ UNCHANGED <<at, scores>>
  BY OrderTakesAll DEF Report
<1>2. PICK server : ScoresAre(server)
  BY DEF Traced
<1>3. ScoresAre(server)'
  BY <1>1, <1>2 DEF ScoresAre
<1>4. DOMAIN scores = ScoredIn(server)
  <2>1. DOMAIN scores \subseteq Checks
    BY <1>1, OrderTakesAll DEF Inductive, TypeOK
  <2>2. \A c \in Checks : \E i \in 1..9 : c = Order[i]
    BY DEF Checks, Order
  <2>3. \A c \in Checks : c \in DOMAIN scores <=> Scored(c, server[c])
    BY <1>1, <1>2, <2>2 DEF ScoresAre
  <2> QED BY <2>1, <2>3 DEF ScoredIn
<1>5. Total = SumFunction(ScoresOf(server))
  <2> DEFINE f == scores  g == ScoresOf(server)  S == DOMAIN scores
  <2>1. IsFiniteSet(S)
    BY <1>4, ChecksFinite DEF ScoredIn
  <2>2. DOMAIN g = S
    BY <1>4 DEF ScoresOf
  <2>3. ASSUME NEW c \in S PROVE f[c] = g[c]
    <3>1. PICK i \in 1..9 : c = Order[i]
      BY <1>4 DEF ScoredIn, Checks, Order
    <3>2. scores[c] = Judge(c, server[c]).score
      BY <1>1, <1>2, <3>1 DEF ScoresAre
    <3> QED BY <1>4, <3>2 DEF ScoresOf
  <2>4. Total = Sum(f, S)
    BY DEF Total, FoldFunction, Sum, SumFunctionOnSet
  <2> HIDE DEF f, g, S
  <2>5. Sum(f, S) = Sum(g, S)
    BY <2>1, <2>3, SumSame
  <2>6. SumFunction(g) = Sum(g, S)
    BY <2>2, FunctionSum, Zenon
  <2> QED BY <2>4, <2>5, <2>6 DEF g
<1>6. MeanIs(90) = MeanOf(server, 90) /\ MeanIs(70) = MeanOf(server, 70)
  BY <1>4, <1>5 DEF MeanIs, MeanOf
<1>7. status' = StatusOf(server)
  BY <1>6 DEF Report, StatusOf
<1> QED BY <1>1, <1>3, <1>7 DEF Traced

LEMMA NextTraced == Inductive /\ Traced /\ [Next]_vars => Traced'
<1> SUFFICES ASSUME Inductive, Traced, [Next]_vars PROVE Traced'
  OBVIOUS
<1>1. CASE Clear
  <2>1. at' = 0 /\ status' = "none"
    BY <1>1 DEF Clear
  <2>2. \A server : ScoresAre(server)'
    BY <2>1 DEF ScoresAre
  <2> QED BY <2>1, <2>2 DEF Traced
<1>2. CASE UNCHANGED vars
  <2>1. \A server : ScoresAre(server)' <=> ScoresAre(server)
    BY <1>2 DEF ScoresAre, vars
  <2> QED BY <1>2, <2>1 DEF Traced, vars
<1> QED BY <1>1, <1>2, CheckTraced, ReportTraced DEF Next, Fail, Again

\* The status reported is that of the readings its scores are of, and no server
\* that is read as worse in any of the checks, and better in none, is reported as
\* healthier: neither the thresholds of the checks nor the mean, nor the check that
\* may have nothing to score, turn that around.
THEOREM StatusIsMonotone ==
  Spec => [](status # "none" =>
               \E server :
                 /\ Readings(server) /\ ScoresAre(server) /\ status = StatusOf(server)
                 /\ \A worse : Readings(worse) /\ AsBadServer(worse, server) =>
                      Severity[StatusOf(worse)] >= Severity[status])
<1>1. Init => Traced
  <2>1. Init => \A server : ScoresAre(server)
    BY DEF Init, ScoresAre
  <2> QED BY <2>1 DEF Init, Traced
<1>2. Spec => []Traced
  BY <1>1, NextTraced, AlwaysInductive, PTL DEF Spec
<1>3. ASSUME Traced, status # "none"
      PROVE  \E server :
               /\ Readings(server) /\ ScoresAre(server) /\ status = StatusOf(server)
               /\ \A worse : Readings(worse) /\ AsBadServer(worse, server) =>
                    Severity[StatusOf(worse)] >= Severity[status]
  <2>1. PICK server : ScoresAre(server) /\ status = StatusOf(server) /\ at = 9
    BY <1>3 DEF Traced
  <2>2. Readings(server)
    <3>1. \A c \in Checks : \E i \in 1..9 : c = Order[i]
      BY DEF Checks, Order
    <3> QED BY <2>1, <3>1 DEF ScoresAre, Readings
  <2> QED BY <2>1, <2>2, WorseNeverHealthier
<1> QED BY <1>2, <1>3, PTL
=============================================================================
