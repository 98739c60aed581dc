------------------------------- MODULE HealthScore -------------------------------
(***************************************************************************)
(* `health-check`: nine checks of a server, one after the other, each       *)
(* scored from 0 to 100 and each adding the issues it sees, then their mean *)
(* and the status that goes by it.                                         *)
(*                                                                         *)
(* Percentages and rates are whole numbers, as every threshold is: a figure *)
(* that is to be above its threshold is rounded up, one that is to be below *)
(* it is rounded down, though not to 0, which `or` would take for another.  *)
(***************************************************************************)
EXTENDS Naturals, Sequences, FiniteSets, Functions

CONSTANTS
  Answers,   \* what the queries of each check may answer
  None       \* no rows, or NULL

Checks == {"connections", "cache", "locks", "replication", "wraparound",
           "disk_usage", "bgwriter", "checkpoints", "settings"}

Order == <<"connections", "cache", "locks", "replication", "wraparound",
           "disk_usage", "bgwriter", "checkpoints", "settings">>

Percent == 0..100
Size    == [num : Nat, unit : {"B", "kB", "8kB", "16kB", "32kB", "MB", "GB", "4kB"}]

\* What can be read in a server.  With no block read yet a hit ratio is NULL,
\* and a server that is template1 alone has no database to report on.
Readable == [
  connections |-> Percent,
  cache       |-> [buffer : Percent \cup {None}, index : Percent \cup {None}],
  locks       |-> [waiting : Nat, blocked : Nat],
  replication |-> Nat \cup {None},
  wraparound  |-> Percent \cup {None},
  disk_usage  |-> {None},
  bgwriter    |-> [timed : Percent, backend : Percent],
  checkpoints |-> Nat,
  settings    |-> [shared_buffers : Size, work_mem : Size,
                   completion_target : Percent, autovacuum : {"on", "off"}]]

ASSUME HealthAssumption ==
  /\ None \notin Nat
  /\ \A check \in Checks : Answers[check] \subseteq Readable[check]

VARIABLES
  at,      \* how many checks are made
  answer,  \* what the last of them read
  scores,  \* health["checks"], as the score of each
  issues,  \* health["issues"], as the check and the level each is labelled with
  status   \* health["status"]; "none" while there is no report

vars == <<at, answer, scores, issues, status>>

-----------------------------------------------------------------------------
(* The checks.  Lost is what a condition costs, Labelled what it leaves    *)
(* among the issues.  No check loses more than 100 points (TypeOK), so the *)
(* max(0, score) of the code is left out.                                  *)

Lost(penalty, condition) == IF condition THEN penalty ELSE 0
Labelled(level, condition) == IF condition THEN {level} ELSE {}
Verdict(score, levels) == [score |-> score, levels |-> levels]

\* Python's `value or 0`.
OrZero(value) == IF value = None THEN 0 ELSE value

\* Python's `value or 100`, which takes 0 for no value too.
OrHundred(value) == IF value \in {0, None} THEN 100 ELSE value

\* Bytes of a setting.  A unit that is not listed counts as bytes.
ParseSize(size) ==
  size.num * (CASE size.unit = "kB" -> 1024   [] size.unit = "8kB" -> 8 * 1024
                [] size.unit = "16kB" -> 16 * 1024 [] size.unit = "32kB" -> 32 * 1024
                [] size.unit = "MB" -> 1024 * 1024 [] size.unit = "GB" -> 1024 * 1024 * 1024
                [] OTHER -> 1)

CheckConnections(used) ==
  Verdict(IF used > 90 THEN 30 ELSE IF used > 75 THEN 70 ELSE 100,
          Labelled("Critical", used > 90) \cup Labelled("Warning", used \in 76..90))

\* Variant: no hit ratio counts as a perfect one, as it does for bgwriter.
CheckCacheRatiosPerfect(ratio) ==
  LET cold == OrHundred(ratio.buffer) < 90
      slow == OrHundred(ratio.index) < 95
  IN Verdict(100 - Lost(30, cold) - Lost(20, slow), Labelled("unlabelled", cold \/ slow))

\* A hit ratio that is NULL, where no block was read yet, counts as 0.
CheckCacheRatios(ratio) ==
  LET cold == OrZero(ratio.buffer) < 90
      slow == OrZero(ratio.index) < 95
  IN Verdict(100 - Lost(30, cold) - Lost(20, slow), Labelled("unlabelled", cold \/ slow))

\* Variants: a penalty that leaves no issue; penalties twice as high.
CheckLocksSilent(locks) ==
  Verdict(100 - (IF locks.waiting > 10 THEN 40 ELSE Lost(20, locks.waiting > 5))
              - Lost(30, locks.blocked > 0),
          Labelled("unlabelled", locks.waiting > 10))

CheckLocksTwice(locks) ==
  Verdict(100 - (IF locks.waiting > 10 THEN 80 ELSE Lost(40, locks.waiting > 5))
              - Lost(60, locks.blocked > 0),
          Labelled("unlabelled", locks.waiting > 10 \/ locks.blocked > 0))

CheckLocks(locks) ==
  Verdict(100 - (IF locks.waiting > 10 THEN 40 ELSE Lost(20, locks.waiting > 5))
              - Lost(30, locks.blocked > 0),
          Labelled("unlabelled", locks.waiting > 10 \/ locks.blocked > 0))

Mb == 1024 * 1024

\* The lag of the replica that is furthest behind.
CheckReplication(lag) ==
  Verdict(IF OrZero(lag) > 100 * Mb THEN 50 ELSE IF OrZero(lag) > 10 * Mb THEN 80 ELSE 100,
          Labelled("unlabelled", OrZero(lag) > 10 * Mb))

CheckWraparound(pct) ==
  Verdict(IF pct > 75 THEN 20 ELSE IF pct > 50 THEN 70 ELSE 100,
          Labelled("Critical", pct > 75) \cup Labelled("Warning", pct \in 51..75))

CheckBgwriter(writes) ==
  LET requested == OrHundred(writes.timed) < 90
      backends  == OrZero(writes.backend) > 20
  IN Verdict(100 - Lost(20, requested) - Lost(30, backends),
             Labelled("unlabelled", requested \/ backends))

CheckCheckpoints(hourly) ==
  Verdict(IF hourly > 6 THEN 70 ELSE 100, Labelled("unlabelled", hourly > 6))

\* Only what is critical or high becomes an issue.
CheckCriticalSettings(set) ==
  LET small == ParseSize(set.shared_buffers) < 128 * Mb
      off   == set.autovacuum = "off"
  IN Verdict(100 - Lost(20, small) - Lost(10, ParseSize(set.work_mem) < 4 * Mb)
                 - Lost(10, set.completion_target < 90) - Lost(40, off),
             Labelled("High", small) \cup Labelled("Critical", off))

Judge(check, reading) ==
  CASE check = "connections" -> CheckConnections(reading)
    [] check = "cache"       -> CheckCacheRatios(reading)
    [] check = "locks"       -> CheckLocks(reading)
    [] check = "replication" -> CheckReplication(reading)
    [] check = "wraparound"  -> CheckWraparound(reading)
    [] check = "bgwriter"    -> CheckBgwriter(reading)
    [] check = "checkpoints" -> CheckCheckpoints(reading)
    [] check = "settings"    -> CheckCriticalSettings(reading)
    [] OTHER                 -> Verdict(100, {})

\* A check that reports on rows has no score without any.
Scored(check, reading) == check # "wraparound" \/ reading # None

-----------------------------------------------------------------------------
Clear == at' = 0 /\ answer' = None /\ scores' = << >> /\ issues' = {} /\ status' = "none"

Init == at = 0 /\ answer = None /\ scores = << >> /\ issues = {} /\ status = "none"

\* The next check, on what its queries answer.
Check ==
  /\ at < Len(Order)
  /\ LET check == Order[at + 1]
     IN \E reading \in Answers[check] :
          LET verdict == Judge(check, reading)
          IN /\ answer' = reading
             /\ IF Scored(check, reading)
                THEN /\ scores' = [c \in DOMAIN scores \cup {check} |->
                                     IF c = check THEN verdict.score ELSE scores[c]]
                     /\ issues' = issues \cup
                          {[check |-> check, level |-> level] : level \in verdict.levels}
                ELSE UNCHANGED <<scores, issues>>
  /\ at' = at + 1 /\ UNCHANGED status

\* Any query that fails ends the command without a report.
Fail == at < Len(Order) /\ Clear

Total == FoldFunction(+, 0, scores)

\* At least the bound; rounding to one decimal takes no mean of nine scores past it.
MeanIs(bound) == Total >= bound * Cardinality(DOMAIN scores)

\* Variant: the bound of a warning is that of the scores of single checks.
ReportHarsh ==
  /\ at = Len(Order) /\ status = "none"
  /\ status' = IF MeanIs(98) THEN "healthy" ELSE IF MeanIs(70) THEN "warning" ELSE "critical"
  /\ UNCHANGED <<at, answer, scores, issues>>

Report ==
  /\ at = Len(Order) /\ status = "none"
  /\ status' = IF MeanIs(90) THEN "healthy" ELSE IF MeanIs(70) THEN "warning" ELSE "critical"
  /\ UNCHANGED <<at, answer, scores, issues>>

\* The next health-check.
Again == status # "none" /\ Clear

Next == Check \/ Fail \/ Report \/ Again

Spec == Init /\ [][Next]_vars

-----------------------------------------------------------------------------
Levels == {"Critical", "High", "Warning", "unlabelled"}

\* Types: a score of 0 to 100 for each check made that had something to score.
TypeOK ==
  /\ at \in 0..Len(Order)
  /\ DOMAIN scores \subseteq {Order[i] : i \in 1..at}
  /\ \A check \in DOMAIN scores : scores[check] \in 0..100
  /\ issues \subseteq [check : DOMAIN scores, level : Levels]
  /\ status \in {"none", "healthy", "warning", "critical"}

\* A check never loses half of its points without an issue that says why
\* (every `score -=` next to its health["issues"].append).
LossesExplained ==
  \A check \in DOMAIN scores : scores[check] <= 50 => \E issue \in issues : issue.check = check

\* A status below healthy comes with an issue: what the checks take off in
\* silence (six locks waiting, two medium settings) is too little for one.
StatusExplained == status \in {"warning", "critical"} => issues # {}

\* The reading r of a check is at least as bad as s.
AsBad(check, r, s) ==
  CASE check \in {"connections", "checkpoints"} -> r >= s
    [] check \in {"replication", "wraparound"} -> r # None /\ s # None /\ r >= s
    [] check = "cache" -> OrZero(r.buffer) <= OrZero(s.buffer) /\ OrZero(r.index) <= OrZero(s.index)
    [] check = "locks" -> r.waiting >= s.waiting /\ r.blocked >= s.blocked
    [] check = "bgwriter" -> 0 < r.timed /\ r.timed <= s.timed /\ r.backend >= s.backend
    [] check = "settings" ->
         /\ ParseSize(r.shared_buffers) <= ParseSize(s.shared_buffers)
         /\ ParseSize(r.work_mem) <= ParseSize(s.work_mem)
         /\ r.completion_target <= s.completion_target
         /\ (s.autovacuum = "off" => r.autovacuum = "off")
    [] OTHER -> FALSE

\* A server read as worse never scores higher, at any of the thresholds, but
\* for one without a single timed checkpoint, which counts as perfect
\* (_check_bgwriter, `or 100`).
WorseNeverScoresHigher ==
  \A check \in DOMAIN scores :
    at > 0 /\ Order[at] = check =>
      \A r \in Answers[check] :
        AsBad(check, r, answer) => Judge(check, r).score <= scores[check]
=============================================================================
