----------------------------- MODULE MCHealthScore -----------------------------
(* HealthScore for TLC: readings on both sides of every threshold. *)
EXTENDS HealthScore

Of(num, unit) == [num |-> num, unit |-> unit]

MCAnswers == [
  connections |-> {75, 76, 90, 91},
  cache       |-> [buffer : {None, 89, 90}, index : {None, 94, 95}],
  locks       |-> [waiting : {5, 6, 10, 11}, blocked : {0, 1}],
  replication |-> {None, 10 * Mb, 10 * Mb + 1, 100 * Mb, 100 * Mb + 1},
  wraparound  |-> {None, 50, 51, 75, 76},
  disk_usage  |-> {None},
  bgwriter    |-> [timed : {0, 89, 90}, backend : {20, 21}],
  checkpoints |-> {6, 7},
  settings    |-> [shared_buffers : {Of(16384, "8kB"), Of(16383, "8kB"), Of(32768, "4kB")},
                   work_mem : {Of(4096, "kB"), Of(4095, "kB")},
                   completion_target : {89, 90}, autovacuum : {"on", "off"}]]
=============================================================================
