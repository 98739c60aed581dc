------------------------------ MODULE SourceConfig ------------------------------
(***************************************************************************)
(* The registry of database sources that the pgreport processes of one     *)
(* user share: the file ~/.config/pgreport/config.toml.                    *)
(*                                                                         *)
(* Every command line is a process of its own.  It loads the file in the   *)
(* group callback (to find the active source), `source` subcommands load   *)
(* it again, change the copy and save it back.  A save opens the file for  *)
(* writing, which truncates it, and then writes the whole text at offset 0 *)
(* of its own descriptor.  Nothing is locked, so the steps of two          *)
(* processes interleave, and a process can be killed between any two.      *)
(***************************************************************************)
EXTENDS Naturals, Sequences

CONSTANTS
  Procs,       \* process slots; an idle slot is a shell prompt
  Names,       \* aliases a user may type
  Dsns,        \* database URIs a user may type
  Blank,       \* the empty alias, which Python takes for false
  None,        \* no active source, or no DSN found
  Corrupt,     \* a text, or a string in it, that tomllib refuses
  ReadBack,    \* what tomllib reads where _save_config put a string in quotes
  MaxSources   \* bound: sources a file may hold

Strings == Names \cup Dsns

ASSUME ConstantsAssumption ==
  /\ Names \cap Dsns = {}
  /\ None \notin Strings \cup {Blank, Corrupt}
  /\ Corrupt \notin Strings
  /\ DOMAIN ReadBack = Strings
  /\ \A n \in Names : ReadBack[n] \in Names \cup {Corrupt}
  /\ \A d \in Dsns : ReadBack[d] \in Dsns \cup {Corrupt}
  /\ MaxSources \in Nat

VARIABLES
  file,    \* the text of config.toml; a missing file reads like an empty one
  pc,      \* pc[p]: where process p is
  job,     \* job[p]: the subcommand p runs
  mem,     \* mem[p]: the copy of the config p holds (to save, or as listed)
  answer   \* what a command reported as it ended, until the next step

vars == <<file, pc, job, mem, answer>>

-----------------------------------------------------------------------------
(* A config is the dict the code passes around, a text what it saves: the   *)
(* same shape, since the writer copies every string between quotes as it is.*)

Source == [name : Names, dsn : Dsns]
Config == [active : Names \cup {None}, sources : Seq(Source)]
Empty  == [active |-> None, sources |-> << >>]

ASSUME CorruptAssumption == Corrupt \notin Config

NamesOf(config) == {config.sources[i].name : i \in DOMAIN config.sources}

Readable(text) ==
  /\ text # Corrupt
  /\ text.active # None => ReadBack[text.active] # Corrupt
  /\ \A i \in DOMAIN text.sources :
       /\ ReadBack[text.sources[i].name] # Corrupt
       /\ ReadBack[text.sources[i].dsn] # Corrupt

\* _load_config of a readable text.
Parsed(text) ==
  [active  |-> IF text.active = None THEN None ELSE ReadBack[text.active],
   sources |-> [i \in DOMAIN text.sources |->
                  [name |-> ReadBack[text.sources[i].name],
                   dsn  |-> ReadBack[text.sources[i].dsn]]]]

Load(text) == IF Readable(text) THEN Parsed(text) ELSE Corrupt

\* get_active_dsn: the DSN of the first source named like the active one.
ActiveDsn(config) ==
  LET hits == {i \in DOMAIN config.sources : config.sources[i].name = config.active}
  IN  IF config.active \in {None, Blank} \/ hits = {}
      THEN None
      ELSE config.sources[CHOOSE i \in hits : \A j \in hits : i <= j].dsn

-----------------------------------------------------------------------------
(* What each subcommand does to its copy.                                  *)

\* Variant: every added source becomes the active one.
AddedAndActivated(config, n, d) ==
  [active  |-> n, sources |-> Append(config.sources, [name |-> n, dsn |-> d])]

Added(config, n, d) ==
  [active  |-> IF config.active = None THEN n ELSE config.active,
   sources |-> Append(config.sources, [name |-> n, dsn |-> d])]

\* The list comprehension of remove_source, one element at a time.
Without(sources, n) ==
  LET kept[i \in 0..Len(sources)] ==
        IF i = 0 THEN << >>
        ELSE IF sources[i].name = n THEN kept[i - 1]
        ELSE Append(kept[i - 1], sources[i])
  IN  kept[Len(sources)]

\* Variants with a plausible bug, for the mutation runs.
RemovedKeepsActive(config, n) ==
  [active |-> config.active, sources |-> Without(config.sources, n)]

RemovedActivatesSource(config, n) ==
  LET rest == Without(config.sources, n)
  IN  [active  |-> IF config.active # n THEN config.active
                   ELSE IF rest = << >> THEN None
                   ELSE rest[1],
       sources |-> rest]

Removed(config, n) ==
  LET rest == Without(config.sources, n)
  IN  [active  |-> IF config.active # n THEN config.active
                   ELSE IF rest = << >> THEN None
                   ELSE rest[1].name,
       sources |-> rest]

Activated(config, n) == [config EXCEPT !.active = n]

-----------------------------------------------------------------------------
Ops == {"add", "rm", "use", "ls", "activate", "diag"}

Command(op, n, d) == [op |-> op, name |-> n, dsn |-> d]
NoJob == Command("diag", None, None)

\* What the shell can be asked to run.  "diag" is any command that needs a
\* database; "activate" is only reached from the prompt of "ls".
Commands ==
  {Command("add", n, d) : n \in Names, d \in Dsns}
    \cup {Command(op, n, None) : op \in {"rm", "use"}, n \in Names}
    \cup {Command("ls", None, None), NoJob}

Jobs == Commands \cup {Command("activate", n, None) : n \in Names}

Silent == None   \* no command ended in the last step

\* Process p ends and reports.
Finish(p, command, result) ==
  /\ pc' = [pc EXCEPT ![p] = "idle"]
  /\ job' = [job EXCEPT ![p] = NoJob]
  /\ mem' = [mem EXCEPT ![p] = Empty]
  /\ answer' = [op |-> command.op, name |-> command.name, result |-> result]

\* Process p has changed its copy and goes on to save it.
Save(p, config) ==
  /\ pc' = [pc EXCEPT ![p] = "save"]
  /\ mem' = [mem EXCEPT ![p] = config]
  /\ answer' = Silent
  /\ UNCHANGED <<file, job>>

\* The ValueError of a refused change: caught around the subcommands, but
\* not around the set_active_source that follows the prompt of "source ls".
Refusal(op) == IF op \in {"add", "rm", "use"} THEN "error" ELSE "traceback"

Refuse(p) == Finish(p, job[p], Refusal(job[p].op)) /\ UNCHANGED file

Init ==
  /\ file = Empty
  /\ pc = [p \in Procs |-> "idle"]
  /\ job = [p \in Procs |-> NoJob]
  /\ mem = [p \in Procs |-> Empty]
  /\ answer = Silent

\* The callback is through, and the subcommand of `source` begins.
Enter(p, command) ==
  /\ pc' = [pc EXCEPT ![p] = "started"]
  /\ job' = [job EXCEPT ![p] = command]
  /\ answer' = Silent
  /\ UNCHANGED mem

\* The group callback: it resolves the active source for every command, so a
\* file that does not parse ends the command here.
Invoke(p, command) ==
  /\ pc[p] = "idle"
  /\ IF Load(file) = Corrupt THEN Finish(p, command, "traceback")
     ELSE IF command.op = "diag" THEN Finish(p, command, ActiveDsn(Load(file)))
     ELSE Enter(p, command)
  /\ UNCHANGED file

\* With --database-uri there is nothing to resolve and the file is not read: a
\* command that needs a database has it, a subcommand of `source` begins.
InvokeWithUri(p, command) ==
  /\ pc[p] = "idle"
  /\ IF command.op = "diag" THEN Finish(p, command, "given") ELSE Enter(p, command)
  /\ UNCHANGED file

\* Variant: a file that does not parse is started afresh by "source add".
RunCorruptAfresh(p) ==
  /\ pc[p] = "started" /\ Load(file) = Corrupt
  /\ IF job[p].op = "add" THEN Save(p, Added(Empty, job[p].name, job[p].dsn))
     ELSE Refuse(p)

\* The subcommand loads the file, and finds it does not parse.
RunCorrupt(p) ==
  /\ pc[p] = "started" /\ Load(file) = Corrupt
  /\ Refuse(p)

\* The subcommand loads the file, and the load succeeds.
Started(p, ops) ==
  pc[p] = "started" /\ job[p].op \in ops /\ Load(file) # Corrupt

\* Variant: the new alias is compared with the active one only.
RunAddUnchecked(p) ==
  LET config == Load(file)
  IN  /\ Started(p, {"add"})
      /\ IF job[p].name = config.active THEN Refuse(p)
         ELSE /\ Len(config.sources) < MaxSources
              /\ Save(p, Added(config, job[p].name, job[p].dsn))

RunAdd(p) ==
  LET config == Load(file)
  IN  /\ Started(p, {"add"})
      /\ IF job[p].name \in NamesOf(config) THEN Refuse(p)
         ELSE /\ Len(config.sources) < MaxSources
              /\ Save(p, Added(config, job[p].name, job[p].dsn))

RunRemove(p) ==
  LET config == Load(file)
  IN  /\ Started(p, {"rm"})
      /\ IF job[p].name \notin NamesOf(config) THEN Refuse(p)
         ELSE Save(p, Removed(config, job[p].name))

RunUse(p) ==
  LET config == Load(file)
  IN  /\ Started(p, {"use", "activate"})
      /\ IF job[p].name \notin NamesOf(config) THEN Refuse(p)
         ELSE Save(p, Activated(config, job[p].name))

\* source ls: the list is printed and the user is asked to pick from it.
RunList(p) ==
  LET config == Load(file)
  IN  /\ Started(p, {"ls"})
      /\ IF config.sources = << >> THEN Finish(p, job[p], "ok")
         ELSE /\ pc' = [pc EXCEPT ![p] = "prompt"]
              /\ mem' = [mem EXCEPT ![p] = config]
              /\ answer' = Silent
              /\ UNCHANGED job
      /\ UNCHANGED file

\* The user cancels, types something else, or picks an entry of the list as
\* it was printed; only a pick of an inactive entry goes on to change the file.
Cancel(p) ==
  /\ pc[p] = "prompt"
  /\ \E result \in {"ok", "error"} : Finish(p, job[p], result)
  /\ UNCHANGED file

Pick(p, i) ==
  /\ pc[p] = "prompt" /\ i \in DOMAIN mem[p].sources
  /\ LET chosen == Command("activate", mem[p].sources[i].name, None)
     IN  IF chosen.name = mem[p].active THEN Finish(p, chosen, "already")
         ELSE /\ pc' = [pc EXCEPT ![p] = "started"]
              /\ job' = [job EXCEPT ![p] = chosen]
              /\ mem' = [mem EXCEPT ![p] = Empty]
              /\ answer' = Silent
  /\ UNCHANGED file

\* write_text opens the file for writing: that truncates it.
Truncate(p) ==
  /\ pc[p] = "save"
  /\ file' = Empty
  /\ pc' = [pc EXCEPT ![p] = "write"]
  /\ answer' = Silent
  /\ UNCHANGED <<job, mem>>

\* The whole [[sources]] blocks a text may end in.  Of one that does not parse the
\* model keeps nothing, so they may be any.
Tails(old) ==
  IF old = Corrupt THEN UNION {[1..k -> Source] : k \in 1..MaxSources}
  ELSE {SubSeq(old.sources, k, Len(old.sources)) : k \in 1..Len(old.sources)}

\* What the file can hold once `new` is written at offset 0 over `old`.  A
\* shorter text leaves the end of the longer one: whole blocks, with or without
\* a broken line before them, as the lengths fall.
Landed(new, old) ==
  IF new = Empty THEN {old}
  ELSE IF old = Empty THEN {new}
  ELSE {new, Corrupt} \cup {[new EXCEPT !.sources = @ \o tail] : tail \in Tails(old)}

Write(p) ==
  /\ pc[p] = "write"
  /\ \E text \in Landed(mem[p], file) :
       /\ text # Corrupt => Len(text.sources) <= MaxSources
       /\ file' = text
  /\ Finish(p, job[p], "ok")

\* The process is killed, or interrupted at its prompt.
Kill(p) ==
  /\ pc[p] # "idle"
  /\ Finish(p, job[p], "killed")
  /\ UNCHANGED file

Step(p) ==
  \/ RunCorrupt(p) \/ RunAdd(p) \/ RunRemove(p) \/ RunUse(p) \/ RunList(p)
  \/ Cancel(p) \/ (\E i \in 1..MaxSources : Pick(p, i))
  \/ Truncate(p) \/ Write(p) \/ Kill(p)

Next ==
  \E p \in Procs :
    Step(p) \/ \E c \in Commands : Invoke(p, c) \/ InvokeWithUri(p, c)

Spec == Init /\ [][Next]_vars

-----------------------------------------------------------------------------
(* The file as one user sees it who waits for each change: no process      *)
(* reads the file, or starts a change, while another is between the load   *)
(* and the write of its own.  Prompts may stay open across changes.        *)

Changing(p) == pc[p] \in {"save", "write"}

SerialNext ==
  \E p \in Procs :
    /\ \A q \in Procs \ {p} : ~ Changing(q)
    /\ Step(p) \/ \E c \in Commands : Invoke(p, c) \/ InvokeWithUri(p, c)

SerialSpec == Init /\ [][SerialNext]_vars

-----------------------------------------------------------------------------
Answers ==
  [op : Ops, name : Names \cup {None},
   result : Dsns \cup {None, "given", "ok", "error", "traceback", "already", "killed"}]

Pcs == {"idle", "started", "prompt", "save", "write"}

\* Types of the state: the file holds one config or does not parse, and every
\* process holds a config, a subcommand and its last report.
TypeOK ==
  /\ file \in Config \cup {Corrupt}
  /\ pc \in [Procs -> Pcs]
  /\ job \in [Procs -> Jobs]
  /\ mem \in [Procs -> Config]
  /\ answer \in Answers \cup {Silent}

\* A config in which get_active_dsn finds a DSN whenever there is a source.
WellFormed(config) ==
  /\ config.active = None <=> config.sources = << >>
  /\ config.active # None => config.active \in NamesOf(config)

\* However the processes interleave and wherever they are killed, a file that
\* parses names as active a source it lists, and names none only if it lists
\* none (get_active_dsn, add_source, remove_source, set_active_source).
ActiveIsListed == Load(file) # Corrupt => WellFormed(Load(file))

\* No process has a change under way and the file does not parse.
Wedged == Load(file) = Corrupt /\ \A p \in Procs : ~ Changing(p)

\* The last step ended a command, and not for an error or a kill; a command that
\* was given its URI has not asked the file for one.
Served ==
  answer # Silent /\ answer.result \notin {"given", "error", "traceback", "killed"}

\* No command repairs a file that does not parse: once it is left so it stays so,
\* and no command that reads it succeeds (_load_config in the group callback, and in
\* the subcommands of `source` also behind --database-uri).  What can still end
\* well is the prompt of a `source ls` that printed its list before.
WedgedForever ==
  [][Wedged =>
       /\ Wedged'
       /\ Served' => \E p \in Procs : pc[p] = "prompt" /\ pc'[p] = "idle"]_vars

\* A user who waits for each change never has two sources of one name, also
\* with prompts left open meanwhile (the check of add_source).
UniqueNames ==
  Load(file) # Corrupt =>
    \A i, j \in DOMAIN Load(file).sources :
      Load(file).sources[i].name = Load(file).sources[j].name => i = j

\* What is saved is TOML: the claim of _save_config's docstring.
SavedIsToml == Load(file) # Corrupt

-----------------------------------------------------------------------------
(* SerialSpec implements SourceRegistry: a change takes effect when its     *)
(* save truncates the file, and is then as good as written.                 *)

Writing == {p \in Procs : pc[p] = "write"}

Visible == IF Writing = {} THEN Load(file) ELSE mem[CHOOSE p \in Writing : TRUE]

VisibleDsn ==
  [n \in NamesOf(Visible) |->
     Visible.sources[CHOOSE i \in DOMAIN Visible.sources :
                       Visible.sources[i].name = n].dsn]

VisibleAnswer ==
  IF Writing = {} THEN answer
  ELSE LET done == job[CHOOSE p \in Writing : TRUE]
       IN  [op |-> done.op, name |-> done.name, result |-> "ok"]

Registry == INSTANCE SourceRegistry WITH
  dsnOf <- VisibleDsn, active <- Visible.active, answer <- VisibleAnswer

\* Every behaviour of the file under one change at a time is a behaviour of
\* the registry: whole commands, refused exactly when they should be.
ImplementsRegistry == Registry!Spec
=============================================================================
