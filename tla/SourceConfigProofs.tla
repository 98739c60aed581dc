--------------------------- MODULE SourceConfigProofs ---------------------------
(***************************************************************************)
(* What holds of config.toml for any processes, aliases and DSNs, any       *)
(* reading back of what is written, and any interleaving; and, one change   *)
(* at a time, that its processes implement SourceRegistry.                  *)
(*                                                                         *)
(* The file is written from what a process read earlier, so the invariants *)
(* speak of what processes have in memory too.                             *)
(***************************************************************************)
EXTENDS SourceConfig, SequenceTheorems, CommonTheorems

-----------------------------------------------------------------------------
(* Without: the recursive function it is made of exists.                    *)

KeptAt(s, n, f, i) ==
  IF i = 0 THEN << >>
  ELSE IF s[i].name = n THEN f[i - 1]
  ELSE Append(f[i - 1], s[i])

IsKept(s, n, k, f) == f = [i \in 0..k |-> KeptAt(s, n, f, i)]

LEMMA KeptExists ==
  ASSUME NEW s, NEW n, NEW N \in Nat
  PROVE  \A k \in 0..N : \E f : IsKept(s, n, k, f)
<1> DEFINE Bad == {k \in 0..N : ~ \E f : IsKept(s, n, k, f)}
<1>1. SUFFICES ASSUME Bad # {} PROVE FALSE
  OBVIOUS
<1>2. PICK k \in Bad : \A m \in Bad : k <= m
  <2>1. Bad \in SUBSET Nat
    OBVIOUS
  <2> QED BY <1>1, <2>1, LeastNatural
<1>3. CASE k = 0
  <2> DEFINE f == [i \in 0..0 |-> << >>]
  <2>1. IsKept(s, n, 0, f)
    BY DEF IsKept, KeptAt
  <2> QED BY <1>2, <1>3, <2>1
<1>4. CASE k # 0
  <2>1. k - 1 \in 0..N /\ k - 1 \notin Bad
    BY <1>2, <1>4
  <2>2. PICK f : IsKept(s, n, k - 1, f)
    BY <2>1
  <2> DEFINE g == [i \in 0..k |-> IF i < k THEN f[i] ELSE KeptAt(s, n, f, k)]
  <2>3. ASSUME NEW i \in 0..k
        PROVE  g[i] = KeptAt(s, n, g, i)
    <3>1. i # 0 => g[i - 1] = f[i - 1]
      BY <1>2
    <3>2. KeptAt(s, n, g, i) = KeptAt(s, n, f, i)
      BY <3>1 DEF KeptAt
    <3>3. CASE i < k
      <4>1. i \in 0..(k - 1)
        BY <1>2, <3>3
      <4>2. f[i] = KeptAt(s, n, f, i)
        BY <2>2, <4>1 DEF IsKept
      <4> QED BY <3>2, <3>3, <4>2
    <3>4. CASE ~ (i < k)
      <4>1. i = k
        BY <1>2, <3>4
      <4> QED BY <3>2, <3>4, <4>1
    <3> QED BY <3>3, <3>4
  <2>4. IsKept(s, n, k, g)
    BY <2>3 DEF IsKept
  <2> QED BY <1>2, <2>4
<1> QED BY <1>3, <1>4

LEMMA WithoutIsKept ==
  ASSUME NEW s, Len(s) \in Nat, NEW n
  PROVE  \E f : IsKept(s, n, Len(s), f) /\ Without(s, n) = f[Len(s)]
<1> DEFINE f == CHOOSE f : IsKept(s, n, Len(s), f)
<1>1. IsKept(s, n, Len(s), f)
  <2>1. \A k \in 0..Len(s) : \E g : IsKept(s, n, k, g)
    BY KeptExists
  <2>2. \E g : IsKept(s, n, Len(s), g)
    BY <2>1
  <2> QED BY <2>2
<1>2. Without(s, n) = f[Len(s)]
  BY DEF Without, IsKept, KeptAt
<1> QED BY <1>1, <1>2

(* What the first k elements of s leave once those named n are dropped.     *)
Leaves(s, n, k, t) ==
  /\ t \in Seq(Source)
  /\ \A i \in 1..Len(t) : t[i].name # n /\ \E j \in 1..k : t[i] = s[j]
  /\ \A j \in 1..k : s[j].name # n => \E i \in 1..Len(t) : t[i] = s[j]
  /\ (\A i, j \in 1..k : s[i].name = s[j].name => i = j)
       => \A i, j \in 1..Len(t) : t[i].name = t[j].name => i = j

LEMMA LeavesStep ==
  ASSUME NEW s \in Seq(Source), NEW n, NEW k \in 1..Len(s), NEW t,
         Leaves(s, n, k - 1, t)
  PROVE  Leaves(s, n, k, IF s[k].name = n THEN t ELSE Append(t, s[k]))
<1>1. CASE s[k].name = n
  <2>1. \A j \in 1..k : j \in 1..(k - 1) \/ j = k
    OBVIOUS
  <2>2. 1..(k - 1) \subseteq 1..k
    OBVIOUS
  <2> QED BY <1>1, <2>1, <2>2 DEF Leaves
<1>2. CASE s[k].name # n
  <2> DEFINE u == Append(t, s[k])
  <2>1. /\ t \in Seq(Source) /\ s[k] \in Source
        /\ u \in Seq(Source) /\ Len(u) = Len(t) + 1
        /\ u[Len(u)] = s[k]
        /\ \A i \in 1..Len(t) : u[i] = t[i]
        /\ Len(t) \in Nat
    BY DEF Leaves
  <2> HIDE DEF u
  <2>2. \A j \in 1..k : j \in 1..(k - 1) \/ j = k
    OBVIOUS
  <2>3. \A i \in 1..Len(u) : i \in 1..Len(t) \/ i = Len(u)
    BY <2>1
  <2>4. \A i \in 1..Len(u) : u[i].name # n /\ \E j \in 1..k : u[i] = s[j]
    <3> SUFFICES ASSUME NEW i \in 1..Len(u)
                 PROVE  u[i].name # n /\ \E j \in 1..k : u[i] = s[j]
      OBVIOUS
    <3>1. CASE i \in 1..Len(t)
      <4>1. t[i].name # n /\ \E j \in 1..(k - 1) : t[i] = s[j]
        BY <3>1 DEF Leaves
      <4>2. u[i] = t[i]
        BY <2>1, <3>1
      <4> QED BY <2>2, <4>1, <4>2
    <3>2. CASE i = Len(u)
      BY <1>2, <2>1, <3>2
    <3> QED BY <2>3, <3>1, <3>2
  <2>5. \A j \in 1..k : s[j].name # n => \E i \in 1..Len(u) : u[i] = s[j]
    <3> SUFFICES ASSUME NEW j \in 1..k, s[j].name # n
                 PROVE  \E i \in 1..Len(u) : u[i] = s[j]
      OBVIOUS
    <3>1. CASE j = k
      BY <2>1, <3>1
    <3>2. CASE j \in 1..(k - 1)
      <4>1. PICK i \in 1..Len(t) : t[i] = s[j]
        BY <3>2 DEF Leaves
      <4> QED BY <2>1, <4>1
    <3> QED BY <2>2, <3>1, <3>2
  <2>6. ASSUME \A i, j \in 1..k : s[i].name = s[j].name => i = j,
               NEW i \in 1..Len(u), NEW j \in 1..Len(u), u[i].name = u[j].name
        PROVE  i = j
    <3>1. \A a \in 1..Len(t) : t[a].name # s[k].name
      <4> SUFFICES ASSUME NEW a \in 1..Len(t) PROVE t[a].name # s[k].name
        OBVIOUS
      <4>1. PICK b \in 1..(k - 1) : t[a] = s[b]
        BY DEF Leaves
      <4> QED BY <2>6, <4>1
    <3>2. \A a, b \in 1..Len(t) : t[a].name = t[b].name => a = b
      BY <2>6 DEF Leaves
    <3> QED BY <2>1, <2>3, <2>6, <3>1, <3>2
  <2>7. Leaves(s, n, k, u)
    BY <2>1, <2>4, <2>5, <2>6 DEF Leaves
  <2> QED BY <1>2, <2>7 DEF u
<1> QED BY <1>1, <1>2

(* remove_source's comprehension: it keeps exactly the sources of another   *)
(* name, and never makes two of one name out of a list that had none.       *)
THEOREM WithoutLeaves ==
  ASSUME NEW s \in Seq(Source), NEW n
  PROVE  Leaves(s, n, Len(s), Without(s, n))
<1>1. PICK f : IsKept(s, n, Len(s), f) /\ Without(s, n) = f[Len(s)]
  BY WithoutIsKept
<1> DEFINE Bad == {k \in 0..Len(s) : ~ Leaves(s, n, k, f[k])}
<1>2. SUFFICES ASSUME Bad # {} PROVE FALSE
  BY <1>1
<1>3. PICK k \in Bad : \A m \in Bad : k <= m
  <2>1. Bad \in SUBSET Nat
    OBVIOUS
  <2> QED BY <1>2, <2>1, LeastNatural
<1>4. \A i \in 0..Len(s) : f[i] = KeptAt(s, n, f, i)
  BY <1>1 DEF IsKept
<1>5. CASE k = 0
  <2>1. f[0] = << >>
    BY <1>4 DEF KeptAt
  <2>2. Leaves(s, n, 0, << >>)
    BY DEF Leaves
  <2> QED BY <1>3, <1>5, <2>1, <2>2
<1>6. CASE k # 0
  <2>1. k \in 1..Len(s) /\ k - 1 \in 0..Len(s) /\ k - 1 \notin Bad
    BY <1>3, <1>6
  <2>2. Leaves(s, n, k - 1, f[k - 1])
    BY <2>1
  <2>3. f[k] = IF s[k].name = n THEN f[k - 1] ELSE Append(f[k - 1], s[k])
    BY <1>4, <2>1 DEF KeptAt
  <2>4. Leaves(s, n, k, f[k])
    BY <2>1, <2>2, <2>3, LeavesStep
  <2> QED BY <1>3, <2>4
<1> QED BY <1>5, <1>6

-----------------------------------------------------------------------------
(* What each operation on a config makes of a well-formed one.              *)

Good(config) == config \in Config /\ WellFormed(config)

LEMMA ParsedGood ==
  ASSUME NEW text \in Config, Readable(text)
  PROVE  /\ Parsed(text) \in Config
         /\ WellFormed(text) => WellFormed(Parsed(text))
         /\ Len(Parsed(text).sources) = Len(text.sources)
<1> USE ConstantsAssumption DEF Strings
<1> DEFINE config == Parsed(text)
<1>1. /\ text.active \in Names \cup {None} /\ text.sources \in Seq(Source)
      /\ \A i \in DOMAIN text.sources :
           text.sources[i].name \in Names /\ text.sources[i].dsn \in Dsns
  <2>1. text.active \in Names \cup {None} /\ text.sources \in Seq(Source)
    BY DEF Config
  <2>2. \A i \in DOMAIN text.sources : text.sources[i] \in Source
    BY <2>1
  <2> QED BY <2>1, <2>2 DEF Source
<1>2. config.active \in Names \cup {None}
  BY <1>1 DEF Readable, Parsed
<1>3. /\ config.sources \in Seq(Source)
      /\ Len(config.sources) = Len(text.sources)
      /\ DOMAIN config.sources = DOMAIN text.sources
      /\ \A i \in DOMAIN text.sources :
           config.sources[i].name = ReadBack[text.sources[i].name]
  <2>1. \A i \in DOMAIN text.sources :
          [name |-> ReadBack[text.sources[i].name],
           dsn |-> ReadBack[text.sources[i].dsn]] \in Source
    BY <1>1 DEF Readable, Source
  <2>2. DOMAIN text.sources = 1..Len(text.sources) /\ Len(text.sources) \in Nat
    BY <1>1
  <2>3. config.sources = [i \in 1..Len(text.sources) |->
                            [name |-> ReadBack[text.sources[i].name],
                             dsn |-> ReadBack[text.sources[i].dsn]]]
    BY <2>2 DEF Parsed
  <2>4. config.sources \in [1..Len(text.sources) -> Source]
    BY <2>1, <2>2, <2>3
  <2>5. config.sources \in Seq(Source)
    BY <2>2, <2>4, SeqDef
  <2>6. Len(config.sources) = Len(text.sources)
    BY <2>2, <2>4, <2>5
  <2>7. DOMAIN config.sources = DOMAIN text.sources
    BY <2>2, <2>3
  <2>8. \A i \in DOMAIN text.sources :
          config.sources[i].name = ReadBack[text.sources[i].name]
    BY <2>2, <2>3
  <2> HIDE DEF config
  <2> QED BY <2>5, <2>6, <2>7, <2>8
<1>4. config \in Config
  BY <1>2, <1>3 DEF Config, Parsed
<1>5. ASSUME WellFormed(text) PROVE WellFormed(config)
  <2>1. config.active = None <=> text.active = None
    BY <1>1 DEF Parsed, Readable
  <2>2. config.sources = << >> <=> text.sources = << >>
    BY <1>1, <1>3
  <2>3. ASSUME config.active # None PROVE config.active \in NamesOf(config)
    <3>1. text.active # None /\ config.active = ReadBack[text.active]
      BY <2>1, <2>3 DEF Parsed
    <3>2. PICK i \in DOMAIN text.sources : text.sources[i].name = text.active
      BY <1>5, <3>1 DEF WellFormed, NamesOf
    <3>3. config.sources[i].name = config.active /\ i \in DOMAIN config.sources
      BY <1>3, <3>1, <3>2
    <3> QED BY <3>3 DEF NamesOf
  <2> QED BY <1>5, <2>1, <2>2, <2>3 DEF WellFormed
<1> QED BY <1>3, <1>4, <1>5

LEMMA LoadGood ==
  ASSUME NEW text, text \in Config \cup {Corrupt},
         text # Corrupt => WellFormed(text), Load(text) # Corrupt
  PROVE  Good(Load(text))
<1>1. text \in Config /\ Readable(text) /\ Load(text) = Parsed(text)
  BY DEF Load, Readable
<1> QED BY <1>1, ParsedGood, CorruptAssumption DEF Good

LEMMA AddedGood ==
  ASSUME NEW config, Good(config), NEW n \in Names, NEW d \in Dsns
  PROVE  Good(Added(config, n, d))
<1> DEFINE new == Added(config, n, d)
<1>1. /\ config.active \in Names \cup {None} /\ config.sources \in Seq(Source)
      /\ [name |-> n, dsn |-> d] \in Source
  BY DEF Good, Config, Source
<1>2. /\ new.sources \in Seq(Source) /\ new.sources # << >>
      /\ Len(new.sources) = Len(config.sources) + 1
      /\ new.sources[Len(config.sources) + 1].name = n
      /\ \A i \in 1..Len(config.sources) : new.sources[i] = config.sources[i]
  BY <1>1 DEF Added
<1>3. new.active # None /\ new.active \in Names
  BY <1>1, ConstantsAssumption DEF Added, Strings
<1>4. new.active \in NamesOf(new)
  <2>1. CASE config.active = None
    BY <1>1, <1>2, <2>1 DEF NamesOf, Added
  <2>2. CASE config.active # None
    <3>1. PICK i \in 1..Len(config.sources) : config.sources[i].name = config.active
      BY <1>1, <2>2 DEF Good, WellFormed, NamesOf
    <3>2. i \in DOMAIN new.sources /\ new.sources[i].name = new.active
      BY <1>1, <1>2, <2>2, <3>1 DEF Added
    <3> QED BY <3>2 DEF NamesOf
  <2> QED BY <2>1, <2>2
<1>5. new \in Config
  BY <1>2, <1>3 DEF Added, Config
<1> QED BY <1>2, <1>3, <1>4, <1>5 DEF Good, WellFormed

LEMMA RemovedGood ==
  ASSUME NEW config, Good(config), NEW n \in Names
  PROVE  Good(Removed(config, n))
<1> DEFINE new == Removed(config, n)
           rest == Without(config.sources, n)
<1>1. config.active \in Names \cup {None} /\ config.sources \in Seq(Source)
  BY DEF Good, Config
<1>2. /\ rest \in Seq(Source)
      /\ \A j \in 1..Len(config.sources) : config.sources[j].name # n =>
           \E i \in 1..Len(rest) : rest[i] = config.sources[j]
      /\ rest # << >> => rest[1].name \in Names /\ 1 \in DOMAIN rest
      /\ config.sources = << >> => rest = << >>
  <2>1. Leaves(config.sources, n, Len(config.sources), rest)
    BY <1>1, WithoutLeaves
  <2>2. rest \in Seq(Source)
    BY <2>1 DEF Leaves
  <2>3. rest # << >> => 1 \in DOMAIN rest /\ rest[1] \in Source
    BY <2>2
  <2>4. config.sources = << >> => rest = << >>
    BY <2>1, <2>2 DEF Leaves
  <2> QED BY <2>1, <2>2, <2>3, <2>4 DEF Leaves, Source
<1>3. new.sources = rest
  BY DEF Removed
<1>4. CASE config.active # n
  <2>1. new.active = config.active
    BY <1>4 DEF Removed
  <2>2. ASSUME config.active # None
        PROVE  new.active \in NamesOf(new)
    <3>1. PICK j \in 1..Len(config.sources) : config.sources[j].name = config.active
      BY <1>1, <2>2 DEF Good, WellFormed, NamesOf
    <3>2. PICK i \in 1..Len(rest) : rest[i] = config.sources[j]
      BY <1>2, <1>4, <3>1
    <3>3. i \in DOMAIN new.sources /\ new.sources[i].name = new.active
      BY <1>2, <1>3, <2>1, <3>1, <3>2
    <3> QED BY <3>3 DEF NamesOf
  <2>3. config.active # None => rest # << >>
    BY <1>3, <2>2 DEF NamesOf
  <2>4. config.active = None => rest = << >>
    BY <1>2 DEF Good, WellFormed
  <2> QED BY <1>1, <1>2, <1>3, <2>1, <2>2, <2>3, <2>4
          DEF Good, Config, WellFormed, Removed
<1>5. CASE config.active = n /\ rest = << >>
  BY <1>2, <1>5 DEF Good, Config, WellFormed, Removed
<1>6. CASE config.active = n /\ rest # << >>
  <2>1. new.active = rest[1].name /\ new.active \in NamesOf(new)
    BY <1>2, <1>3, <1>6 DEF Removed, NamesOf
  <2> QED BY <1>2, <1>3, <1>6, <2>1, ConstantsAssumption
          DEF Good, Config, WellFormed, Removed, Strings
<1> QED BY <1>4, <1>5, <1>6

LEMMA ActivatedGood ==
  ASSUME NEW config, Good(config), NEW n \in NamesOf(config), n \in Names
  PROVE  Good(Activated(config, n))
<1>1. /\ Activated(config, n) \in Config
      /\ Activated(config, n).sources = config.sources
      /\ Activated(config, n).active = n
  BY DEF Good, Config, Activated
<1>2. config.sources # << >>
  BY DEF NamesOf
<1> QED BY <1>1, <1>2, ConstantsAssumption DEF Good, WellFormed, NamesOf, Strings

(* What is left of an older text are sources, whether it parsed or not.     *)
LEMMA TailsType ==
  ASSUME NEW old, old # Corrupt => Good(old)
  PROVE  Tails(old) \subseteq Seq(Source)
<1>1. CASE old = Corrupt
  <2>1. MaxSources \in Nat
    BY ConstantsAssumption
  <2>2. ASSUME NEW k \in 1..MaxSources PROVE [1..k -> Source] \subseteq Seq(Source)
    <3>1. k \in Nat
      BY <2>1
    <3> QED BY <3>1
  <2> QED BY <1>1, <2>2 DEF Tails
<1>2. CASE old # Corrupt
  <2>1. old.sources \in Seq(Source)
    BY <1>2 DEF Good, Config
  <2>2. ASSUME NEW k \in 1..Len(old.sources)
        PROVE  SubSeq(old.sources, k, Len(old.sources)) \in Seq(Source)
    BY <2>1
  <2> QED BY <1>2, <2>2 DEF Tails
<1> QED BY <1>1, <1>2

(* A text written over another: the new text stays whole at the front, so   *)
(* its active source is listed whatever is left behind it.                  *)
LEMMA LandedGood ==
  ASSUME NEW new, Good(new), NEW old, old # Corrupt => Good(old),
         NEW text \in Landed(new, old), text # Corrupt
  PROVE  Good(text)
<1>1. CASE text \in {new, old}
  BY <1>1
<1>2. CASE /\ new # Empty
           /\ \E tail \in Tails(old) : text = [new EXCEPT !.sources = @ \o tail]
  <2>1. PICK tail \in Tails(old) : text = [new EXCEPT !.sources = @ \o tail]
    BY <1>2
  <2>2. new.active \in Names \cup {None} /\ new.sources \in Seq(Source)
    BY DEF Good, Config
  <2>3. tail \in Seq(Source)
    BY TailsType
  <2>4. /\ text.active = new.active
        /\ text.sources = new.sources \o tail
        /\ text = [active |-> text.active, sources |-> text.sources]
    BY <2>1, <2>2 DEF Good, Config
  <2>5. /\ text.sources \in Seq(Source)
        /\ Len(text.sources) = Len(new.sources) + Len(tail)
        /\ \A i \in 1..Len(new.sources) : text.sources[i] = new.sources[i]
    BY <2>2, <2>3, <2>4
  <2>6. NamesOf(new) \subseteq NamesOf(text)
    <3> SUFFICES ASSUME NEW i \in DOMAIN new.sources
                 PROVE  new.sources[i].name \in NamesOf(text)
      BY DEF NamesOf
    <3>1. /\ i \in 1..Len(new.sources)
          /\ Len(new.sources) \in Nat /\ Len(tail) \in Nat
      BY <2>2, <2>3
    <3>2. i \in DOMAIN text.sources /\ text.sources[i] = new.sources[i]
      BY <2>5, <3>1
    <3> QED BY <3>2 DEF NamesOf
  <2>7. new.active # None
    <3>1. new = [active |-> new.active, sources |-> new.sources]
      BY DEF Good, Config
    <3> QED BY <1>2, <3>1 DEF Empty, Good, WellFormed
  <2>8. text.sources # << >>
    <3>1. new.active \in NamesOf(text)
      BY <2>6, <2>7 DEF Good, WellFormed
    <3>2. DOMAIN text.sources # {}
      BY <3>1 DEF NamesOf
    <3> QED BY <3>2
  <2> QED BY <2>2, <2>4, <2>5, <2>6, <2>7, <2>8 DEF Good, WellFormed, Config
<1> QED BY <1>1, <1>2 DEF Landed

-----------------------------------------------------------------------------
(* The inductive invariant: not only the file, every copy on its way to the *)
(* file is well formed.  The file alone is not enough, since a copy is      *)
(* written whatever the file holds by then.                                 *)
IInv ==
  /\ TypeOK
  /\ file # Corrupt => WellFormed(file)
  /\ \A p \in Procs : Changing(p) => WellFormed(mem[p])

LEMMA EmptyGood == Good(Empty)
BY DEF Good, Config, WellFormed, Empty, NamesOf

LEMMA JobsType ==
  ASSUME NEW c \in Jobs
  PROVE  /\ c.op \in Ops /\ c.name \in Names \cup {None}
         /\ c.op = "add" => c.name \in Names /\ c.dsn \in Dsns
         /\ c.op \in {"rm", "use", "activate"} => c.name \in Names
BY DEF Jobs, Commands, Command, NoJob, Ops

LEMMA NamesOfType ==
  ASSUME NEW config \in Config
  PROVE  NamesOf(config) \subseteq Names
<1>1. config.sources \in Seq(Source)
  BY DEF Config
<1>2. \A i \in DOMAIN config.sources : config.sources[i] \in Source
  BY <1>1
<1> QED BY <1>2 DEF NamesOf, Source

LEMMA FinishKeeps ==
  ASSUME IInv, NEW p \in Procs, NEW c \in Jobs, NEW r,
         r \in Dsns \cup {None, "given", "ok", "error", "traceback", "already", "killed"},
         Finish(p, c, r), file' \in Config \cup {Corrupt},
         file' # Corrupt => WellFormed(file')
  PROVE  IInv'
<1>1. pc' \in [Procs -> Pcs] /\ job' \in [Procs -> Jobs] /\ mem' \in [Procs -> Config]
  BY EmptyGood DEF IInv, TypeOK, Finish, Pcs, Jobs, Commands, Good
<1>2. answer' \in Answers
  BY JobsType DEF Finish, Answers
<1>3. \A q \in Procs : Changing(q)' => Changing(q) /\ mem'[q] = mem[q]
  BY DEF IInv, TypeOK, Finish, Changing
<1>4. \A q \in Procs : Changing(q)' => WellFormed(mem'[q])
  BY <1>3 DEF IInv
<1> QED BY <1>1, <1>2, <1>4 DEF IInv, TypeOK, Silent, WellFormed, NamesOf

LEMMA SaveKeeps ==
  ASSUME IInv, NEW p \in Procs, NEW config, Good(config), Save(p, config)
  PROVE  IInv'
<1>1. pc' \in [Procs -> Pcs] /\ mem' \in [Procs -> Config]
  BY DEF IInv, TypeOK, Save, Pcs, Good
<1>2. \A q \in Procs : Changing(q)' =>
        \/ q = p /\ mem'[q] = config
        \/ Changing(q) /\ mem'[q] = mem[q]
  BY DEF IInv, TypeOK, Save, Changing
<1>3. \A q \in Procs : Changing(q)' => WellFormed(mem'[q])
  BY <1>2 DEF IInv, Good
<1> QED BY <1>1, <1>3 DEF IInv, TypeOK, Save, Silent, WellFormed, NamesOf

(* A step that moves p to "started" or "prompt" and leaves the file alone.  *)
LEMMA MoveKeeps ==
  ASSUME IInv, NEW p \in Procs, NEW to \in {"started", "prompt"},
         NEW c \in Jobs, NEW config \in Config,
         pc' = [pc EXCEPT ![p] = to], job' = [job EXCEPT ![p] = c],
         mem' = [mem EXCEPT ![p] = config], answer' = Silent, UNCHANGED file
  PROVE  IInv'
<1>1. /\ pc' \in [Procs -> Pcs] /\ job' \in [Procs -> Jobs]
      /\ mem' \in [Procs -> Config]
  BY DEF IInv, TypeOK, Pcs
<1>2. \A q \in Procs : Changing(q)' => Changing(q) /\ mem'[q] = mem[q]
  BY DEF IInv, TypeOK, Changing
<1>3. \A q \in Procs : Changing(q)' => WellFormed(mem'[q])
  BY <1>2 DEF IInv
<1> QED BY <1>1, <1>3 DEF IInv, TypeOK, Silent, WellFormed, NamesOf

LEMMA RefuseKeeps ==
  ASSUME IInv, NEW p \in Procs, Refuse(p)
  PROVE  IInv'
<1>1. job[p] \in Jobs /\ Refusal(job[p].op) \in {"error", "traceback"}
  BY DEF IInv, TypeOK, Refusal
<1> QED BY <1>1, FinishKeeps DEF Refuse, IInv, TypeOK

LEMMA InvokeKeeps ==
  ASSUME IInv, NEW p \in Procs, NEW c \in Commands, Invoke(p, c)
  PROVE  IInv'
<1>1. c \in Jobs
  BY DEF Jobs
<1>2. CASE Load(file) = Corrupt
  BY <1>1, <1>2, FinishKeeps DEF Invoke, IInv, TypeOK
<1>3. CASE Load(file) # Corrupt /\ c.op = "diag"
  <2>1. ActiveDsn(Load(file)) \in Dsns \cup {None}
    <3>1. Load(file) \in Config
      BY <1>3, LoadGood DEF IInv, TypeOK, Good
    <3> DEFINE config == Load(file)
               hits == {i \in DOMAIN config.sources :
                          config.sources[i].name = config.active}
    <3>2. config.sources \in Seq(Source)
      BY <3>1 DEF Config
    <3>3. \A i \in DOMAIN config.sources : config.sources[i].dsn \in Dsns
      <4>1. \A i \in DOMAIN config.sources : config.sources[i] \in Source
        BY <3>2
      <4> QED BY <4>1 DEF Source
    <3>4. hits # {} => \E i \in hits : \A j \in hits : i <= j
      <4>1. hits \in SUBSET Nat
        BY <3>2
      <4> QED BY <4>1, LeastNatural
    <3> QED BY <3>3, <3>4 DEF ActiveDsn
  <2> QED BY <1>1, <1>3, <2>1, FinishKeeps DEF Invoke, IInv, TypeOK
<1>4. CASE Load(file) # Corrupt /\ c.op # "diag"
  <2>1. mem[p] \in Config /\ mem = [mem EXCEPT ![p] = mem[p]]
    BY DEF IInv, TypeOK
  <2> QED BY <1>1, <1>4, <2>1, MoveKeeps DEF Invoke, Enter
<1> QED BY <1>2, <1>3, <1>4

LEMMA InvokeWithUriKeeps ==
  ASSUME IInv, NEW p \in Procs, NEW c \in Commands, InvokeWithUri(p, c)
  PROVE  IInv'
<1>1. c \in Jobs
  BY DEF Jobs
<1>2. CASE c.op = "diag"
  BY <1>1, <1>2, FinishKeeps DEF InvokeWithUri, IInv, TypeOK
<1>3. CASE c.op # "diag"
  <2>1. mem[p] \in Config /\ mem = [mem EXCEPT ![p] = mem[p]]
    BY DEF IInv, TypeOK
  <2> QED BY <1>1, <1>3, <2>1, MoveKeeps DEF InvokeWithUri, Enter
<1> QED BY <1>2, <1>3

LEMMA RunListKeeps ==
  ASSUME IInv, NEW p \in Procs, RunList(p)
  PROVE  IInv'
<1>1. Good(Load(file))
  BY LoadGood DEF RunList, Started, IInv, TypeOK
<1>2. job[p] \in Jobs /\ job = [job EXCEPT ![p] = job[p]]
  BY DEF IInv, TypeOK
<1>3. CASE Load(file).sources = << >>
  BY <1>2, <1>3, FinishKeeps DEF RunList, IInv, TypeOK
<1>4. CASE Load(file).sources # << >>
  <2>1. Load(file) \in Config
    BY <1>1 DEF Good
  <2> QED BY <1>2, <1>4, <2>1, MoveKeeps DEF RunList
<1> QED BY <1>3, <1>4

LEMMA PickKeeps ==
  ASSUME IInv, NEW p \in Procs, NEW i \in 1..MaxSources, Pick(p, i)
  PROVE  IInv'
<1> DEFINE chosen == Command("activate", mem[p].sources[i].name, None)
<1>1. chosen \in Jobs
  <2>1. mem[p] \in Config /\ i \in DOMAIN mem[p].sources
    BY DEF IInv, TypeOK, Pick
  <2>2. mem[p].sources[i].name \in Names
    BY <2>1, NamesOfType DEF NamesOf
  <2> QED BY <2>2 DEF Jobs
<1> HIDE DEF chosen
<1>2. \/ Finish(p, chosen, "already") /\ UNCHANGED file
      \/ /\ pc' = [pc EXCEPT ![p] = "started"]
         /\ job' = [job EXCEPT ![p] = chosen]
         /\ mem' = [mem EXCEPT ![p] = Empty]
         /\ answer' = Silent /\ UNCHANGED file
  BY DEF Pick, chosen
<1>3. Empty \in Config
  BY EmptyGood DEF Good
<1> QED BY <1>1, <1>2, <1>3, FinishKeeps, MoveKeeps DEF IInv, TypeOK

LEMMA StepKeeps ==
  ASSUME IInv, NEW p \in Procs, Step(p)
  PROVE  IInv'
<1>0. job[p] \in Jobs /\ mem[p] \in Config
  BY DEF IInv, TypeOK
<1> DEFINE config == Load(file)
<1>a. config # Corrupt => Good(config)
  BY LoadGood DEF IInv, TypeOK
<1>1. CASE RunCorrupt(p)
  BY <1>1, RefuseKeeps DEF RunCorrupt
<1>2. CASE RunAdd(p)
  <2>1. Good(config) /\ job[p].name \in Names /\ job[p].dsn \in Dsns
    BY <1>0, <1>2, <1>a, JobsType DEF RunAdd, Started
  <2> QED BY <1>2, <2>1, RefuseKeeps, SaveKeeps, AddedGood DEF RunAdd
<1>3. CASE RunRemove(p)
  <2>1. Good(config) /\ job[p].name \in Names
    BY <1>0, <1>3, <1>a, JobsType DEF RunRemove, Started
  <2> QED BY <1>3, <2>1, RefuseKeeps, SaveKeeps, RemovedGood DEF RunRemove
<1>4. CASE RunUse(p)
  <2>1. Good(config) /\ job[p].name \in Names
    BY <1>0, <1>4, <1>a, JobsType DEF RunUse, Started
  <2> QED BY <1>4, <2>1, RefuseKeeps, SaveKeeps, ActivatedGood DEF RunUse
<1>5. CASE RunList(p)
  BY <1>5, RunListKeeps
<1>6. CASE Cancel(p)
  BY <1>0, <1>6, FinishKeeps DEF Cancel, IInv, TypeOK
<1>7. CASE \E i \in 1..MaxSources : Pick(p, i)
  BY <1>7, PickKeeps
<1>8. CASE Truncate(p)
  <2>1. file' = Empty /\ Good(Empty)
    BY <1>8, EmptyGood DEF Truncate
  <2>2. pc' \in [Procs -> Pcs] /\ UNCHANGED <<job, mem>> /\ answer' = Silent
    BY <1>8 DEF Truncate, IInv, TypeOK, Pcs
  <2>3. \A q \in Procs : Changing(q)' => Changing(q)
    BY <1>8 DEF Truncate, Changing, IInv, TypeOK
  <2> QED BY <2>1, <2>2, <2>3 DEF IInv, TypeOK, Good, WellFormed, NamesOf, Silent
<1>9. CASE Write(p)
  <2>1. Good(mem[p])
    BY <1>0, <1>9 DEF Write, IInv, Changing, Good
  <2>2. PICK text \in Landed(mem[p], file) : file' = text
    BY <1>9 DEF Write
  <2>3. file' # Corrupt => Good(file')
    BY <2>1, <2>2, LandedGood DEF IInv, TypeOK, Good
  <2>4. file' \in Config \cup {Corrupt} /\ (file' # Corrupt => WellFormed(file'))
    BY <2>3 DEF Good
  <2> QED BY <1>0, <1>9, <2>4, FinishKeeps DEF Write
<1>10. CASE Kill(p)
  BY <1>0, <1>10, FinishKeeps DEF Kill, IInv, TypeOK
<1> QED BY <1>1, <1>2, <1>3, <1>4, <1>5, <1>6, <1>7, <1>8, <1>9, <1>10 DEF Step

(* Types and the well-formedness of every copy hold in every state.         *)
THEOREM Invariance == Spec => []IInv
<1>1. Init => IInv
  BY EmptyGood DEF Init, IInv, TypeOK, Good, Pcs, Jobs, Commands, Changing, Silent
<1>2. IInv /\ [Next]_vars => IInv'
  <2> SUFFICES ASSUME IInv, [Next]_vars PROVE IInv'
    OBVIOUS
  <2>1. CASE Next
    BY <2>1, StepKeeps, InvokeKeeps, InvokeWithUriKeeps DEF Next
  <2>2. CASE UNCHANGED vars
    BY <2>2 DEF vars, IInv, TypeOK, Changing, WellFormed, NamesOf
  <2> QED BY <2>1, <2>2
<1> QED BY <1>1, <1>2, PTL DEF Spec

(* TypeOK holds in every state.                                             *)
THEOREM TypeCorrect == Spec => []TypeOK
<1>1. IInv => TypeOK
  BY DEF IInv
<1> QED BY <1>1, Invariance, PTL

(* However many processes interleave their loads, truncations and writes,   *)
(* and wherever they are killed, a file that parses names as active a       *)
(* source it lists.                                                         *)
THEOREM ActiveAlwaysListed == Spec => []ActiveIsListed
<1>1. IInv => ActiveIsListed
  BY LoadGood DEF IInv, TypeOK, ActiveIsListed, Good
<1> QED BY <1>1, Invariance, PTL

\* What a step that serves a command while the file is wedged must be.
FromPrompt == Served' => \E p \in Procs : pc[p] = "prompt" /\ pc'[p] = "idle"

\* One step of a file that does not parse, with no change under way: nobody
\* touches it, nobody comes to a change, and a command that needs the file fails.
LEMMA WedgedStep ==
  ASSUME TypeOK, Wedged, [Next]_vars, ~ UNCHANGED vars
  PROVE  Wedged' /\ FromPrompt
<1>1. PICK p \in Procs :
        Step(p) \/ \E c \in Commands : Invoke(p, c) \/ InvokeWithUri(p, c)
  BY DEF Next
<1>2. /\ pc \in [Procs -> Pcs] /\ Load(file) = Corrupt
      /\ \A q \in Procs : pc[q] \notin {"save", "write"}
  BY DEF TypeOK, Wedged, Changing
<1>3. ASSUME NEW to \in {"idle", "started"}, pc' = [pc EXCEPT ![p] = to],
             UNCHANGED file
      PROVE  Wedged'
  <2>1. \A q \in Procs : pc'[q] \notin {"save", "write"}
    BY <1>2, <1>3
  <2>2. Load(file)' = Corrupt
    BY <1>2, <1>3 DEF Load, Readable, Parsed
  <2> QED BY <2>1, <2>2 DEF Wedged, Changing
<1>4. ASSUME NEW c, NEW r \in {"given", "error", "traceback", "killed"},
             Finish(p, c, r), UNCHANGED file
      PROVE  Wedged' /\ FromPrompt
  BY <1>3, <1>4 DEF Finish, FromPrompt, Served
<1>5. ASSUME pc[p] = "prompt", NEW c, NEW r, Finish(p, c, r), UNCHANGED file
      PROVE  Wedged' /\ FromPrompt
  <2>1. pc'[p] = "idle"
    BY <1>2, <1>5 DEF Finish
  <2> QED BY <1>3, <1>5, <2>1 DEF Finish, FromPrompt
<1>6. ASSUME pc' = [pc EXCEPT ![p] = "started"], answer' = Silent, UNCHANGED file
      PROVE  Wedged' /\ FromPrompt
  BY <1>3, <1>6 DEF FromPrompt, Served
<1>7. CASE \E c \in Commands : Invoke(p, c)
  BY <1>2, <1>4, <1>7 DEF Invoke
<1>8. CASE \E c \in Commands : InvokeWithUri(p, c)
  BY <1>4, <1>6, <1>8 DEF InvokeWithUri, Enter
<1>9. CASE RunCorrupt(p)
  BY <1>4, <1>9 DEF RunCorrupt, Refuse, Refusal
<1>10. CASE RunAdd(p) \/ RunRemove(p) \/ RunUse(p) \/ RunList(p)
  BY <1>2, <1>10 DEF RunAdd, RunRemove, RunUse, RunList, Started
<1>11. CASE Cancel(p)
  BY <1>5, <1>11 DEF Cancel
<1>12. CASE Kill(p)
  BY <1>4, <1>12 DEF Kill
<1>13. CASE \E i \in 1..MaxSources : Pick(p, i)
  BY <1>5, <1>6, <1>13 DEF Pick
<1>14. CASE Truncate(p) \/ Write(p)
  BY <1>2, <1>14 DEF Truncate, Write
<1> QED BY <1>1, <1>7, <1>8, <1>9, <1>10, <1>11, <1>12, <1>13, <1>14 DEF Step

\* A file that is left in a state tomllib refuses, with nobody about to write it,
\* stays so whatever commands are run; and each of them that loads it fails, so
\* that only a list printed before can still be answered.
THEOREM CorruptStaysCorrupt == Spec => WedgedForever
<1>1. TypeOK /\ [Next]_vars => [Wedged => Wedged' /\ FromPrompt]_vars
  BY WedgedStep
<1>2. TypeOK /\ [Next]_vars =>
        [Wedged =>
           /\ Wedged'
           /\ Served' => \E p \in Procs : pc[p] = "prompt" /\ pc'[p] = "idle"]_vars
  BY <1>1 DEF FromPrompt
<1> QED BY <1>2, TypeCorrect, PTL DEF Spec, WedgedForever

-----------------------------------------------------------------------------
(* One change at a time.                                                    *)

Unique(config) ==
  \A i, j \in DOMAIN config.sources :
    config.sources[i].name = config.sources[j].name => i = j

\* Two aliases that read back do not read back as one (an alias with a
\* backslash in it may).
ReadBackInjective ==
  \A m, n \in Names : ReadBack[m] = ReadBack[n] /\ ReadBack[m] # Corrupt => m = n

SerialInv ==
  /\ IInv
  /\ \A p, q \in Procs : Changing(p) /\ Changing(q) => p = q
  /\ \A p \in Procs : pc[p] = "write" => file = Empty
  /\ file # Corrupt => Unique(file)
  /\ \A p \in Procs : Changing(p) => Unique(mem[p])

LEMMA LoadUnique ==
  ASSUME ReadBackInjective, NEW text \in Config, Unique(text), Readable(text)
  PROVE  Unique(Parsed(text))
<1>1. text.sources \in Seq(Source)
  BY DEF Config
<1>2. \A i \in DOMAIN text.sources : text.sources[i].name \in Names
  <2>1. \A i \in DOMAIN text.sources : text.sources[i] \in Source
    BY <1>1
  <2> QED BY <2>1 DEF Source
<1>3. /\ DOMAIN Parsed(text).sources = DOMAIN text.sources
      /\ \A i \in DOMAIN text.sources :
           Parsed(text).sources[i].name = ReadBack[text.sources[i].name]
  BY DEF Parsed
<1> QED BY <1>2, <1>3 DEF Unique, ReadBackInjective, Readable

LEMMA AddedUnique ==
  ASSUME NEW config, Good(config), Unique(config),
         NEW n \in Names \ NamesOf(config), NEW d \in Dsns
  PROVE  Unique(Added(config, n, d))
<1>1. config.sources \in Seq(Source) /\ [name |-> n, dsn |-> d] \in Source
  BY DEF Good, Config, Source
<1> DEFINE new == Append(config.sources, [name |-> n, dsn |-> d])
<1>2. /\ \A i \in DOMAIN new : i \in DOMAIN config.sources \/ i = Len(config.sources) + 1
      /\ \A i \in DOMAIN config.sources : new[i] = config.sources[i]
      /\ new[Len(config.sources) + 1].name = n
  BY <1>1
<1>3. \A i \in DOMAIN config.sources : config.sources[i].name # n
  BY DEF NamesOf
<1>4. \A i, j \in DOMAIN new : new[i].name = new[j].name => i = j
  <2> HIDE DEF new
  <2> QED BY <1>2, <1>3 DEF Unique
<1> QED BY <1>4 DEF Unique, Added

LEMMA RemovedUnique ==
  ASSUME NEW config, Good(config), Unique(config), NEW n
  PROVE  Unique(Removed(config, n))
<1>1. config.sources \in Seq(Source)
  BY DEF Good, Config
<1>2. Leaves(config.sources, n, Len(config.sources), Without(config.sources, n))
  BY <1>1, WithoutLeaves
<1>3. /\ DOMAIN config.sources = 1..Len(config.sources)
      /\ DOMAIN Without(config.sources, n) = 1..Len(Without(config.sources, n))
  BY <1>1, <1>2 DEF Leaves
<1> QED BY <1>2, <1>3 DEF Leaves, Unique, Removed

(* Only a save that is started, a truncation or a write touch what the      *)
(* uniqueness of names depends on.                                          *)
LEMMA SerialStep ==
  ASSUME ReadBackInjective, SerialInv, NEW p \in Procs,
         \A q \in Procs \ {p} : ~ Changing(q),
         Step(p) \/ \E c \in Commands : Invoke(p, c) \/ InvokeWithUri(p, c)
  PROVE  SerialInv'
<1>1. IInv'
  BY StepKeeps, InvokeKeeps, InvokeWithUriKeeps DEF SerialInv
<1>2. \A q \in Procs \ {p} : ~ Changing(q)'
  BY DEF SerialInv, IInv, TypeOK, Step, Invoke, InvokeWithUri, Enter, RunCorrupt,
         RunAdd, RunRemove, RunUse, RunList, Cancel, Pick, Truncate, Write, Kill,
         Refuse, Finish, Save, Changing
<1>3. ASSUME UNCHANGED file, pc'[p] # "write",
             Changing(p)' => Unique(mem'[p])
      PROVE  SerialInv'
  BY <1>1, <1>2, <1>3 DEF SerialInv, Unique, Changing
<1>4. ASSUME NEW config, Save(p, config), Unique(config)
      PROVE  SerialInv'
  <2>1. UNCHANGED file /\ pc'[p] = "save" /\ mem'[p] = config
    BY <1>4 DEF Save, SerialInv, IInv, TypeOK
  <2> QED BY <1>3, <1>4, <2>1
<1>5. ASSUME NEW c, NEW r, Finish(p, c, r), UNCHANGED file
      PROVE  SerialInv'
  <2>1. pc'[p] = "idle"
    BY <1>5 DEF Finish, SerialInv, IInv, TypeOK
  <2> QED BY <1>3, <1>5, <2>1 DEF Changing
<1>6. ASSUME NEW to \in {"started", "prompt"}, pc' = [pc EXCEPT ![p] = to],
             UNCHANGED file
      PROVE  SerialInv'
  <2>1. pc'[p] = to
    BY <1>6 DEF SerialInv, IInv, TypeOK
  <2> QED BY <1>3, <1>6, <2>1 DEF Changing
<1> DEFINE config == Load(file)
<1>7. config # Corrupt => Good(config) /\ Unique(config)
  <2> SUFFICES ASSUME config # Corrupt PROVE Good(config) /\ Unique(config)
    OBVIOUS
  <2>1. Good(config)
    BY LoadGood DEF SerialInv, IInv, TypeOK
  <2>2. file \in Config /\ Readable(file) /\ config = Parsed(file)
    BY DEF Load, Readable, SerialInv, IInv, TypeOK
  <2> QED BY <2>1, <2>2, LoadUnique DEF SerialInv, Readable
<1>8. job[p] \in Jobs
  BY DEF SerialInv, IInv, TypeOK
<1>9. CASE \E c \in Commands : Invoke(p, c) \/ InvokeWithUri(p, c)
  BY <1>5, <1>6, <1>9 DEF Invoke, InvokeWithUri, Enter
<1>10. CASE RunCorrupt(p)
  BY <1>5, <1>10 DEF RunCorrupt, Refuse
<1>11. CASE RunAdd(p)
  <2>1. /\ Good(config) /\ Unique(config)
        /\ job[p].name \in Names /\ job[p].dsn \in Dsns
    BY <1>7, <1>8, <1>11, JobsType DEF RunAdd, Started
  <2>2. job[p].name \notin NamesOf(config) =>
          Unique(Added(config, job[p].name, job[p].dsn))
    BY <2>1, AddedUnique
  <2> QED BY <1>4, <1>5, <1>11, <2>2 DEF RunAdd, Refuse
<1>12. CASE RunRemove(p)
  <2>1. Unique(Removed(config, job[p].name))
    BY <1>7, <1>12, RemovedUnique DEF RunRemove, Started
  <2> QED BY <1>4, <1>5, <1>12, <2>1 DEF RunRemove, Refuse
<1>13. CASE RunUse(p)
  <2>1. Good(config) /\ Unique(config)
    BY <1>7, <1>13 DEF RunUse, Started
  <2>2. Activated(config, job[p].name).sources = config.sources
    BY <2>1 DEF Activated, Good, Config
  <2>3. Unique(Activated(config, job[p].name))
    BY <2>1, <2>2 DEF Unique
  <2> QED BY <1>4, <1>5, <1>13, <2>3 DEF RunUse, Refuse
<1>14. CASE RunList(p)
  BY <1>5, <1>6, <1>14 DEF RunList
<1>15. CASE Cancel(p)
  BY <1>5, <1>15 DEF Cancel
<1>16. CASE \E i \in 1..MaxSources : Pick(p, i)
  BY <1>5, <1>6, <1>16 DEF Pick
<1>17. CASE Truncate(p)
  <2>1. file' = Empty /\ mem' = mem /\ Changing(p)
    BY <1>17 DEF Truncate, Changing
  <2>2. Unique(Empty)
    BY DEF Unique, Empty
  <2> QED BY <1>1, <1>2, <2>1, <2>2 DEF SerialInv, Unique, Changing
<1>18. CASE Write(p)
  <2>1. file = Empty /\ Unique(mem[p])
    BY <1>18 DEF Write, SerialInv, Changing
  <2>2. file' = mem[p] /\ pc'[p] = "idle"
    BY <1>18, <2>1 DEF Write, Landed, Finish, SerialInv, IInv, TypeOK
  <2> QED BY <1>1, <1>2, <2>1, <2>2 DEF SerialInv, Unique, Changing
<1>19. CASE Kill(p)
  BY <1>5, <1>19 DEF Kill
<1> QED BY <1>9, <1>10, <1>11, <1>12, <1>13, <1>14, <1>15, <1>16, <1>17, <1>18,
           <1>19 DEF Step

THEOREM SerialInvariance ==
  ASSUME ReadBackInjective
  PROVE  SerialSpec => []SerialInv
<1>1. Init => SerialInv
  <2> SUFFICES ASSUME Init PROVE SerialInv
    OBVIOUS
  <2>1. IInv
    BY EmptyGood DEF Init, IInv, TypeOK, Good, Pcs, Jobs, Commands, Changing, Silent
  <2> QED BY <2>1 DEF Init, SerialInv, Changing, Unique, Empty
<1>2. SerialInv /\ [SerialNext]_vars => SerialInv'
  <2> SUFFICES ASSUME SerialInv, [SerialNext]_vars PROVE SerialInv'
    OBVIOUS
  <2>1. CASE SerialNext
    BY <2>1, SerialStep DEF SerialNext
  <2>2. CASE UNCHANGED vars
    BY <2>2 DEF vars, SerialInv, IInv, TypeOK, Changing, WellFormed, NamesOf, Unique
  <2> QED BY <2>1, <2>2
<1> QED BY <1>1, <1>2, PTL DEF SerialSpec

(* A user who waits for each change never has two sources of one name,      *)
(* whatever prompts stay open and whatever is killed.                       *)
THEOREM NamesStayUnique ==
  ASSUME ReadBackInjective
  PROVE  SerialSpec => []UniqueNames
<1>1. SerialInv => UniqueNames
  <2> SUFFICES ASSUME SerialInv, Load(file) # Corrupt PROVE UniqueNames
    BY DEF UniqueNames
  <2>1. file \in Config /\ Readable(file) /\ Load(file) = Parsed(file)
    BY DEF Load, Readable, SerialInv, IInv, TypeOK
  <2>2. Unique(Load(file))
    BY <2>1, LoadUnique DEF SerialInv, Readable
  <2> QED BY <2>2 DEF Unique, UniqueNames
<1> QED BY <1>1, SerialInvariance, PTL

-----------------------------------------------------------------------------
(* The refinement: under one change at a time SourceConfig implements       *)
(* SourceRegistry, for any processes, and any aliases and DSNs that need no *)
(* quoting.                                                                 *)


\* No alias or DSN holds what a TOML string would have to escape.
Plain == \A s \in Strings : ReadBack[s] = s

LEMMA PlainInjective == Plain => ReadBackInjective
BY DEF Plain, ReadBackInjective, Strings

LEMMA LoadIsText ==
  ASSUME Plain, NEW text \in Config
  PROVE  Load(text) = text /\ text # Corrupt
<1>1. /\ text = [active |-> text.active, sources |-> text.sources]
      /\ text.active \in Names \cup {None} /\ text.sources \in Seq(Source)
      /\ text # Corrupt
  BY CorruptAssumption DEF Config
<1>2. \A i \in DOMAIN text.sources : text.sources[i] \in Source
  BY <1>1
<1>3. \A i \in DOMAIN text.sources :
        /\ text.sources[i].name \in Strings /\ text.sources[i].dsn \in Strings
        /\ text.sources[i] = [name |-> text.sources[i].name, dsn |-> text.sources[i].dsn]
  BY <1>2 DEF Source, Strings
<1>4. Readable(text)
  BY <1>1, <1>3, ConstantsAssumption DEF Readable, Plain, Strings
<1>5. \A i \in DOMAIN text.sources :
        [name |-> ReadBack[text.sources[i].name],
         dsn |-> ReadBack[text.sources[i].dsn]] = text.sources[i]
  BY <1>3 DEF Plain
<1>6. text.sources = [i \in DOMAIN text.sources |-> text.sources[i]]
  BY <1>1
<1>7. Parsed(text).sources = text.sources
  BY <1>5, <1>6 DEF Parsed
<1>8. Parsed(text).active = text.active
  BY <1>1 DEF Parsed, Plain, Strings
<1>9. Parsed(text) = text
  BY <1>1, <1>7, <1>8 DEF Parsed
<1> QED BY <1>1, <1>4, <1>9 DEF Load

-----------------------------------------------------------------------------
(* The table a config stands for, and what the changes make of it.          *)

DsnOf(config) ==
  [n \in NamesOf(config) |->
     config.sources[CHOOSE i \in DOMAIN config.sources : config.sources[i].name = n].dsn]

LEMMA DsnOfAt ==
  ASSUME NEW config, Unique(config), NEW i \in DOMAIN config.sources
  PROVE  DsnOf(config)[config.sources[i].name] = config.sources[i].dsn
<1> DEFINE n == config.sources[i].name
           j == CHOOSE k \in DOMAIN config.sources : config.sources[k].name = n
<1>1. j \in DOMAIN config.sources /\ config.sources[j].name = n
  OBVIOUS
<1>2. j = i
  BY <1>1 DEF Unique
<1>3. n \in NamesOf(config)
  BY DEF NamesOf
<1>4. DsnOf(config)[n] = config.sources[j].dsn
  BY <1>3 DEF DsnOf
<1> QED BY <1>2, <1>4

LEMMA DsnOfIs ==
  ASSUME NEW config, Unique(config), NEW f, f = [n \in NamesOf(config) |-> f[n]],
         \A i \in DOMAIN config.sources :
           f[config.sources[i].name] = config.sources[i].dsn
  PROVE  DsnOf(config) = f
<1>1. ASSUME NEW n \in NamesOf(config) PROVE DsnOf(config)[n] = f[n]
  <2>1. PICK i \in DOMAIN config.sources : config.sources[i].name = n
    BY DEF NamesOf
  <2>2. DsnOf(config)[config.sources[i].name] = config.sources[i].dsn
    BY DsnOfAt
  <2> QED BY <2>1, <2>2
<1>2. DsnOf(config) = [n \in NamesOf(config) |-> DsnOf(config)[n]]
  BY DEF DsnOf
<1> QED BY <1>1, <1>2

Registering(table, n, d) ==
  [m \in DOMAIN table \cup {n} |-> IF m = n THEN d ELSE table[m]]

LEMMA AddedDsn ==
  ASSUME NEW config, Good(config), Unique(config),
         NEW n \in Names \ NamesOf(config), NEW d \in Dsns
  PROVE  DsnOf(Added(config, n, d)) = Registering(DsnOf(config), n, d)
<1> DEFINE new == Added(config, n, d)
           f == Registering(DsnOf(config), n, d)
<1>0. f = [m \in NamesOf(config) \cup {n} |-> IF m = n THEN d ELSE DsnOf(config)[m]]
  BY DEF Registering, DsnOf
<1>1. config.sources \in Seq(Source) /\ [name |-> n, dsn |-> d] \in Source
  BY DEF Good, Config, Source
<1>2. /\ DOMAIN new.sources = DOMAIN config.sources \cup {Len(config.sources) + 1}
      /\ new.sources[Len(config.sources) + 1] = [name |-> n, dsn |-> d]
      /\ \A i \in DOMAIN config.sources : new.sources[i] = config.sources[i]
  BY <1>1 DEF Added
<1>3. Unique(new)
  BY AddedUnique
<1> HIDE DEF new, f
<1>4. NamesOf(new) = NamesOf(config) \cup {n}
  BY <1>2 DEF NamesOf
<1>5. ASSUME NEW i \in DOMAIN new.sources
      PROVE  f[new.sources[i].name] = new.sources[i].dsn
  <2>1. CASE i = Len(config.sources) + 1
    BY <1>0, <1>2, <2>1
  <2>2. CASE i \in DOMAIN config.sources
    <3>1. config.sources[i].name \in NamesOf(config)
      BY <2>2 DEF NamesOf
    <3> QED BY <1>0, <1>2, <2>2, <3>1, DsnOfAt
  <2> QED BY <1>2, <2>1, <2>2
<1>6. f = [m \in NamesOf(new) |-> f[m]]
  BY <1>0, <1>4
<1>7. DsnOf(new) = f
  BY <1>3, <1>5, <1>6, DsnOfIs
<1> QED BY <1>7 DEF f, new

LEMMA RemovedDsn ==
  ASSUME NEW config, Good(config), Unique(config), NEW n \in Names
  PROVE  /\ DsnOf(Removed(config, n)) =
              [m \in NamesOf(config) \ {n} |-> DsnOf(config)[m]]
         /\ NamesOf(Removed(config, n)) = NamesOf(config) \ {n}
<1> DEFINE s == config.sources
           t == Without(s, n)
           new == Removed(config, n)
           f == [m \in NamesOf(config) \ {n} |-> DsnOf(config)[m]]
<1>1. s \in Seq(Source) /\ new.sources = t
  BY DEF Good, Config, Removed
<1>2. Leaves(s, n, Len(s), t)
  BY <1>1, WithoutLeaves
<1>3. Unique(new)
  BY RemovedUnique
<1> HIDE DEF t, new
<1>4. /\ \A i \in DOMAIN t : t[i].name # n /\ \E j \in DOMAIN s : t[i] = s[j]
      /\ \A j \in DOMAIN s : s[j].name # n => \E i \in DOMAIN t : t[i] = s[j]
  <2>1. DOMAIN s = 1..Len(s) /\ DOMAIN t = 1..Len(t)
    BY <1>1, <1>2 DEF Leaves
  <2>2. \A i \in 1..Len(t) : t[i].name # n /\ \E j \in 1..Len(s) : t[i] = s[j]
    BY <1>2 DEF Leaves
  <2>3. \A j \in 1..Len(s) : s[j].name # n => \E i \in 1..Len(t) : t[i] = s[j]
    BY <1>2 DEF Leaves
  <2> HIDE DEF s
  <2> QED BY <2>1, <2>2, <2>3
<1>5. NamesOf(new) = NamesOf(config) \ {n}
  BY <1>1, <1>4 DEF NamesOf
<1>6. ASSUME NEW i \in DOMAIN new.sources
      PROVE  f[new.sources[i].name] = new.sources[i].dsn
  <2>1. PICK j \in DOMAIN s : t[i] = s[j] /\ s[j].name # n
    BY <1>1, <1>4
  <2>2. s[j].name \in NamesOf(config)
    BY DEF NamesOf
  <2>3. DsnOf(config)[s[j].name] = s[j].dsn
    BY DsnOfAt
  <2> QED BY <1>1, <2>1, <2>2, <2>3
<1>7. f = [m \in NamesOf(new) |-> f[m]]
  BY <1>5
<1> HIDE DEF f
<1>8. DsnOf(new) = f
  BY <1>3, <1>6, <1>7, DsnOfIs
<1> QED BY <1>5, <1>8 DEF f, new

LEMMA ActivatedDsn ==
  ASSUME NEW config, Good(config), NEW n
  PROVE  /\ DsnOf(Activated(config, n)) = DsnOf(config)
         /\ Activated(config, n).active = n
<1>1. Activated(config, n).sources = config.sources /\ Activated(config, n).active = n
  BY DEF Good, Config, Activated
<1> QED BY <1>1 DEF DsnOf, NamesOf

\* get_active_dsn looks its alias up in the table.
LEMMA ActiveDsnIs ==
  ASSUME NEW config, Good(config), Unique(config)
  PROVE  ActiveDsn(config) = IF config.active \in {None, Blank} THEN None
                             ELSE DsnOf(config)[config.active]
<1> DEFINE hits == {i \in DOMAIN config.sources : config.sources[i].name = config.active}
<1>1. CASE config.active \in {None, Blank}
  BY <1>1 DEF ActiveDsn
<1>2. CASE config.active \notin {None, Blank}
  <2>1. PICK i \in DOMAIN config.sources : config.sources[i].name = config.active
    BY <1>2 DEF Good, WellFormed, NamesOf
  <2>2. hits = {i}
    BY <2>1 DEF Unique
  <2>3. i \in Nat
    <3>1. config.sources \in Seq(Source)
      BY DEF Good, Config
    <3> QED BY <3>1
  <2>4. (CHOOSE k \in hits : \A j \in hits : k <= j) = i
    BY <2>2, <2>3
  <2>5. ActiveDsn(config) = config.sources[i].dsn
    BY <1>2, <2>2, <2>4 DEF ActiveDsn
  <2> QED BY <1>2, <2>1, <2>5, DsnOfAt
<1> QED BY <1>1, <1>2

-----------------------------------------------------------------------------
(* The invariant: the file parses, and a process that is about to save       *)
(* holds the change its subcommand is to make to the file as it is.          *)

ChangeOf(c, old, new) ==
  \/ /\ c.op = "add" /\ c.name \notin NamesOf(old)
     /\ new = Added(old, c.name, c.dsn)
  \/ /\ c.op = "rm" /\ c.name \in NamesOf(old)
     /\ new = Removed(old, c.name)
  \/ /\ c.op \in {"use", "activate"} /\ c.name \in NamesOf(old)
     /\ new = Activated(old, c.name)

JobPlaced(p) ==
  /\ pc[p] # "idle" => job[p].op # "diag"
  /\ pc[p] = "prompt" => job[p].op = "ls"
  /\ Changing(p) => job[p].op \in {"add", "rm", "use", "activate"}
  /\ pc[p] = "save" => ChangeOf(job[p], file, mem[p])

RegistryInv ==
  /\ SerialInv /\ file # Corrupt
  /\ \A p \in Procs : JobPlaced(p)

\* What a serial step knows of the state it starts in.
Alone(p) ==
  /\ p \in Procs
  /\ \A q \in Procs \ {p} : ~ Changing(q)
  /\ Step(p) \/ \E c \in Commands : Invoke(p, c) \/ InvokeWithUri(p, c)

LEMMA StateFacts ==
  ASSUME RegistryInv, NEW p \in Procs
  PROVE  /\ pc \in [Procs -> Pcs] /\ job \in [Procs -> Jobs]
         /\ mem \in [Procs -> Config]
         /\ file \in Config /\ Good(file) /\ Unique(file)
         /\ Changing(p) => Good(mem[p]) /\ Unique(mem[p])
BY DEF RegistryInv, SerialInv, IInv, TypeOK, Good

\* The other processes stay where they were, and none of them is about to save.
LEMMA OthersPlaced ==
  ASSUME RegistryInv, NEW p, Alone(p), JobPlaced(p)'
  PROVE  \A q \in Procs : JobPlaced(q)'
<1> SUFFICES ASSUME NEW q \in Procs \ {p} PROVE JobPlaced(q)'
  OBVIOUS
<1>1. ~ Changing(q) /\ JobPlaced(q)
  BY DEF Alone, RegistryInv
<1>2. pc \in [Procs -> Pcs] /\ job \in [Procs -> Jobs] /\ p \in Procs
  BY StateFacts DEF Alone
<1>3. pc'[q] = pc[q] /\ job'[q] = job[q]
  BY <1>2 DEF Alone, Step, Invoke, InvokeWithUri, Enter, RunCorrupt, RunAdd, RunRemove, RunUse, RunList,
     Cancel, Pick, Truncate, Write, Kill, Refuse, Finish, Save
<1> QED BY <1>1, <1>3 DEF JobPlaced, Changing

LEMMA WriteLands ==
  ASSUME RegistryInv, NEW p \in Procs, Write(p)
  PROVE  file' = mem[p] /\ pc[p] = "write"
<1>1. pc[p] = "write" /\ file = Empty
  BY DEF Write, RegistryInv, SerialInv
<1> QED BY <1>1 DEF Write, Landed

LEMMA MovedPlaced ==
  ASSUME Plain, RegistryInv, NEW p, Alone(p)
  PROVE  JobPlaced(p)' /\ file' # Corrupt
<1>1. /\ p \in Procs /\ pc \in [Procs -> Pcs] /\ job \in [Procs -> Jobs]
      /\ mem \in [Procs -> Config] /\ file \in Config
      /\ JobPlaced(p) /\ file # Corrupt /\ Load(file) = file
  BY StateFacts, LoadIsText DEF Alone, RegistryInv
<1>2. ASSUME NEW c, NEW r, Finish(p, c, r) PROVE JobPlaced(p)'
  <2>1. pc'[p] = "idle"
    BY <1>1, <1>2 DEF Finish
  <2> QED BY <2>1 DEF JobPlaced, Changing
<1>3. ASSUME NEW to \in {"started", "prompt"}, NEW c,
             pc' = [pc EXCEPT ![p] = to], job' = [job EXCEPT ![p] = c],
             c.op # "diag", to = "prompt" => c.op = "ls"
      PROVE  JobPlaced(p)'
  <2>1. pc'[p] = to /\ job'[p] = c
    BY <1>1, <1>3
  <2> QED BY <1>3, <2>1 DEF JobPlaced, Changing
<1>4. ASSUME NEW config, Save(p, config), ChangeOf(job[p], file, config)
      PROVE  JobPlaced(p)'
  <2>1. /\ pc'[p] = "save" /\ mem'[p] = config /\ job' = job /\ file' = file
    BY <1>1, <1>4 DEF Save
  <2>2. job[p].op \in {"add", "rm", "use", "activate"}
    BY <1>4 DEF ChangeOf
  <2> QED BY <1>4, <2>1, <2>2 DEF JobPlaced
<1>5. job = [job EXCEPT ![p] = job[p]]
  BY <1>1
<1>6. CASE \E c \in Commands : Invoke(p, c) \/ InvokeWithUri(p, c)
  <2>1. PICK c \in Commands : Invoke(p, c) \/ InvokeWithUri(p, c)
    BY <1>6
  <2>2. CASE c.op = "diag"
    BY <1>1, <1>2, <2>1, <2>2 DEF Invoke, InvokeWithUri
  <2>3. CASE c.op # "diag"
    BY <1>1, <1>3, <2>1, <2>3 DEF Invoke, InvokeWithUri, Enter
  <2> QED BY <1>1, <2>1, <2>2, <2>3 DEF Invoke, InvokeWithUri
<1>7. CASE RunCorrupt(p)
  BY <1>1, <1>7 DEF RunCorrupt
<1>8. CASE RunAdd(p)
  BY <1>1, <1>2, <1>4, <1>8 DEF RunAdd, Started, Refuse, Save, ChangeOf
<1>9. CASE RunRemove(p)
  BY <1>1, <1>2, <1>4, <1>9 DEF RunRemove, Started, Refuse, Save, ChangeOf
<1>10. CASE RunUse(p)
  BY <1>1, <1>2, <1>4, <1>10 DEF RunUse, Started, Refuse, Save, ChangeOf
<1>11. CASE RunList(p)
  BY <1>1, <1>2, <1>3, <1>5, <1>11 DEF RunList, Started
<1>12. CASE Cancel(p) \/ Kill(p)
  BY <1>1, <1>2, <1>12 DEF Cancel, Kill
<1>13. CASE \E i \in 1..MaxSources : Pick(p, i)
  BY <1>1, <1>2, <1>3, <1>13 DEF Pick, Command
<1>14. CASE Truncate(p)
  <2>1. pc'[p] = "write" /\ job' = job /\ file' # Corrupt
    BY <1>1, <1>14, CorruptAssumption, EmptyGood DEF Truncate, Good
  <2> QED BY <1>1, <1>14, <2>1 DEF Truncate, JobPlaced, Changing
<1>15. CASE Write(p)
  <2>1. file' = mem[p] /\ mem[p] \in Config
    BY <1>1, <1>15, WriteLands
  <2> QED BY <1>2, <1>15, <2>1, CorruptAssumption DEF Write
<1> QED BY <1>1, <1>6, <1>7, <1>8, <1>9, <1>10, <1>11, <1>12, <1>13, <1>14, <1>15
        DEF Alone, Step

LEMMA RegistryInvStep ==
  ASSUME Plain, RegistryInv, [SerialNext]_vars
  PROVE  RegistryInv'
<1>1. SerialInv'
  <2>1. CASE SerialNext
    BY <2>1, SerialStep, PlainInjective DEF SerialNext, RegistryInv
  <2>2. CASE UNCHANGED vars
    BY <2>2 DEF vars, RegistryInv, SerialInv, IInv, TypeOK, Changing, WellFormed,
       NamesOf, Unique
  <2> QED BY <2>1, <2>2
<1>2. CASE SerialNext
  <2>1. PICK p \in Procs : Alone(p)
    BY <1>2 DEF SerialNext, Alone
  <2> QED BY <1>1, <2>1, MovedPlaced, OthersPlaced DEF RegistryInv
<1>3. CASE UNCHANGED vars
  BY <1>1, <1>3 DEF vars, RegistryInv, JobPlaced, Changing
<1> QED BY <1>2, <1>3

LEMMA RegistryInvAlways == Plain => (SerialSpec => []RegistryInv)
<1> SUFFICES ASSUME Plain PROVE SerialSpec => []RegistryInv
  OBVIOUS
<1>1. SerialSpec => []SerialInv
  BY SerialInvariance, PlainInjective
<1>2. Init => file # Corrupt /\ \A p \in Procs : JobPlaced(p)
  BY EmptyGood, CorruptAssumption DEF Init, JobPlaced, Changing, Good
<1>3. Init /\ SerialInv => RegistryInv
  BY <1>2 DEF RegistryInv
<1>4. RegistryInv /\ [SerialNext]_vars => RegistryInv'
  BY RegistryInvStep
<1> QED BY <1>1, <1>3, <1>4, PTL DEF SerialSpec

-----------------------------------------------------------------------------
(* The mapping: what is visible of the file, in one serial step of p.        *)

Told(c, result) == [op |-> c.op, name |-> c.name, result |-> result]

LEMMA VisibleNow ==
  ASSUME Plain, RegistryInv, NEW p \in Procs, \A q \in Procs \ {p} : ~ Changing(q)
  PROVE  /\ Visible = IF pc[p] = "write" THEN mem[p] ELSE file
         /\ VisibleAnswer = IF pc[p] = "write" THEN Told(job[p], "ok") ELSE answer
         /\ VisibleDsn = DsnOf(Visible)
<1>1. Load(file) = file
  BY StateFacts, LoadIsText
<1>2. Writing = IF pc[p] = "write" THEN {p} ELSE {}
  BY DEF Writing, Changing
<1>3. pc[p] = "write" => (CHOOSE q \in Writing : TRUE) = p
  BY <1>2
<1> QED BY <1>1, <1>2, <1>3 DEF Visible, VisibleAnswer, VisibleDsn, DsnOf, Told

LEMMA VisibleNext ==
  ASSUME Plain, RegistryInv, RegistryInv', NEW p, Alone(p)
  PROVE  /\ Visible' = IF pc'[p] = "write" THEN mem'[p] ELSE file'
         /\ VisibleAnswer' = IF pc'[p] = "write" THEN Told(job'[p], "ok") ELSE answer'
         /\ VisibleDsn' = DsnOf(Visible')
<1>1. Load(file') = file'
  BY LoadIsText DEF RegistryInv, SerialInv, IInv, TypeOK
<1>2. pc \in [Procs -> Pcs] /\ p \in Procs
  BY StateFacts DEF Alone
<1>3. \A q \in Procs \ {p} : pc'[q] = pc[q] /\ pc[q] # "write"
  BY <1>2 DEF Alone, Step, Invoke, InvokeWithUri, Enter, RunCorrupt, RunAdd, RunRemove, RunUse, RunList,
     Cancel, Pick, Truncate, Write, Kill, Refuse, Finish, Save, Changing
<1>4. Writing' = IF pc'[p] = "write" THEN {p} ELSE {}
  BY <1>2, <1>3 DEF Writing
<1>5. pc'[p] = "write" => (CHOOSE q \in Writing' : TRUE) = p
  BY <1>4
<1> QED BY <1>1, <1>4, <1>5 DEF Load, Readable, Parsed, Visible, VisibleAnswer,
        VisibleDsn, DsnOf, NamesOf, Told

\* A process that starts, asks or goes on to save shows nothing yet.
LEMMA BusyMaps ==
  ASSUME Plain, RegistryInv, RegistryInv', NEW p, Alone(p),
         pc[p] # "write", pc'[p] # "write", UNCHANGED file, answer' = Silent
  PROVE  Registry!Busy
<1>1. Visible' = Visible /\ VisibleDsn' = VisibleDsn /\ VisibleAnswer' = None
  BY VisibleNow, VisibleNext DEF Alone, Silent
<1> QED BY <1>1 DEF Registry!Busy

\* A command that ends without a change shows its answer.
LEMMA EndMaps ==
  ASSUME Plain, RegistryInv, RegistryInv', NEW p, Alone(p), NEW c, NEW r,
         pc[p] # "write", Finish(p, c, r), UNCHANGED file
  PROVE  /\ Visible = file /\ VisibleDsn = DsnOf(file)
         /\ UNCHANGED <<VisibleDsn, Visible.active>>
         /\ VisibleAnswer' = Told(c, r)
<1>1. pc'[p] = "idle" /\ answer' = Told(c, r)
  BY StateFacts DEF Finish, Alone, Told
<1>2. Visible = file /\ Visible' = file
  BY <1>1, VisibleNow, VisibleNext DEF Alone
<1> QED BY <1>1, <1>2, VisibleNow, VisibleNext DEF Alone

LEMMA RefuseMaps ==
  ASSUME Plain, RegistryInv, RegistryInv', NEW p, Alone(p), pc[p] = "started",
         Refuse(p),
         \/ job[p].op = "add" /\ job[p].name \in NamesOf(file)
         \/ job[p].op \in {"rm", "use", "activate"} /\ job[p].name \notin NamesOf(file)
  PROVE  Registry!Next
<1>1. /\ VisibleDsn = DsnOf(file) /\ UNCHANGED <<VisibleDsn, Visible.active>>
      /\ VisibleAnswer' = Told(job[p], Refusal(job[p].op))
  BY EndMaps DEF Refuse
<1>2. job[p].name \in Names
  BY StateFacts, JobsType DEF Alone
<1>3. DOMAIN VisibleDsn = NamesOf(file)
  BY <1>1 DEF DsnOf
<1>4. Registry!Refuse(job[p].op, job[p].name)
  BY <1>1, <1>3 DEF Registry!Refuse, Registry!Answer, Registry!Registered, Told, Refusal
<1> QED BY <1>2, <1>4 DEF Registry!Next

LEMMA ResolveMaps ==
  ASSUME Plain, RegistryInv, RegistryInv', NEW p, Alone(p), NEW c \in Commands,
         Invoke(p, c), c.op = "diag"
  PROVE  Registry!Resolve
<1>1. pc[p] = "idle" /\ Finish(p, c, ActiveDsn(file)) /\ UNCHANGED file
  BY StateFacts, LoadIsText DEF Invoke, Alone
<1>2. /\ Visible = file /\ VisibleDsn = DsnOf(file)
      /\ UNCHANGED <<VisibleDsn, Visible.active>>
      /\ VisibleAnswer' = Told(c, ActiveDsn(file))
  BY <1>1, EndMaps
<1>3. c.name = None
  BY DEF Commands, Command, NoJob
<1>4. ActiveDsn(file) = IF file.active \in {None, Blank} THEN None
                        ELSE DsnOf(file)[file.active]
  BY StateFacts, ActiveDsnIs DEF Alone
<1> QED BY <1>2, <1>3, <1>4 DEF Registry!Resolve, Registry!Answer, Told

LEMMA ListMaps ==
  ASSUME Plain, RegistryInv, RegistryInv', NEW p, Alone(p), NEW c \in Jobs, NEW r,
         pc[p] # "write", Finish(p, c, r), UNCHANGED file,
         \/ c.op = "ls" /\ r \in {"ok", "error"}
         \/ c.op = "activate" /\ r = "already"
  PROVE  Registry!List
<1>1. UNCHANGED <<VisibleDsn, Visible.active>> /\ VisibleAnswer' = Told(c, r)
  BY EndMaps
<1>2. /\ c.op = "ls" => c.name = None
      /\ c.op = "activate" => c.name \in Names
  BY DEF Jobs, Commands, Command, NoJob
<1> QED BY <1>1, <1>2 DEF Registry!List, Registry!Answer, Told

\* Killed before it truncated the file, or after: nothing is changed, or all is gone.
LEMMA KillMaps ==
  ASSUME Plain, RegistryInv, RegistryInv', NEW p, Alone(p), Kill(p)
  PROVE  Registry!Killed
<1>1. /\ p \in Procs /\ JobPlaced(p) /\ job[p] \in Jobs
      /\ job[p].op \in {"add", "rm", "use", "ls", "activate"}
      /\ job[p].name \in Names \cup {None}
      /\ Finish(p, job[p], "killed") /\ UNCHANGED file
  BY StateFacts, JobsType DEF Kill, Alone, RegistryInv, JobPlaced, Ops
<1>2. CASE pc[p] # "write"
  <2>1. UNCHANGED <<VisibleDsn, Visible.active>> /\ VisibleAnswer' = Told(job[p], "killed")
    BY <1>1, <1>2, EndMaps
  <2> QED BY <1>1, <2>1 DEF Registry!Killed, Registry!Answer, Told
<1>3. CASE pc[p] = "write"
  <2>1. /\ job[p].op \in {"add", "rm", "use", "activate"} /\ job[p].name \in Names
        /\ file' = Empty
    BY <1>1, <1>3, JobsType DEF JobPlaced, Changing, RegistryInv, SerialInv
  <2>2. pc'[p] = "idle" /\ answer' = Told(job[p], "killed")
    BY <1>1, StateFacts DEF Finish, Told
  <2>3. /\ Visible' = Empty /\ VisibleDsn' = DsnOf(Empty)
        /\ VisibleAnswer' = Told(job[p], "killed")
    BY <2>1, <2>2, VisibleNext
  <2>4. DsnOf(Empty) = << >>
    BY DEF DsnOf, NamesOf, Empty
  <2> QED BY <2>1, <2>3, <2>4 DEF Registry!Killed, Registry!Answer, Told, Empty
<1> QED BY <1>2, <1>3

LEMMA AddMaps ==
  ASSUME Plain, RegistryInv, NEW p \in Procs, VisibleDsn = DsnOf(file), Visible = file,
         job[p].op = "add", job[p].name \notin NamesOf(file),
         VisibleDsn' = DsnOf(Added(file, job[p].name, job[p].dsn)),
         Visible' = Added(file, job[p].name, job[p].dsn),
         VisibleAnswer' = Told(job[p], "ok")
  PROVE  Registry!Next
<1> DEFINE n == job[p].name
           d == job[p].dsn
<1>1. /\ n \in Names \ NamesOf(file) /\ d \in Dsns
      /\ Good(file) /\ Unique(file)
  BY StateFacts, JobsType
<1>2. DOMAIN VisibleDsn = NamesOf(file)
  BY DEF DsnOf
<1>3. VisibleDsn' = Registering(VisibleDsn, n, d)
  BY <1>1, AddedDsn
<1>4. Visible.active' = IF Visible.active = None THEN n ELSE Visible.active
  BY DEF Added
<1>5. Registry!Add(n, d)
  BY <1>1, <1>2, <1>3, <1>4
  DEF Registering, Registry!Add, Registry!Answer, Registry!Registered, Told
<1> QED BY <1>1, <1>5 DEF Registry!Next

LEMMA RemoveMaps ==
  ASSUME Plain, RegistryInv, NEW p \in Procs, VisibleDsn = DsnOf(file), Visible = file,
         job[p].op = "rm", job[p].name \in NamesOf(file),
         VisibleDsn' = DsnOf(Removed(file, job[p].name)),
         Visible' = Removed(file, job[p].name),
         VisibleAnswer' = Told(job[p], "ok")
  PROVE  Registry!Next
<1> DEFINE n == job[p].name
           new == Removed(file, n)
<1>1. n \in Names /\ n \in NamesOf(file) /\ Good(file) /\ Unique(file)
  BY StateFacts, JobsType
<1>2. DOMAIN VisibleDsn = NamesOf(file)
  BY DEF DsnOf
<1>3. /\ VisibleDsn' = [m \in NamesOf(file) \ {n} |-> VisibleDsn[m]]
      /\ NamesOf(new) = NamesOf(file) \ {n}
  <2>1. /\ VisibleDsn' = [m \in NamesOf(file) \ {n} |-> DsnOf(file)[m]]
        /\ NamesOf(new) = NamesOf(file) \ {n}
    BY <1>1, RemovedDsn
  <2>2. \A m : DsnOf(file)[m] = VisibleDsn[m]
    OBVIOUS
  <2> QED BY <2>1, <2>2
<1>4. new.sources \in Seq(Source)
  BY <1>1, RemovedGood DEF Good, Config
<1>5. CASE file.active # n
  <2>1. Visible.active' = Visible.active
    BY <1>5 DEF Removed
  <2> QED BY <1>1, <1>2, <1>3, <1>5, <2>1
          DEF Registry!Next, Registry!Remove, Registry!Answer, Registry!Registered, Told
<1>6. CASE file.active = n /\ new.sources = << >>
  <2>1. Visible.active' = None
    BY <1>6 DEF Removed
  <2>2. NamesOf(file) = {n}
    <3>1. NamesOf(new) = {}
      BY <1>6 DEF NamesOf
    <3> QED BY <1>1, <1>3, <3>1
  <2> QED BY <1>1, <1>2, <1>3, <1>6, <2>1, <2>2
          DEF Registry!Next, Registry!Remove, Registry!Answer, Registry!Registered, Told
<1>7. CASE file.active = n /\ new.sources # << >>
  <2>1. Visible.active' = new.sources[1].name
    BY <1>7 DEF Removed
  <2>2. new.sources[1].name \in NamesOf(file) \ {n}
    <3>1. 1 \in DOMAIN new.sources
      BY <1>4, <1>7
    <3>2. new.sources[1].name \in NamesOf(new)
      BY <3>1 DEF NamesOf
    <3> QED BY <1>3, <3>2
  <2>3. NamesOf(file) # {n}
    BY <2>2
  <2>4. Registry!Remove(n)
    BY <1>1, <1>2, <1>3, <1>7, <2>1, <2>2, <2>3
    DEF Registry!Remove, Registry!Answer, Registry!Registered, Told
  <2> QED BY <1>1, <2>4 DEF Registry!Next
<1> QED BY <1>5, <1>6, <1>7

LEMMA UseMaps ==
  ASSUME Plain, RegistryInv, NEW p \in Procs, VisibleDsn = DsnOf(file), Visible = file,
         job[p].op \in {"use", "activate"}, job[p].name \in NamesOf(file),
         VisibleDsn' = DsnOf(Activated(file, job[p].name)),
         Visible' = Activated(file, job[p].name),
         VisibleAnswer' = Told(job[p], "ok")
  PROVE  Registry!Next
<1>1. job[p].name \in Names /\ Good(file)
  BY StateFacts, JobsType
<1>2. DOMAIN VisibleDsn = NamesOf(file)
  BY DEF DsnOf
<1>3. VisibleDsn' = VisibleDsn /\ Visible.active' = job[p].name
  BY <1>1, ActivatedDsn
<1>4. Registry!Use(job[p].name, job[p].op)
  BY <1>2, <1>3 DEF Registry!Use, Registry!Answer, Registry!Registered, Told
<1> QED BY <1>1, <1>4 DEF Registry!Next

\* The truncation is where the change is made.
LEMMA TruncateMaps ==
  ASSUME Plain, RegistryInv, RegistryInv', NEW p, Alone(p), Truncate(p)
  PROVE  Registry!Next
<1>1. p \in Procs /\ pc[p] = "save" /\ ChangeOf(job[p], file, mem[p])
  BY DEF Alone, Truncate, RegistryInv, JobPlaced
<1>2. pc'[p] = "write" /\ mem' = mem /\ job' = job
  BY <1>1, StateFacts DEF Truncate
<1>3. /\ Visible = file /\ VisibleDsn = DsnOf(file)
      /\ Visible' = mem[p] /\ VisibleDsn' = DsnOf(mem[p])
      /\ VisibleAnswer' = Told(job[p], "ok")
  BY <1>1, <1>2, VisibleNow, VisibleNext DEF Alone
<1> QED BY <1>1, <1>3, AddMaps, RemoveMaps, UseMaps DEF ChangeOf

\* The write shows nothing that the truncation did not.
LEMMA WriteMaps ==
  ASSUME Plain, RegistryInv, RegistryInv', NEW p, Alone(p), Write(p)
  PROVE  UNCHANGED Registry!vars
<1>1. p \in Procs /\ pc[p] = "write" /\ file' = mem[p]
  BY WriteLands DEF Alone
<1>2. pc'[p] = "idle" /\ answer' = Told(job[p], "ok")
  BY <1>1, StateFacts DEF Write, Finish, Told
<1>3. /\ Visible = mem[p] /\ Visible' = mem[p]
      /\ VisibleDsn' = VisibleDsn /\ VisibleAnswer' = VisibleAnswer
  BY <1>1, <1>2, VisibleNow, VisibleNext DEF Alone
<1> QED BY <1>3 DEF Registry!vars

LEMMA ChangeMaps ==
  ASSUME Plain, RegistryInv, RegistryInv', NEW p, Alone(p),
         RunAdd(p) \/ RunRemove(p) \/ RunUse(p)
  PROVE  Registry!Next
<1>1. p \in Procs /\ pc[p] = "started" /\ Load(file) = file
  BY StateFacts, LoadIsText DEF Alone, RunAdd, RunRemove, RunUse, Started
<1>2. ASSUME NEW config, Save(p, config) PROVE Registry!Next
  <2>1. pc'[p] = "save" /\ UNCHANGED file /\ answer' = Silent
    BY <1>1, <1>2, StateFacts DEF Save
  <2> QED BY <1>1, <2>1, BusyMaps DEF Registry!Next
<1>3. CASE RunAdd(p)
  BY <1>1, <1>2, <1>3, RefuseMaps DEF RunAdd, Started
<1>4. CASE RunRemove(p)
  BY <1>1, <1>2, <1>4, RefuseMaps DEF RunRemove, Started
<1>5. CASE RunUse(p)
  BY <1>1, <1>2, <1>5, RefuseMaps DEF RunUse, Started
<1> QED BY <1>3, <1>4, <1>5

LEMMA PromptMaps ==
  ASSUME Plain, RegistryInv, RegistryInv', NEW p, Alone(p),
         RunList(p) \/ Cancel(p) \/ \E i \in 1..MaxSources : Pick(p, i)
  PROVE  Registry!Next
<1>1. p \in Procs /\ JobPlaced(p) /\ job[p] \in Jobs /\ mem[p] \in Config
  BY StateFacts DEF Alone, RegistryInv
<1>2. pc[p] # "write" /\ job[p].op = "ls" /\ UNCHANGED file
  BY <1>1 DEF RunList, Cancel, Pick, Started, JobPlaced
<1>3. ASSUME NEW to \in {"started", "prompt"}, pc' = [pc EXCEPT ![p] = to],
             answer' = Silent
      PROVE  Registry!Next
  <2>1. pc'[p] # "write"
    BY <1>1, <1>3, StateFacts
  <2> QED BY <1>2, <1>3, <2>1, BusyMaps DEF Registry!Next
<1>4. CASE RunList(p)
  BY <1>1, <1>2, <1>3, <1>4, ListMaps DEF RunList, Registry!Next
<1>5. CASE Cancel(p)
  BY <1>1, <1>2, <1>5, ListMaps DEF Cancel, Registry!Next
<1>6. CASE \E i \in 1..MaxSources : Pick(p, i)
  <2>1. PICK i \in 1..MaxSources : Pick(p, i)
    BY <1>6
  <2> DEFINE chosen == Command("activate", mem[p].sources[i].name, None)
  <2>2. chosen \in Jobs /\ chosen.op = "activate"
    <3>1. mem[p].sources[i].name \in Names
      BY <1>1, <2>1, NamesOfType DEF NamesOf, Pick
    <3> QED BY <3>1 DEF Jobs, Command
  <2> HIDE DEF chosen
  <2>3. \/ Finish(p, chosen, "already")
        \/ pc' = [pc EXCEPT ![p] = "started"] /\ answer' = Silent
    BY <2>1 DEF Pick, chosen
  <2> QED BY <1>2, <1>3, <2>2, <2>3, ListMaps DEF Registry!Next
<1> QED BY <1>4, <1>5, <1>6

LEMMA InvokeMaps ==
  ASSUME Plain, RegistryInv, RegistryInv', NEW p, Alone(p), NEW c \in Commands,
         Invoke(p, c)
  PROVE  Registry!Next
<1>1. CASE c.op = "diag"
  BY <1>1, ResolveMaps DEF Registry!Next
<1>2. CASE c.op # "diag"
  <2>1. /\ pc[p] # "write" /\ pc' = [pc EXCEPT ![p] = "started"]
        /\ answer' = Silent /\ UNCHANGED file
    BY <1>2, StateFacts, LoadIsText DEF Invoke, Enter, Alone
  <2>2. pc'[p] = "started"
    BY <2>1, StateFacts DEF Alone
  <2> QED BY <2>1, <2>2, BusyMaps DEF Registry!Next
<1> QED BY <1>1, <1>2

LEMMA InvokeWithUriMaps ==
  ASSUME Plain, RegistryInv, RegistryInv', NEW p, Alone(p), NEW c \in Commands,
         InvokeWithUri(p, c)
  PROVE  Registry!Next
<1>1. CASE c.op = "diag"
  <2>1. pc[p] # "write" /\ Finish(p, c, "given") /\ UNCHANGED file
    BY <1>1 DEF InvokeWithUri
  <2>2. UNCHANGED <<VisibleDsn, Visible.active>> /\ VisibleAnswer' = Told(c, "given")
    BY <2>1, EndMaps
  <2>3. c.name = None
    BY <1>1 DEF Commands, Command, NoJob
  <2>4. Registry!Bypass
    BY <1>1, <2>2, <2>3 DEF Registry!Bypass, Registry!Answer, Told
  <2> QED BY <2>4 DEF Registry!Next
<1>2. CASE c.op # "diag"
  <2>1. /\ pc[p] # "write" /\ pc' = [pc EXCEPT ![p] = "started"]
        /\ answer' = Silent /\ UNCHANGED file
    BY <1>2 DEF InvokeWithUri, Enter
  <2>2. pc'[p] = "started"
    BY <2>1, StateFacts DEF Alone
  <2> QED BY <2>1, <2>2, BusyMaps DEF Registry!Next
<1> QED BY <1>1, <1>2

LEMMA RegistryStep ==
  ASSUME Plain, RegistryInv, RegistryInv', [SerialNext]_vars
  PROVE  [Registry!Next]_(Registry!vars)
<1>1. CASE SerialNext
  <2>1. PICK p \in Procs : Alone(p)
    BY <1>1 DEF SerialNext, Alone
  <2>2. ~ RunCorrupt(p)
    BY StateFacts, LoadIsText DEF RunCorrupt
  <2> QED BY <2>1, <2>2, InvokeMaps, InvokeWithUriMaps, ChangeMaps, PromptMaps,
             TruncateMaps, WriteMaps, KillMaps DEF Alone, Step, Registry!Next
<1>2. CASE UNCHANGED vars
  BY <1>2 DEF vars, Registry!vars, Visible, VisibleDsn, VisibleAnswer, Writing,
     NamesOf, Load, Readable, Parsed
<1> QED BY <1>1, <1>2

LEMMA RegistryInit == Init => Registry!Init
<1> SUFFICES ASSUME Init PROVE Registry!Init
  OBVIOUS
<1>1. Load(Empty) = Empty
  BY CorruptAssumption, EmptyGood DEF Load, Readable, Parsed, Empty, Good
<1>2. Writing = {}
  BY DEF Init, Writing
<1>3. Visible = Empty /\ VisibleAnswer = Silent
  BY <1>1, <1>2 DEF Init, Visible, VisibleAnswer
<1>4. VisibleDsn = << >>
  BY <1>3 DEF VisibleDsn, NamesOf, Empty
<1> QED BY <1>3, <1>4 DEF Registry!Init, Empty, Silent

\* For a user who waits for each change, the file is the registry: every
\* command takes effect as a whole or not at all, is refused exactly when it
\* should be, and a kill loses nothing but everything (SourceRegistry).
THEOREM RegistryImplemented == Plain => (SerialSpec => ImplementsRegistry)
<1> SUFFICES ASSUME Plain PROVE SerialSpec => Registry!Spec
  BY DEF ImplementsRegistry
<1>1. RegistryInv /\ RegistryInv' /\ [SerialNext]_vars => [Registry!Next]_(Registry!vars)
  BY RegistryStep
<1>2. SerialSpec => []RegistryInv
  BY RegistryInvAlways
<1> QED BY <1>1, <1>2, RegistryInit, PTL DEF SerialSpec, Registry!Spec
=============================================================================
