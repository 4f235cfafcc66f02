--------------------------- MODULE ScopeRun_proofs ---------------------------
(***************************************************************************)
(* For any number of runs, measurements, averages and channels and any     *)
(* clock: delays come from one complete acquisition and from the run's own *)
(* file, and files are kept, unless two are saved in the same second.      *)
(* Runs may then write into each other's file: the invariant says whose a  *)
(* block in a file may be, and that one run's blocks in it are all alike.  *)
(***************************************************************************)
EXTENDS ScopeRun, TLAPS

Scopes   == [mode : {"norm", "single"}, armed : BOOLEAN, sweeps : Nat]
Blocks   == [by : Runs, n : Nat, sweeps : Nat]
Contents == UNION {[D -> Blocks] : D \in SUBSET (1 .. Channels)}
Values   == [n : Nat, name : Int, from : Contents, delay : Int]
Saves    == [by : Runs, n : Nat, sec : Int]

ScopeTypes ==
  /\ sec \in Int
  /\ scope \in [Runs -> Scopes]
  /\ at \in [Runs -> Places]
  /\ n \in [Runs -> Nat]
  /\ polls \in [Runs -> Nat]
  /\ stamp \in [Runs -> Int]
  /\ data \in [Runs -> Seq(Nat)]
  /\ wrote \in [Runs -> Nat]
  /\ files \in [DOMAIN files -> Contents]
  /\ wf \in [Runs -> Contents]
  /\ values \in [Runs -> Seq(Values)]
  /\ saves \subseteq Saves

\* All channels show the same, and all its sweeps are in.
Whole(d) ==
  /\ d \in Seq(Nat) /\ Len(d) = Channels
  /\ \A i \in 1..Channels : d[i] = d[1]
  /\ d[1] >= NumAvg

\* While r is at "sweep" or "poll", polls sweeps have not been waited for.
Sweeping(r) ==
  at[r] \in {"sweep", "poll"} =>
    /\ scope[r].mode = "single"
    /\ polls[r] >= 1
    /\ data[r] = <<>>
    /\ scope[r].sweeps + polls[r] >= NumAvg
    /\ at[r] = "poll" /\ ~scope[r].armed => scope[r].sweeps + polls[r] > NumAvg

\* No trigger can come in between two channels.
Fetching(r) ==
  at[r] = "fetch" =>
    /\ ~scope[r].armed
    /\ scope[r].sweeps >= NumAvg
    /\ Len(data[r]) < Channels
    /\ \A i \in 1..Len(data[r]) :
         data[r][i] = scope[r].sweeps

Fetched(r) ==
  /\ at[r] \in {"open", "save"} => Whole(data[r])
  /\ at[r] = "save" => wrote[r] < Channels

\* The save r has begun, is at or has last made.
Mine(r) == [by |-> r, n |-> n[r], sec |-> stamp[r]]

Owned(r) ==
  at[r] \in {"save", "read", "evaluate"} => Mine(r) \in saves /\ stamp[r] \in DOMAIN files

\* Blocks c in the file of second f, when the saves are S: each is of a
\* complete acquisition and on record, and those of one run are alike.
Recorded(b, f, S) == b.sweeps >= NumAvg /\ [by |-> b.by, n |-> b.n, sec |-> f] \in S

Sound(c, f, S) ==
  /\ \A i \in DOMAIN c : Recorded(c[i], f, S)
  /\ \A i, j \in DOMAIN c : c[i].by = c[j].by => c[i] = c[j]

\* The blocks of r in c are of its measurement m.
Numbered(c, r, m) == \A i \in DOMAIN c : c[i].by = r => c[i].n = m

\* The blocks of r in c are all b.
Pure(c, r, b) == \A i \in DOMAIN c : c[i].by = r => c[i] = b

\* What a run finds in its file is its own, or another run's.
Found(r) ==
  /\ at[r] \in {"save", "read"} => Pure(files[stamp[r]], r, Block(r, 1))
  /\ at[r] = "evaluate" => Sound(wf[r], stamp[r], saves) /\ Numbered(wf[r], r, n[r])

FileSound(f) == Sound(files[f], f, saves)

\* The first k blocks of the save s are in the file c.
Stored(c, s, k) == \A i \in 1 .. k : i \in DOMAIN c /\ c[i].by = s.by /\ c[i].n = s.n

\* A file is there, as far as it has been written, unless another save had
\* its name.
SaveStands(s) ==
  /\ s.sec \in DOMAIN files
  /\ \/ at[s.by] = "save" /\ Mine(s.by) = s /\ Stored(files[s.sec], s, wrote[s.by])
     \/ Stored(files[s.sec], s, Channels)
     \/ \E t \in saves : t # s /\ t.sec = s.sec

\* A delay: from blocks found under its name.
ValueSound(r, v) ==
  /\ v.n < n[r]
  /\ [by |-> r, n |-> v.n, sec |-> v.name] \in saves
  /\ Sound(v.from, v.name, saves) /\ Numbered(v.from, r, v.n)

RunInv(r) ==
  /\ Sweeping(r) /\ Fetching(r) /\ Fetched(r) /\ Owned(r) /\ Found(r)
  /\ \A i \in DOMAIN values[r] : ValueSound(r, values[r][i])

FilesInv == (\A f \in DOMAIN files : FileSound(f)) /\ (\A s \in saves : SaveStands(s))

ScopeInv ==
  /\ ScopeTypes
  /\ \A r \in Runs : RunInv(r)
  /\ FilesInv

-----------------------------------------------------------------------------
(* What a step of one run leaves alone                                     *)

Still(r) ==
  /\ at'[r] = at[r] /\ scope'[r] = scope[r] /\ n'[r] = n[r] /\ polls'[r] = polls[r]
  /\ stamp'[r] = stamp[r] /\ data'[r] = data[r] /\ wrote'[r] = wrote[r] /\ wf'[r] = wf[r]
  /\ values'[r] = values[r]

Step(q) == Script(q) \/ Trigger(q) \/ LinkLost(q)

(* A step of a run of the script changes nothing of another run.           *)
LEMMA OthersStill ==
  ASSUME ScopeTypes, NEW q \in Runs, Step(q), NEW r \in Runs, r # q
  PROVE  Still(r)
<1>1. CASE Acquire(q)
  BY <1>1 DEF Acquire, Goto, ScopeTypes, Still
<1>2. CASE Arm(q)
  BY <1>2 DEF Arm, Goto, ScopeTypes, Still
<1>3. CASE Poll(q)
  BY <1>3 DEF Poll, ScopeTypes, Still
<1>4. CASE Fetch(q)
  BY <1>4 DEF Fetch, ScopeTypes, Still
<1>5. CASE Open(q)
  BY <1>5 DEF Open, Goto, ScopeTypes, Still
<1>6. CASE Save(q)
  BY <1>6 DEF Save, ScopeTypes, Still
<1>7. CASE Read(q)
  BY <1>7 DEF Read, ScopeTypes, Still
<1>8. CASE Evaluate(q)
  BY <1>8 DEF Evaluate, ScopeTypes, Still
<1>9. CASE Report(q)
  BY <1>9 DEF Report, Goto, ScopeTypes, Still
<1>10. CASE Trigger(q)
  BY <1>10 DEF Trigger, ScopeTypes, Still
<1>11. CASE LinkLost(q)
  BY <1>11 DEF LinkLost, ScopeTypes, Still
<1>12. QED
  BY <1>1, <1>2, <1>3, <1>4, <1>5, <1>6, <1>7, <1>8, <1>9, <1>10, <1>11 DEF Step, Script

\* What others write to the file c of r, which becomes e.
Adds(c, e, r) ==
  \A i \in DOMAIN e : e[i].by = r => i \in DOMAIN c /\ e[i] = c[i]

(* A file that nobody writes to.                                           *)
LEMMA SameAdds == ASSUME NEW c, NEW r PROVE Adds(c, c, r)
BY DEF Adds

(* More saves on record take nothing from what is known of a file.         *)
LEMMA SoundGrows ==
  ASSUME NEW c, NEW f, NEW S, NEW T, S \subseteq T, Sound(c, f, S)
  PROVE  Sound(c, f, T)
BY DEF Sound, Recorded

(* A delay stays accounted for while its run goes on and others save.      *)
LEMMA ValueKept ==
  ASSUME NEW r \in Runs, NEW i, values'[r] = values[r], n'[r] = n[r],
         saves \subseteq saves', ValueSound(r, values[r][i])
  PROVE  ValueSound(r, values[r][i])'
<1> DEFINE v == values[r][i]
<1>1. /\ v.n < n[r] /\ [by |-> r, n |-> v.n, sec |-> v.name] \in saves
      /\ Sound(v.from, v.name, saves) /\ Numbered(v.from, r, v.n)
  BY DEF ValueSound
<1>2. values'[r][i] = v
  OBVIOUS
<1> HIDE DEF v
<1>3. Sound(v.from, v.name, saves')
  BY <1>1, SoundGrows
<1> QED BY <1>1, <1>2, <1>3 DEF ValueSound

(* A run that makes no step keeps its invariant when files are added or    *)
(* others write into its file.                                             *)
LEMMA StillKeeps ==
  ASSUME NEW r \in Runs, RunInv(r), Still(r),
         saves \subseteq saves', DOMAIN files \subseteq DOMAIN files',
         at[r] \in {"save", "read"} => Adds(files[stamp[r]], files'[stamp[r]], r)
  PROVE  RunInv(r)'
<1>1. Sweeping(r)' /\ Fetching(r)' /\ Fetched(r)'
  BY DEF RunInv, Still, Sweeping, Fetching, Fetched, Whole
<1>2. Owned(r)'
  BY DEF RunInv, Still, Owned, Mine
<1>3. Found(r)'
  <2>1. at'[r] \in {"save", "read"} => Pure(files'[stamp'[r]], r, Block(r, 1)')
    BY DEF RunInv, Still, Found, Adds, Pure, Block
  <2>2. at'[r] = "evaluate" => Sound(wf'[r], stamp'[r], saves')
    BY SoundGrows DEF RunInv, Still, Found
  <2>3. at'[r] = "evaluate" => Numbered(wf'[r], r, n'[r])
    BY DEF RunInv, Still, Found
  <2> QED BY <2>1, <2>2, <2>3 DEF Found
<1>4. ASSUME NEW i \in DOMAIN values'[r] PROVE ValueSound(r, values[r][i])'
  <2>1. values'[r] = values[r] /\ n'[r] = n[r] /\ ValueSound(r, values[r][i])
    BY DEF RunInv, Still
  <2> QED BY <2>1, ValueKept
<1>5. QED
  BY <1>1, <1>2, <1>3, <1>4 DEF RunInv

(* A step that touches no file and no save that is under way keeps what is *)
(* known of the files.                                                     *)
LEMMA FilesKeep ==
  ASSUME ScopeTypes, FilesInv, UNCHANGED <<files, saves>>,
         \A q \in Runs : at[q] = "save" => Still(q)
  PROVE  FilesInv'
<1>1. \A f \in DOMAIN files : FileSound(f)'
  BY DEF FilesInv, FileSound
<1>2. ASSUME NEW s \in saves PROVE SaveStands(s)'
  <2>1. s.by \in Runs
    BY DEF ScopeTypes, Saves
  <2>2. QED
    BY <2>1 DEF FilesInv, SaveStands, Still, Mine
<1>3. QED
  BY <1>1, <1>2 DEF FilesInv

-----------------------------------------------------------------------------
(* One step                                                                *)

(* A file that has just been opened for writing.                           *)
LEMMA EmptyTyped == Empty \in Contents
<1>1. {} \in SUBSET (1 .. Channels) /\ Empty \in [{} -> Blocks]
  BY DEF Empty
<1> QED BY <1>1 DEF Contents

(* A file with one block more, or with one written over.                   *)
LEMMA ContentGrows ==
  ASSUME NEW c \in Contents, NEW k \in 1 .. Channels, NEW b \in Blocks
  PROVE  [i \in DOMAIN c \cup {k} |-> IF i = k THEN b ELSE c[i]] \in Contents
<1>1. PICK D \in SUBSET (1 .. Channels) : c \in [D -> Blocks]
  BY DEF Contents
<1> DEFINE e == [i \in DOMAIN c \cup {k} |-> IF i = k THEN b ELSE c[i]]
<1>2. e \in [D \cup {k} -> Blocks] /\ D \cup {k} \in SUBSET (1 .. Channels)
  BY <1>1
<1> HIDE DEF e
<1>3. e \in Contents
  BY <1>2 DEF Contents
<1> QED BY <1>3 DEF e

(* Every step keeps the types.                                             *)
LEMMA TypesKept ==
  ASSUME ScopeTypes, NEW q \in Runs, RunInv(q), Step(q)
  PROVE  ScopeTypes'
<1>1. CASE Acquire(q)
  <2>1. polls' \in [Runs -> Nat] /\ data' \in [Runs -> Seq(Nat)]
    BY <1>1, ScopeAssumption DEF Acquire, ScopeTypes
  <2>2. at' \in [Runs -> Places]
    BY <1>1 DEF Acquire, Goto, ScopeTypes, Places
  <2>3. scope' \in [Runs -> Scopes]
    <3> DEFINE g == [scope[q] EXCEPT !.mode = "single", !.armed = TRUE, !.sweeps = 0]
    <3>1. g \in Scopes
      BY DEF ScopeTypes, Scopes
    <3>2. scope' = [scope EXCEPT ![q] = g]
      BY <1>1 DEF Acquire, StartMode, ScopeTypes
    <3> HIDE DEF g
    <3>3. QED
      BY <3>1, <3>2 DEF ScopeTypes
  <2>4. QED
    BY <1>1, <2>1, <2>2, <2>3 DEF Acquire, ScopeTypes
<1>2. CASE Arm(q)
  <2>1. at' \in [Runs -> Places]
    BY <1>2 DEF Arm, Goto, ScopeTypes, Places
  <2>2. scope' \in [Runs -> Scopes]
    BY <1>2 DEF Arm, ScopeTypes, Scopes
  <2>3. QED
    BY <1>2, <2>1, <2>2 DEF Arm, ScopeTypes
<1>3. CASE Poll(q)
  <2>1. at' \in [Runs -> Places]
    BY <1>3 DEF Poll, ScopeTypes, Places
  <2>2. polls[q] >= 1
    BY <1>3 DEF Poll, RunInv, Sweeping
  <2>3. polls' \in [Runs -> Nat]
    BY <1>3, <2>2 DEF Poll, ScopeTypes
  <2>4. stamp' \in [Runs -> Int]
    BY <1>3 DEF Poll, ScopeTypes
  <2>5. QED
    BY <1>3, <2>1, <2>3, <2>4 DEF Poll, ScopeTypes
<1>4. CASE Fetch(q)
  <2>1. at' \in [Runs -> Places]
    BY <1>4 DEF Fetch, ScopeTypes, Places
  <2>2. scope[q].sweeps \in Nat
    BY DEF ScopeTypes, Scopes
  <2>3. data' \in [Runs -> Seq(Nat)]
    BY <1>4, <2>2 DEF Fetch, ScopeTypes
  <2>4. QED
    BY <1>4, <2>1, <2>3 DEF Fetch, ScopeTypes
<1>5. CASE Open(q)
  <2>1. at' \in [Runs -> Places]
    BY <1>5 DEF Open, Goto, ScopeTypes, Places
  <2>2. files' \in [DOMAIN files' -> Contents]
    <3>1. Empty \in Contents
      BY EmptyTyped
    <3> QED BY <1>5, <3>1 DEF Open, Put, ScopeTypes
  <2>3. saves' \subseteq Saves
    BY <1>5 DEF Open, ScopeTypes, Saves
  <2>4. wrote' \in [Runs -> Nat]
    BY <1>5 DEF Open, ScopeTypes
  <2>5. QED
    BY <1>5, <2>1, <2>2, <2>3, <2>4 DEF Open, ScopeTypes
<1>6. CASE Save(q)
  <2>1. at' \in [Runs -> Places]
    BY <1>6 DEF Save, ScopeTypes, Places
  <2>2. wrote' \in [Runs -> Nat]
    BY <1>6 DEF Save, ScopeTypes
  <2> DEFINE k == wrote[q] + 1
             old == files[stamp[q]]
             new == [i \in DOMAIN old \cup {k} |-> IF i = k THEN Block(q, k) ELSE old[i]]
  <2>3. old \in Contents /\ k \in 1 .. Channels
    BY <1>6, ScopeAssumption DEF Save, RunInv, Owned, Fetched, ScopeTypes
  <2>4. Block(q, k) \in Blocks
    <3>1. Whole(data[q])
      BY <1>6 DEF Save, RunInv, Fetched
    <3>2. data[q][k] \in Nat
      BY <2>3, <3>1, ScopeAssumption DEF Whole
    <3> QED BY <3>2 DEF Block, Blocks, ScopeTypes
  <2>5. files' = [f \in DOMAIN files \cup {stamp[q]} |-> IF f = stamp[q] THEN new ELSE files[f]]
    BY <1>6 DEF Save, Put, FileName
  <2>6. new \in Contents
    <3> HIDE DEF old, k
    <3> QED BY <2>3, <2>4, ContentGrows
  <2> HIDE DEF new
  <2>7. files' \in [DOMAIN files' -> Contents]
    BY <2>5, <2>6 DEF ScopeTypes
  <2> QED BY <1>6, <2>1, <2>2, <2>7 DEF Save, ScopeTypes
<1>7. CASE Read(q)
  <2>1. at' \in [Runs -> Places]
    BY <1>7 DEF Read, ScopeTypes, Places
  <2>2. files[stamp[q]] \in Contents
    BY <1>7 DEF Read, RunInv, Owned, ScopeTypes
  <2>3. wf' \in [Runs -> Contents]
    BY <1>7, <2>2 DEF Read, FileName, ScopeTypes
  <2>4. QED
    BY <1>7, <2>1, <2>3 DEF Read, ScopeTypes
<1>8. CASE Evaluate(q)
  <2>1. at' \in [Runs -> Places]
    BY <1>8 DEF Evaluate, ScopeTypes, Places
  <2>2. PICK d \in Delays :
          /\ values' = IF Outlier(d) THEN values
                       ELSE [values EXCEPT ![q] = Append(@, [n |-> n[q], name |-> FileName(q),
                                                             from |-> wf[q], delay |-> d])]
          /\ n' = [n EXCEPT ![q] = Following(q, d)]
    BY <1>8 DEF Evaluate
  <2>3. [n |-> n[q], name |-> FileName(q), from |-> wf[q], delay |-> d] \in Values
    BY ScopeAssumption DEF ScopeTypes, Values, FileName
  <2>4. values' \in [Runs -> Seq(Values)]
    BY <2>2, <2>3 DEF ScopeTypes
  <2>5. n' \in [Runs -> Nat]
    BY <2>2 DEF ScopeTypes, Following
  <2>6. QED
    BY <1>8, <2>1, <2>4, <2>5 DEF Evaluate, ScopeTypes
<1>9. CASE Report(q)
  <2>1. at' \in [Runs -> Places]
    BY <1>9 DEF Report, Goto, ScopeTypes, Places
  <2>2. QED
    BY <1>9, <2>1 DEF Report, ScopeTypes
<1>10. CASE Trigger(q)
  <2>1. scope' \in [Runs -> Scopes]
    <3> DEFINE c == scope[q].sweeps + 1
    <3>1. c \in Nat
      BY DEF ScopeTypes, Scopes
    <3>2. scope' = [scope EXCEPT ![q].sweeps = c,
                                 ![q].armed = (scope[q].mode = "norm")]
      BY <1>10 DEF Trigger
    <3> HIDE DEF c
    <3>3. CASE scope[q].mode = "norm"
      <4>1. scope' = [scope EXCEPT ![q].sweeps = c, ![q].armed = TRUE]
        BY <3>2, <3>3, Zenon
      <4> DEFINE g == [scope[q] EXCEPT !.sweeps = c, !.armed = TRUE]
      <4>4. g \in Scopes
        BY <3>1 DEF ScopeTypes, Scopes
      <4>5. scope' = [scope EXCEPT ![q] = g]
        BY <4>1 DEF ScopeTypes
      <4> HIDE DEF g
      <4>6. QED
        BY <4>4, <4>5 DEF ScopeTypes
    <3>4. CASE scope[q].mode # "norm"
      <4>1. (scope[q].mode = "norm") = FALSE
        BY <3>4
      <4>2. scope' = [scope EXCEPT ![q].sweeps = c, ![q].armed = FALSE]
        BY <3>2, <4>1, Zenon
      <4> DEFINE g == [scope[q] EXCEPT !.sweeps = c, !.armed = FALSE]
      <4>4. g \in Scopes
        BY <3>1 DEF ScopeTypes, Scopes
      <4>5. scope' = [scope EXCEPT ![q] = g]
        BY <4>2 DEF ScopeTypes
      <4> HIDE DEF g
      <4>6. QED
        BY <4>4, <4>5 DEF ScopeTypes
    <3>5. QED
      BY <3>3, <3>4
  <2>2. QED
    BY <1>10, <2>1 DEF Trigger, ScopeTypes
<1>11. CASE LinkLost(q)
  <2>1. at' \in [Runs -> Places]
    BY <1>11 DEF LinkLost, ScopeTypes, Places
  <2>2. QED
    BY <1>11, <2>1 DEF LinkLost, ScopeTypes
<1>12. QED
  BY <1>1, <1>2, <1>3, <1>4, <1>5, <1>6, <1>7, <1>8, <1>9, <1>10, <1>11 DEF Step, Script

(* The steps that write no file: a run keeps its own invariant.            *)
LEMMA OwnStep ==
  ASSUME ScopeTypes, NEW q \in Runs, RunInv(q), FilesInv, Step(q), ~Open(q), ~Save(q)
  PROVE  RunInv(q)' /\ UNCHANGED <<files, saves>> /\ at[q] # "save"
<1>v. ASSUME UNCHANGED <<values, saves>>, n'[q] = n[q]
      PROVE  \A i \in DOMAIN values'[q] : ValueSound(q, values[q][i])'
  BY <1>v, ValueKept DEF RunInv
<1>1. CASE Acquire(q)
  <2>1. at'[q] = "sweep" /\ scope'[q].mode = "single" /\ scope'[q].sweeps = 0
        /\ polls'[q] = NumAvg /\ data'[q] = <<>>
    BY <1>1 DEF Acquire, Goto, StartMode, ScopeTypes
  <2>2. Sweeping(q)' /\ Fetching(q)' /\ Fetched(q)' /\ Owned(q)' /\ Found(q)'
    BY <2>1, ScopeAssumption DEF Sweeping, Fetching, Fetched, Owned, Found
  <2>3. QED
    BY <1>1, <1>v, <2>2 DEF Acquire, Goto, RunInv
<1>2. CASE Arm(q)
  <2>1. /\ at[q] = "sweep" /\ at'[q] = "poll" /\ scope'[q].armed
        /\ scope'[q].mode = scope[q].mode /\ scope'[q].sweeps = scope[q].sweeps
        /\ polls'[q] = polls[q] /\ data'[q] = data[q]
    BY <1>2 DEF Arm, Goto, ScopeTypes
  <2>2. Sweeping(q)' /\ Fetching(q)' /\ Fetched(q)' /\ Owned(q)' /\ Found(q)'
    BY <2>1 DEF RunInv, Sweeping, Fetching, Fetched, Owned, Found
  <2>3. QED
    BY <1>2, <1>v, <2>1, <2>2 DEF Arm, RunInv
<1>3. CASE Poll(q)
  <2>1. /\ at[q] = "poll" /\ at'[q] = (IF polls[q] = 1 THEN "fetch" ELSE "sweep")
        /\ polls'[q] = polls[q] - 1 /\ data'[q] = data[q] /\ scope'[q] = scope[q]
        /\ ~scope[q].armed /\ data[q] = <<>>
    BY <1>3 DEF Poll, Complete, ScopeTypes, RunInv, Sweeping
  <2>2. polls[q] \in Nat /\ scope[q].sweeps \in Nat
    BY DEF ScopeTypes, Scopes
  <2>3. Sweeping(q)'
    BY <2>1, <2>2, ScopeAssumption DEF RunInv, Sweeping
  <2>4. Fetching(q)'
    BY <2>1, <2>2, ScopeAssumption DEF RunInv, Sweeping, Fetching
  <2>5. Fetched(q)' /\ Owned(q)' /\ Found(q)'
    BY <2>1 DEF Fetched, Owned, Found
  <2>6. QED
    BY <1>3, <1>v, <2>1, <2>3, <2>4, <2>5 DEF Poll, RunInv
<1>4. CASE Fetch(q)
  <2> DEFINE e == scope[q].sweeps
  <2>1. /\ at[q] = "fetch" /\ data'[q] = Append(data[q], e) /\ scope'[q] = scope[q]
        /\ at'[q] = (IF Len(data'[q]) = Channels THEN "open" ELSE "fetch")
    BY <1>4 DEF Fetch, ScopeTypes
  <2>2. data[q] \in Seq(Nat) /\ e \in Nat
    BY DEF ScopeTypes, Scopes
  <2>3. /\ Len(data[q]) < Channels /\ ~scope[q].armed /\ scope[q].sweeps >= NumAvg
        /\ \A i \in 1..Len(data[q]) : data[q][i] = e
    BY <2>1 DEF RunInv, Fetching
  <2> HIDE DEF e
  <2>4. /\ data'[q] \in Seq(Nat) /\ Len(data'[q]) = Len(data[q]) + 1
        /\ \A i \in 1..Len(data'[q]) : data'[q][i] = e
    BY <2>1, <2>2, <2>3
  <2>5. Fetching(q)'
    BY <2>1, <2>2, <2>3, <2>4, ScopeAssumption DEF Fetching, e
  <2>6. Fetched(q)'
    <3>1. CASE Len(data'[q]) = Channels
      <4>1. data'[q][1] = e /\ e >= NumAvg
        BY <2>3, <2>4, <3>1, ScopeAssumption DEF e
      <4>2. Whole(data'[q])
        BY <2>4, <3>1, <4>1 DEF Whole
      <4>3. Whole(data[q])'
        BY <4>2 DEF Whole
      <4>4. QED
        BY <2>1, <3>1, <4>3 DEF Fetched
    <3>2. CASE Len(data'[q]) # Channels
      BY <2>1, <3>2 DEF Fetched
    <3>3. QED
      BY <3>1, <3>2
  <2>7. Sweeping(q)' /\ Owned(q)' /\ Found(q)'
    BY <2>1 DEF Sweeping, Owned, Found
  <2>8. QED
    BY <1>4, <1>v, <2>1, <2>5, <2>6, <2>7 DEF Fetch, RunInv
<1>5. CASE Read(q)
  <2>1. /\ at[q] = "read" /\ wf'[q] = files[stamp[q]] /\ n'[q] = n[q] /\ stamp'[q] = stamp[q]
        /\ at'[q] \in {"failed", "evaluate"}
        /\ files' = files /\ saves' = saves
    BY <1>5 DEF Read, FileName, ScopeTypes
  <2>2. stamp[q] \in DOMAIN files /\ Mine(q) \in saves
    BY <2>1 DEF RunInv, Owned
  <2>3. FileSound(stamp[q])
    BY <2>2 DEF FilesInv
  <2>4. Found(q)'
    <3>1. Sound(wf'[q], stamp'[q], saves')
      BY <2>1, <2>3 DEF FileSound
    <3>2. Numbered(wf'[q], q, n'[q])
      BY <2>1 DEF RunInv, Found, Pure, Numbered, Block
    <3> QED BY <2>1, <3>1, <3>2 DEF Found
  <2>5. Owned(q)'
    BY <2>1, <2>2 DEF Owned, Mine
  <2>6. Sweeping(q)' /\ Fetching(q)' /\ Fetched(q)'
    BY <2>1 DEF Sweeping, Fetching, Fetched
  <2>7. QED
    BY <1>5, <1>v, <2>1, <2>4, <2>5, <2>6 DEF Read, RunInv
<1>6. CASE Evaluate(q)
  <2>1. PICK d \in Delays :
          /\ values' = IF Outlier(d) THEN values
                       ELSE [values EXCEPT ![q] = Append(@, [n |-> n[q], name |-> FileName(q),
                                                             from |-> wf[q], delay |-> d])]
          /\ n' = [n EXCEPT ![q] = Following(q, d)]
    BY <1>6 DEF Evaluate
  <2> DEFINE v == [n |-> n[q], name |-> stamp[q], from |-> wf[q], delay |-> d]
  <2>2. /\ at[q] = "evaluate" /\ at'[q] \in {"report", "acquire"}
        /\ n'[q] = n[q] + 1 /\ n[q] \in Nat
        /\ values'[q] = values[q] \/ values'[q] = Append(values[q], v)
        /\ files' = files /\ saves' = saves
    BY <1>6, <2>1 DEF Evaluate, Following, FileName, ScopeTypes
  <2>3. Sweeping(q)' /\ Fetching(q)' /\ Fetched(q)' /\ Owned(q)' /\ Found(q)'
    BY <2>2 DEF Sweeping, Fetching, Fetched, Owned, Found
  <2>4. /\ v.n = n[q] /\ [by |-> q, n |-> v.n, sec |-> v.name] \in saves
        /\ Sound(v.from, v.name, saves) /\ Numbered(v.from, q, v.n)
    BY <2>2 DEF RunInv, Owned, Mine, Found
  <2>5. values[q] \in Seq(Values) /\ v \in Values
    BY ScopeAssumption DEF ScopeTypes, Values
  <2> HIDE DEF v
  <2>6. \A i \in DOMAIN values'[q] :
          (i \in DOMAIN values[q] /\ values'[q][i] = values[q][i]) \/ values'[q][i] = v
    BY <2>2, <2>5
  <2>7. ASSUME NEW i \in DOMAIN values'[q] PROVE ValueSound(q, values[q][i])'
    <3>1. CASE i \in DOMAIN values[q] /\ values'[q][i] = values[q][i]
      <4>1. ValueSound(q, values[q][i])
        BY <3>1 DEF RunInv
      <4>2. values[q][i] \in Values
        BY <2>5, <3>1
      <4>3. values[q][i].n \in Nat
        BY <4>2 DEF Values
      <4>4. values[q][i].n < n'[q]
        BY <2>2, <4>1, <4>3 DEF ValueSound
      <4> DEFINE u == values[q][i]
      <4>5. /\ [by |-> q, n |-> u.n, sec |-> u.name] \in saves
            /\ Sound(u.from, u.name, saves) /\ Numbered(u.from, q, u.n)
        BY <4>1, Zenon DEF ValueSound
      <4>6. values'[q][i] = u /\ u.n < n'[q] /\ saves' = saves
        BY <2>2, <3>1, <4>4
      <4> HIDE DEF u
      <4>7. QED
        BY <4>5, <4>6, Zenon DEF ValueSound
    <3>2. CASE values'[q][i] = v
      BY <2>2, <2>4, <3>2 DEF ValueSound
    <3>3. QED
      BY <2>6, <3>1, <3>2
  <2>8. QED
    BY <2>2, <2>3, <2>7 DEF RunInv
<1>7. CASE Report(q)
  <2>1. at[q] = "report" /\ at'[q] = "done"
    BY <1>7 DEF Report, Goto, ScopeTypes
  <2>2. Sweeping(q)' /\ Fetching(q)' /\ Fetched(q)' /\ Owned(q)' /\ Found(q)'
    BY <2>1 DEF Sweeping, Fetching, Fetched, Owned, Found
  <2>3. QED
    BY <1>7, <1>v, <2>1, <2>2 DEF Report, RunInv
<1>8. CASE Trigger(q)
  <2>1. /\ at[q] \in {"sweep", "poll", "fetch"} /\ at'[q] = at[q] /\ scope[q].armed
        /\ scope'[q].mode = scope[q].mode /\ scope'[q].sweeps = scope[q].sweeps + 1
        /\ polls'[q] = polls[q] /\ data'[q] = data[q]
        /\ scope[q].sweeps \in Nat /\ polls[q] \in Nat
    BY <1>8 DEF Trigger, ScopeTypes, Scopes
  <2>2. at[q] # "fetch"
    BY <2>1 DEF RunInv, Fetching
  <2>3. Sweeping(q)'
    BY <2>1, <2>2, ScopeAssumption DEF RunInv, Sweeping
  <2>4. Fetching(q)' /\ Fetched(q)' /\ Owned(q)' /\ Found(q)'
    BY <2>1, <2>2 DEF Fetching, Fetched, Owned, Found
  <2>5. QED
    BY <1>8, <1>v, <2>1, <2>3, <2>4 DEF Trigger, RunInv
<1>9. CASE LinkLost(q)
  <2>1. at[q] # "save" /\ at'[q] = "failed"
    BY <1>9 DEF LinkLost, ScopeTypes
  <2>2. Sweeping(q)' /\ Fetching(q)' /\ Fetched(q)' /\ Owned(q)' /\ Found(q)'
    BY <2>1 DEF Sweeping, Fetching, Fetched, Owned, Found
  <2>3. QED
    BY <1>9, <1>v, <2>1, <2>2 DEF LinkLost, RunInv
<1>10. QED
  BY <1>1, <1>2, <1>3, <1>4, <1>5, <1>6, <1>7, <1>8, <1>9 DEF Step, Script

(* Opening: the file is emptied, and a save of this run is on record.      *)
LEMMA OpenStep ==
  ASSUME ScopeInv, NEW q \in Runs, Open(q)
  PROVE  (\A r \in Runs : RunInv(r)') /\ FilesInv'
<1>1. ScopeTypes /\ RunInv(q) /\ FilesInv
  BY DEF ScopeInv
<1>2. /\ at[q] = "open" /\ at'[q] = "save" /\ n' = n /\ stamp' = stamp
      /\ DOMAIN files' = DOMAIN files \cup {stamp[q]}
      /\ files'[stamp[q]] = Empty /\ DOMAIN Empty = {} /\ wrote'[q] = 0
      /\ \A f \in DOMAIN files : f # stamp[q] => files'[f] = files[f]
      /\ saves' = saves \cup {Mine(q)}
  BY <1>1 DEF Open, Goto, Put, FileName, Mine, Empty, ScopeTypes
<1>3. \A r \in Runs : r # q => Still(r)
  BY <1>1, OthersStill DEF Step, Script
<1>4. ASSUME NEW r \in Runs, r # q PROVE RunInv(r)'
  <2>1. Still(r) /\ RunInv(r)
    BY <1>3, <1>4 DEF ScopeInv
  <2>2. at[r] \in {"save", "read"} => Adds(files[stamp[r]], files'[stamp[r]], r)
    <3>1. at[r] \in {"save", "read"} =>
            files'[stamp[r]] = files[stamp[r]] \/ files'[stamp[r]] = Empty
      BY <1>2, <2>1 DEF RunInv, Owned
    <3> QED BY <1>2, <3>1 DEF Adds
  <2>3. QED
    BY <1>2, <2>1, <2>2, StillKeeps
<1>5. RunInv(q)'
  <2>1. Sweeping(q)' /\ Fetching(q)' /\ Found(q)'
    BY <1>2 DEF Sweeping, Fetching, Found, Pure
  <2>2. Fetched(q)'
    BY <1>1, <1>2, ScopeAssumption DEF Open, RunInv, Fetched, Whole
  <2>3. Owned(q)'
    BY <1>2 DEF Owned, Mine
  <2>4. \A i \in DOMAIN values'[q] : ValueSound(q, values[q][i])'
    <3>1. values' = values /\ n' = n /\ saves \subseteq saves'
      BY <1>2 DEF Open
    <3> QED BY <1>1, <3>1, ValueKept DEF RunInv
  <2>5. QED
    BY <2>1, <2>2, <2>3, <2>4 DEF RunInv
<1>6. ASSUME NEW f \in DOMAIN files' PROVE FileSound(f)'
  <2>1. CASE f = stamp[q]
    BY <1>2, <2>1 DEF FileSound, Sound
  <2>2. CASE f # stamp[q]
    <3>1. f \in DOMAIN files /\ files'[f] = files[f] /\ saves \subseteq saves'
      BY <1>2, <2>2
    <3>2. Sound(files[f], f, saves)
      BY <1>1, <3>1 DEF FilesInv, FileSound
    <3>3. QED
      BY <3>1, <3>2, SoundGrows DEF FileSound
  <2>3. QED
    BY <2>1, <2>2
<1>7. ASSUME NEW s \in saves' PROVE SaveStands(s)'
  <2>1. CASE s = Mine(q)
    <3>1. s.by = q /\ s.sec = stamp[q] /\ s = Mine(q)'
      BY <1>2, <2>1 DEF Mine
    <3>2. QED
      BY <1>2, <3>1 DEF SaveStands, Stored
  <2>2. CASE s # Mine(q)
    <3>1. s \in saves /\ s.by \in Runs /\ SaveStands(s)
      BY <1>1, <1>2, <2>2 DEF FilesInv, ScopeTypes, Saves
    <3>2. CASE s.sec = stamp[q]
      <4>1. Mine(q) \in saves' /\ Mine(q) # s /\ Mine(q).sec = s.sec
        BY <1>2, <2>2, <3>2 DEF Mine
      <4>2. QED
        BY <1>2, <3>2, <4>1 DEF SaveStands
    <3>3. CASE s.sec # stamp[q]
      <4>1. s.sec \in DOMAIN files' /\ files'[s.sec] = files[s.sec]
        BY <1>2, <3>1, <3>3 DEF SaveStands
      <4>2. at[s.by] = "save" => at'[s.by] = "save" /\ wrote'[s.by] = wrote[s.by]
        BY <1>2, <1>3, <3>1 DEF Still
      <4>3. Mine(s.by)' = Mine(s.by)
        BY <1>2 DEF Mine
      <4>4. QED
        BY <1>2, <3>1, <4>1, <4>2, <4>3 DEF SaveStands
    <3>4. QED
      BY <3>2, <3>3
  <2>3. QED
    BY <2>1, <2>2
<1>8. QED
  BY <1>4, <1>5, <1>6, <1>7 DEF FilesInv

(* Writing a block: the file has it at the place of this run, and the rest *)
(* as before.                                                              *)
LEMMA SaveStep ==
  ASSUME ScopeInv, NEW q \in Runs, Save(q)
  PROVE  (\A r \in Runs : RunInv(r)') /\ FilesInv'
<1> DEFINE k == wrote[q] + 1
           b == Block(q, 1)
           old == files[stamp[q]]
           new == files'[stamp[q]]
<1>1. ScopeTypes /\ RunInv(q) /\ FilesInv
  BY DEF ScopeInv
<1>2. /\ at[q] = "save" /\ n' = n /\ stamp' = stamp /\ data' = data /\ values' = values
      /\ saves' = saves /\ wrote'[q] = k
      /\ at'[q] = (IF k = Channels THEN "read" ELSE "save")
  BY <1>1 DEF Save, ScopeTypes
<1>3. /\ stamp[q] \in DOMAIN files /\ Mine(q) \in saves /\ Whole(data[q])
      /\ k \in 1 .. Channels /\ Pure(old, q, b)
  BY <1>1, <1>2, ScopeAssumption DEF RunInv, Owned, Fetched, Found, ScopeTypes
<1>4. /\ DOMAIN files' = DOMAIN files
      /\ \A f \in DOMAIN files : f # stamp[q] => files'[f] = files[f]
  BY <1>3 DEF Save, Put, FileName
<1>5. /\ DOMAIN new = DOMAIN old \cup {k} /\ new[k] = b
      /\ \A i \in DOMAIN old : i # k => new[i] = old[i]
  <2>1. new = [i \in DOMAIN old \cup {k} |-> IF i = k THEN Block(q, k) ELSE old[i]]
    BY <1>3 DEF Save, Put, FileName
  <2>2. Block(q, k) = b
    BY <1>3, ScopeAssumption DEF Block, Whole
  <2> HIDE DEF k, old, new, b
  <2> QED BY <2>1, <2>2
<1>6. b.by = q /\ b.n = n[q] /\ Recorded(b, stamp[q], saves)
  BY <1>3 DEF Block, Recorded, Whole, Mine
<1>7. \A r \in Runs : r # q => Still(r)
  BY <1>1, OthersStill DEF Step, Script
<1> HIDE DEF b, old, new
<1>8. ASSUME NEW r \in Runs, r # q PROVE RunInv(r)'
  <2>1. Still(r) /\ RunInv(r)
    BY <1>7, <1>8 DEF ScopeInv
  <2>2. at[r] \in {"save", "read"} => Adds(files[stamp[r]], files'[stamp[r]], r)
    <3>1. CASE stamp[r] = stamp[q]
      BY <1>5, <1>6, <1>8, <3>1 DEF Adds, old, new
    <3>2. CASE stamp[r] # stamp[q]
      BY <1>4, <2>1, <3>2 DEF RunInv, Owned, Adds
    <3> QED BY <3>1, <3>2
  <2>3. QED
    BY <1>2, <1>4, <2>1, <2>2, StillKeeps
<1>9. RunInv(q)'
  <2>1. Sweeping(q)' /\ Fetching(q)'
    BY <1>2 DEF Sweeping, Fetching
  <2>2. Fetched(q)'
    BY <1>2, <1>3, ScopeAssumption DEF Fetched, Whole
  <2>3. Owned(q)'
    BY <1>2, <1>3, <1>4 DEF Owned, Mine
  <2>4. Pure(new, q, b)
    BY <1>3, <1>5 DEF Pure
  <2>5. Found(q)'
    <3>1. Block(q, 1)' = b
      BY <1>2 DEF Block, b
    <3>2. Pure(files[stamp[q]], q, Block(q, 1))'
      BY <1>2, <2>4, <3>1 DEF Pure, new
    <3> QED BY <1>2, <3>2 DEF Found
  <2>6. \A i \in DOMAIN values'[q] : ValueSound(q, values[q][i])'
    BY <1>1, <1>2, ValueKept DEF RunInv
  <2>7. QED
    BY <2>1, <2>2, <2>3, <2>5, <2>6 DEF RunInv
<1>10. ASSUME NEW f \in DOMAIN files' PROVE FileSound(f)'
  <2>1. CASE f = stamp[q]
    <3>1. Sound(old, stamp[q], saves)
      BY <1>1, <1>3 DEF FilesInv, FileSound, old
    <3>2. \A i \in DOMAIN new : Recorded(new[i], stamp[q], saves)
      BY <1>5, <1>6, <3>1 DEF Sound
    <3>3. \A i \in DOMAIN new : new[i].by = q => new[i] = b
      BY <1>3, <1>5 DEF Pure
    <3>4. ASSUME NEW i \in DOMAIN new, NEW j \in DOMAIN new, new[i].by = new[j].by
          PROVE  new[i] = new[j]
      <4>1. CASE new[i].by = q
        BY <3>3, <3>4, <4>1
      <4>2. CASE new[i].by # q
        BY <1>5, <1>6, <3>1, <3>4, <4>2 DEF Sound
      <4> QED BY <4>1, <4>2
    <3>5. Sound(new, stamp[q], saves)
      BY <3>2, <3>4 DEF Sound
    <3> QED BY <1>2, <2>1, <3>5 DEF FileSound, new
  <2>2. CASE f # stamp[q]
    BY <1>1, <1>2, <1>4, <2>2 DEF FilesInv, FileSound
  <2>3. QED
    BY <2>1, <2>2
<1>11. ASSUME NEW s \in saves' PROVE SaveStands(s)'
  <2>1. s \in saves /\ s.by \in Runs /\ SaveStands(s)
    BY <1>1, <1>2 DEF FilesInv, ScopeTypes, Saves
  <2>2. CASE s = Mine(q)
    <3>1. s.by = q /\ s.n = n[q] /\ s.sec = stamp[q] /\ Mine(s.by)' = s
      BY <1>2, <2>2 DEF Mine
    <3>2. Stored(old, s, wrote[q]) => Stored(new, s, k)
      <4>1. wrote[q] \in Nat
        BY <1>1 DEF ScopeTypes
      <4>2. \A i \in 1 .. k : i = k \/ i \in 1 .. wrote[q]
        BY <4>1
      <4> HIDE DEF k
      <4> QED BY <1>5, <1>6, <3>1, <4>2 DEF Stored
    <3>3. Stored(old, s, Channels) => Stored(new, s, Channels)
      BY <1>5, <1>6, <3>1 DEF Stored
    <3>4. s.sec \in DOMAIN files' /\ new = files'[s.sec] /\ old = files[s.sec]
      BY <1>3, <1>4, <3>1 DEF new, old
    <3>5. CASE \E t \in saves : t # s /\ t.sec = s.sec
      BY <1>2, <3>4, <3>5 DEF SaveStands
    <3>6. CASE Stored(old, s, Channels)
      BY <3>3, <3>4, <3>6 DEF SaveStands
    <3>7. CASE Stored(old, s, wrote[q])
      <4>1. Stored(files'[s.sec], s, k)
        BY <3>2, <3>4, <3>7
      <4>2. CASE k = Channels
        BY <3>4, <4>1, <4>2 DEF SaveStands
      <4>3. CASE k # Channels
        BY <1>2, <3>1, <3>4, <4>1, <4>3 DEF SaveStands
      <4> QED BY <4>2, <4>3
    <3> QED BY <2>1, <3>1, <3>4, <3>5, <3>6, <3>7 DEF SaveStands
  <2>3. CASE s # Mine(q) /\ s.sec = stamp[q]
    <3>1. Mine(q) \in saves' /\ Mine(q).sec = s.sec
      BY <1>2, <1>3, <2>3 DEF Mine
    <3>2. QED
      BY <1>3, <1>4, <2>3, <3>1 DEF SaveStands
  <2>4. CASE s.sec # stamp[q]
    <3>1. s.sec \in DOMAIN files' /\ files'[s.sec] = files[s.sec]
      BY <1>4, <2>1, <2>4 DEF SaveStands
    <3>2. at[s.by] = "save" /\ Mine(s.by) = s => s.by # q
      BY <2>4 DEF Mine
    <3>3. at[s.by] = "save" /\ Mine(s.by) = s =>
            at'[s.by] = "save" /\ Mine(s.by)' = s /\ wrote'[s.by] = wrote[s.by]
      BY <1>2, <1>7, <2>1, <3>2 DEF Still, Mine
    <3>4. QED
      BY <1>2, <2>1, <3>1, <3>3 DEF SaveStands
  <2>5. QED
    BY <2>2, <2>3, <2>4
<1>12. QED
  BY <1>8, <1>9, <1>10, <1>11 DEF FilesInv

-----------------------------------------------------------------------------
(* The invariant and what follows from it                                  *)

(* ScopeInv holds throughout every behaviour of the scripts.               *)
LEMMA ScopeInvariant == Spec => []ScopeInv
<1>1. Init => ScopeInv
  <2> SUFFICES ASSUME Init PROVE ScopeInv
    OBVIOUS
  <2>1. ScopeTypes
    <3>1. scope \in [Runs -> Scopes]
      BY DEF Init, Scopes
    <3>2. at \in [Runs -> Places] /\ n \in [Runs -> Nat] /\ polls \in [Runs -> Nat]
      BY DEF Init, Places
    <3>3. /\ data \in [Runs -> Seq(Nat)] /\ values \in [Runs -> Seq(Values)]
          /\ wrote \in [Runs -> Nat]
      BY DEF Init
    <3>4. files \in [DOMAIN files -> Contents] /\ DOMAIN files = {}
      BY DEF Init
    <3>5. wf \in [Runs -> Contents]
      BY EmptyTyped DEF Init
    <3>6. sec \in Int /\ stamp \in [Runs -> Int] /\ saves \subseteq Saves
      BY DEF Init, NoFile
    <3>7. QED
      BY <3>1, <3>2, <3>3, <3>4, <3>5, <3>6 DEF ScopeTypes
  <2>2. ASSUME NEW r \in Runs PROVE RunInv(r)
    <3>1. at[r] = "acquire" /\ values[r] = <<>>
      BY DEF Init
    <3>2. Sweeping(r) /\ Fetching(r) /\ Fetched(r) /\ Owned(r) /\ Found(r)
      BY <3>1 DEF Sweeping, Fetching, Fetched, Owned, Found
    <3>3. DOMAIN values[r] = {}
      BY <3>1
    <3>4. QED
      BY <3>2, <3>3 DEF RunInv
  <2>3. FilesInv
    BY DEF Init, FilesInv
  <2>4. QED
    BY <2>1, <2>2, <2>3 DEF ScopeInv
<1>2. ScopeInv /\ [Next]_vars => ScopeInv'
  <2> SUFFICES ASSUME ScopeInv, [Next]_vars PROVE ScopeInv'
    OBVIOUS
  <2>1. ASSUME NEW q \in Runs, Step(q) PROVE ScopeInv'
    <3>1. ScopeTypes /\ FilesInv /\ RunInv(q)
      BY DEF ScopeInv
    <3>2. ScopeTypes'
      BY <2>1, <3>1, TypesKept
    <3>3. CASE Open(q)
      BY <3>2, <3>3, OpenStep DEF ScopeInv
    <3>4. CASE Save(q)
      BY <3>2, <3>4, SaveStep DEF ScopeInv
    <3>5. CASE ~Open(q) /\ ~Save(q)
      <4>1. RunInv(q)' /\ UNCHANGED <<files, saves>> /\ at[q] # "save"
        BY <2>1, <3>1, <3>5, OwnStep
      <4>2. \A r \in Runs : r # q => Still(r)
        BY <2>1, <3>1, OthersStill
      <4>3. \A r \in Runs : r # q => RunInv(r)'
        BY <4>1, <4>2, StillKeeps, SameAdds DEF ScopeInv
      <4>4. FilesInv'
        BY <3>1, <4>1, <4>2, FilesKeep
      <4>5. QED
        BY <3>2, <4>1, <4>3, <4>4 DEF ScopeInv
    <3>6. QED
      BY <3>3, <3>4, <3>5
  <2>2. ASSUME UNCHANGED <<scope, at, n, polls, stamp, data, wrote, files, wf, values, saves>>,
               sec' \in Int
        PROVE  ScopeInv'
    <3>1. \A r \in Runs : Still(r)
      BY <2>2 DEF Still
    <3>2. \A r \in Runs : RunInv(r)'
      BY <2>2, <3>1, StillKeeps, SameAdds DEF ScopeInv
    <3>3. FilesInv'
      BY <2>2, <3>1, FilesKeep DEF ScopeInv
    <3>4. ScopeTypes'
      BY <2>2 DEF ScopeInv, ScopeTypes
    <3>5. QED
      BY <3>2, <3>3, <3>4 DEF ScopeInv
  <2>3. CASE Second
    <3>1. sec' \in Int
      BY <2>3 DEF Second, ScopeInv, ScopeTypes
    <3>2. QED
      BY <2>2, <2>3, <3>1 DEF Second
  <2>4. CASE UNCHANGED vars
    <3>1. sec' \in Int
      BY <2>4 DEF vars, ScopeInv, ScopeTypes
    <3>2. QED
      BY <2>2, <2>4, <3>1 DEF vars
  <2>5. QED
    BY <2>1, <2>3, <2>4 DEF Next, Step
<1>3. QED
  BY <1>1, <1>2, PTL DEF Spec

(* Whatever the numbers of runs, channels and sweeps, all channels a delay *)
(* is computed from are of complete acquisitions, and of one and the same, *)
(* as a single acquisition cannot trigger again while channels are fetched *)
(* (LeCroy8254.py:101-131), unless two runs saved in the same second and   *)
(* wrote into each other's file (145-148).                                 *)
THEOREM AlwaysOneAcquisition == Spec => []OneAcquisition
<1>1. ScopeInv => OneAcquisition
  <2> SUFFICES ASSUME ScopeInv, NEW r \in Runs, NEW v \in RangeOf(values[r]),
                      NEW i \in DOMAIN v.from, NEW j \in DOMAIN v.from
               PROVE  /\ v.from[i].sweeps >= NumAvg
                      /\ \/ v.from[i] = v.from[j]
                         \/ \E s, t \in saves : /\ s.by = v.from[i].by /\ t.by = v.from[j].by
                                                /\ s.by # t.by /\ s.sec = t.sec
    BY DEF OneAcquisition
  <2>1. Sound(v.from, v.name, saves)
    BY DEF RangeOf, ScopeInv, RunInv, ValueSound
  <2> DEFINE s == [by |-> v.from[i].by, n |-> v.from[i].n, sec |-> v.name]
             t == [by |-> v.from[j].by, n |-> v.from[j].n, sec |-> v.name]
  <2>2. /\ v.from[i].sweeps >= NumAvg /\ s \in saves /\ t \in saves
        /\ v.from[i].by = v.from[j].by => v.from[i] = v.from[j]
    BY <2>1 DEF Sound, Recorded
  <2>3. s.by = v.from[i].by /\ t.by = v.from[j].by /\ s.sec = t.sec
    OBVIOUS
  <2> HIDE DEF s, t
  <2>4. QED
    BY <2>2, <2>3
<1>2. QED
  BY <1>1, ScopeInvariant, PTL

(* For any number of runs in one directory every channel a delay comes     *)
(* from is of the run's own measurement, unless the run it is from saved   *)
(* in the same second (LeCroy8254.py:142-148, edge_sfd.py:168-169).        *)
THEOREM WaveformsAreOwn == Spec => []OwnWaveform
<1>1. ScopeInv => OwnWaveform
  <2> SUFFICES ASSUME ScopeInv, NEW r \in Runs, NEW v \in RangeOf(values[r]),
                      NEW i \in DOMAIN v.from
               PROVE  \/ v.from[i].by = r /\ v.from[i].n = v.n
                      \/ \E s, t \in saves : /\ s.by = r /\ s.n = v.n
                                              /\ t.by = v.from[i].by /\ t.by # r
                                              /\ t.sec = s.sec
    BY DEF OwnWaveform
  <2>1. ValueSound(r, v)
    BY DEF RangeOf, ScopeInv, RunInv
  <2> DEFINE s == [by |-> r, n |-> v.n, sec |-> v.name]
             t == [by |-> v.from[i].by, n |-> v.from[i].n, sec |-> v.name]
  <2>2. s \in saves /\ t \in saves /\ (v.from[i].by = r => v.from[i].n = v.n)
    BY <2>1 DEF ValueSound, Sound, Recorded, Numbered
  <2>3. s.by = r /\ s.n = v.n /\ t.by = v.from[i].by /\ t.sec = s.sec
    OBVIOUS
  <2> HIDE DEF s, t
  <2>4. QED
    BY <2>2, <2>3
<1>2. QED
  BY <1>1, ScopeInvariant, PTL

(* The waveform of every delay in a histogram is still there, unless two   *)
(* were saved in one second, by one run or by two (edge_sfd.py:302-305,    *)
(* LeCroy8254.py:142-148).                                                 *)
THEOREM FilesAreKept == Spec => []FilesKept
<1>1. ScopeInv => FilesKept
  <2> SUFFICES ASSUME ScopeInv, NEW r \in Runs, NEW v \in RangeOf(values[r])
               PROVE  \/ \A i \in 1 .. Channels : /\ i \in DOMAIN files[v.name]
                                                  /\ files[v.name][i].by = r
                                                  /\ files[v.name][i].n = v.n
                      \/ \E s, t \in saves : /\ s.by = r /\ s.n = v.n
                                              /\ t # s /\ t.sec = s.sec
    BY DEF FilesKept
  <2>1. ValueSound(r, v) /\ v \in Values
    BY DEF RangeOf, ScopeInv, RunInv, ScopeTypes
  <2> DEFINE s == [by |-> r, n |-> v.n, sec |-> v.name]
  <2>2. s \in saves /\ s.by = r /\ s.n = v.n /\ s.sec = v.name
    BY <2>1 DEF ValueSound
  <2> HIDE DEF s
  <2>3. SaveStands(s)
    BY <2>2 DEF ScopeInv, FilesInv
  <2>4. v.n # n[r]
    <3>1. v.n \in Nat /\ n[r] \in Nat /\ v.n < n[r]
      BY <2>1 DEF ScopeInv, ScopeTypes, ValueSound, Values
    <3>2. QED
      BY <3>1
  <2>5. Mine(r) # s
    BY <2>2, <2>4 DEF Mine
  <2>6. QED
    BY <2>2, <2>3, <2>5 DEF SaveStands, Stored
<1>2. QED
  BY <1>1, ScopeInvariant, PTL
=============================================================================
