-------------------------- MODULE FeatureCache_proofs --------------------------
(***************************************************************************)
(* Proofs about FeatureCache, for any number of processes, commands,       *)
(* episodes, features and faults.  The argument: while a command runs      *)
(* nothing changes at rest, a file that is complete and a shard that is    *)
(* linked are never written again, and exactly one process writes a file   *)
(* that is torn; so what a process has recorded is still on the disk when  *)
(* it seals the directory.  In a directory that is neither sealed nor      *)
(* given up some process is ahead of all that could end it.                *)
(***************************************************************************)
EXTENDS FeatureCache, SequenceTheorems, TLAPS

-----------------------------------------------------------------------------
(* The inductive invariant.                                                *)

Files == {"identity", "normalization", "manifest"}
FileStates == {"absent", "torn", "complete"}

\* The features of one shard, by the number of backbones.
Width(id) ==
  IF \/ id.experiment = "combined"
     \/ id.experiment = "rebound" /\ id.from[1].identity.experiment = "combined"
  THEN 2 ELSE 1
Content(id) == [1..Width(id) -> Features]
Part(id) == Content(id) \cup {<<>>}

DirSet(id) == [identity : FileStates, normalization : FileStates, manifest : FileStates,
               record : [Episodes -> Part(id)], shard : [Episodes -> Part(id)],
               changed : SUBSET Episodes]

\* A derived identity names manifests of the caches its command takes.
Full(m) == \A e \in Scope(m.identity) : m.record[e] \in Content(m.identity)
Origin(id) ==
  /\ id.experiment \in Experiments /\ id = Identity(id.experiment, id.from)
  /\ id.experiment \in {"global", "spatial", "visible"} => id.from = <<>>
  /\ id.experiment = "combined" =>
       /\ id.from = <<id.from[1], id.from[2]>>
       /\ id.from[1].identity.experiment \in {"global", "visible"} /\ Full(id.from[1])
       /\ id.from[2].identity.experiment = "spatial" /\ Full(id.from[2])
  /\ id.experiment \in {"rebound", "rebound-visible"} =>
       /\ id.from = <<id.from[1]>> /\ Full(id.from[1])
       /\ id.from[1].identity.experiment \in
            IF id.experiment = "rebound" THEN {"combined", "visible"} ELSE {"visible"}

Derives(id, e, content) == id.from # <<>> => content = Concatenated(id.from, e)

Directories ==
  /\ disk = [id \in DOMAIN disk |-> disk[id]]
  /\ \A id \in DOMAIN disk : Origin(id) /\ disk[id] \in DirSet(id)

\* A sealed directory was complete when its manifest was written.
Complete(id) ==
  Sealed(id) =>
    /\ disk[id].identity = "complete" /\ disk[id].normalization = "complete"
    /\ \A e \in Scope(id) :
         /\ disk[id].shard[e] # <<>> /\ disk[id].record[e] # <<>>
         /\ e \notin disk[id].changed => disk[id].shard[e] = disk[id].record[e]
         /\ Derives(id, e, disk[id].record[e])

\* The episodes a command has recorded, and what it knows of its directory.
Done(c) == IF c.file = "manifest" THEN Episodes ELSE {e \in Episodes : e < c.episode}
Working(c) ==
  /\ c.id \in DOMAIN disk
  /\ c.value \in Part(c.id) /\ c.record \in [Episodes -> Part(c.id)]
  /\ c.file # "identity" => disk[c.id].identity = "complete"
  /\ c.file = "manifest" \/ c.pc \in {"shard", "link"} => disk[c.id].normalization = "complete"
  /\ c.pc \in {"shard", "link"} => c.file = "normalization"
  /\ c.pc = "dump" => disk[c.id][c.file] = "torn"
  /\ c.pc = "link" => /\ c.episode \in Scope(c.id) /\ c.value # <<>>
                      /\ Derives(c.id, c.episode, c.value)
  /\ c.pc \in {"check", "open", "dump"} /\ c.file # "manifest" => c.episode = 1
  /\ \A e \in Scope(c.id) \cap Done(c) :
       /\ c.record[e] = disk[c.id].shard[e] /\ c.record[e] # <<>>
       /\ Derives(c.id, e, c.record[e])

Process(p) ==
  /\ proc[p] = [pc |-> proc[p].pc, id |-> proc[p].id, file |-> proc[p].file,
                episode |-> proc[p].episode, value |-> proc[p].value,
                record |-> proc[p].record]
  /\ proc[p].pc \in {"idle", "check", "open", "dump", "shard", "link"}
  /\ proc[p].file \in Files /\ proc[p].episode \in Episodes
  /\ IF proc[p].pc = "idle" THEN proc[p] = Idle ELSE Working(proc[p])
Processes == proc = [p \in Procs |-> proc[p]] /\ \A p \in Procs : Process(p)

\* One process writes a file.
Writes(p, id, file) == proc[p].pc = "dump" /\ proc[p].id = id /\ proc[p].file = file
OneWriter ==
  \A p, q \in Procs : proc[p].pc = "dump" /\ Writes(q, proc[p].id, proc[p].file) => p = q

Returned == \A m \in made : Sealed(m.identity) /\ m.record = disk[m.identity].record

Counters == commands \in 0..MaxCommands /\ faults \in 0..MaxFaults
Known == abandoned \subseteq DOMAIN disk

\* Nothing is in the way of this process.
Leads(p, id) ==
  /\ proc[p].id = id
  /\ \/ proc[p].pc \in {"check", "shard", "dump"}
     \/ proc[p].pc = "open" /\ disk[id][proc[p].file] = "absent"
     \/ proc[p].pc = "link" /\ disk[id].shard[proc[p].episode] = <<>>

\* As long as nothing changed at rest; and some process is ahead where none was
\* killed or refused its sources.
Calm(id) ==
  /\ disk[id].changed = {}
  /\ id \notin abandoned =>
       /\ \A f \in Files : disk[id][f] = "torn" => \E p \in Procs : Writes(p, id, f)
       /\ Sealed(id) \/ \E p \in Procs : Leads(p, id)
  /\ \A i \in DOMAIN id.from : /\ Sealed(id.from[i].identity)
                               /\ id.from[i].record = disk[id.from[i].identity].record
  /\ \A e \in Scope(id) : disk[id].shard[e] # <<>> => Derives(id, e, disk[id].shard[e])
Undisturbed == faults = 0 => \A id \in DOMAIN disk : Calm(id)

IInv ==
  /\ Directories /\ \A id \in DOMAIN disk : Complete(id)
  /\ Processes /\ OneWriter /\ Returned /\ Counters /\ Known /\ Undisturbed

-----------------------------------------------------------------------------
(* Shards and directories.                                                 *)

LEMMA FlattenOne ==
  ASSUME NEW a
  PROVE  FlattenSeq(<<a>>) = a
<1> DEFINE s == <<a>>
           F == [i \in 1..1 |-> a]
           flatten == CHOOSE g : g = [i \in 1..Len(s) |-> IF i = 1 THEN s[i] ELSE g[i - 1] \o s[i]]
<1>1. Len(s) = 1 /\ s[1] = a
  OBVIOUS
<1>2. F = [i \in 1..Len(s) |-> IF i = 1 THEN s[i] ELSE F[i - 1] \o s[i]]
  BY <1>1
<1>3. flatten = [i \in 1..Len(s) |-> IF i = 1 THEN s[i] ELSE flatten[i - 1] \o s[i]]
  BY <1>2
<1>4. flatten[1] = a
  BY <1>1, <1>3
<1>5. FlattenSeq(s) = flatten[Len(s)]
  BY <1>1 DEF FlattenSeq
<1> QED BY <1>1, <1>4, <1>5

LEMMA FlattenTwo ==
  ASSUME NEW a, NEW b
  PROVE  FlattenSeq(<<a, b>>) = a \o b
<1> DEFINE s == <<a, b>>
           F == [i \in 1..2 |-> IF i = 1 THEN a ELSE a \o b]
           flatten == CHOOSE g : g = [i \in 1..Len(s) |-> IF i = 1 THEN s[i] ELSE g[i - 1] \o s[i]]
<1>1. Len(s) = 2 /\ s[1] = a /\ s[2] = b
  OBVIOUS
<1>2. F = [i \in 1..Len(s) |-> IF i = 1 THEN s[i] ELSE F[i - 1] \o s[i]]
  <2>1. \A i \in 1..2 : F[i] = IF i = 1 THEN s[i] ELSE F[i - 1] \o s[i]
    BY <1>1
  <2> QED BY <1>1, <2>1
<1>3. flatten = [i \in 1..Len(s) |-> IF i = 1 THEN s[i] ELSE flatten[i - 1] \o s[i]]
  BY <1>2
<1>4. flatten[1] = a /\ flatten[2] = flatten[1] \o b
  <2>1. 1 \in 1..Len(s) /\ 2 \in 1..Len(s) /\ 2 # 1 /\ 2 - 1 = 1
    BY <1>1
  <2> HIDE DEF flatten
  <2> QED BY <1>1, <1>3, <2>1
<1>5. FlattenSeq(s) = flatten[Len(s)]
  BY <1>1 DEF FlattenSeq
<1> QED BY <1>1, <1>4, <1>5

LEMMA ConcatOne ==
  ASSUME NEW S, NEW a \in [1..1 -> S], NEW b \in [1..1 -> S]
  PROVE  a \o b \in [1..2 -> S]
<1>1. a = [i \in 1..1 |-> a[i]] /\ b = [i \in 1..1 |-> b[i]] /\ a[1] \in S /\ b[1] \in S
  OBVIOUS
<1>2. a = <<a[1]>> /\ b = <<b[1]>>
  BY <1>1
<1>3. a \in Seq(S) /\ b \in Seq(S) /\ Len(a) = 1 /\ Len(b) = 1
  BY <1>1, <1>2
<1>4. a \o b \in Seq(S) /\ Len(a \o b) = 2
  BY <1>3, ConcatProperties
<1> QED BY <1>4, LenProperties

LEMMA ContentFull ==
  ASSUME NEW id, NEW content \in Content(id)
  PROVE  content # <<>>
BY DEF Content, Width

\* A derived shard has the features of all its sources.
LEMMA ConcatenatedContent ==
  ASSUME NEW id, Origin(id), Fits(id), id.from # <<>>, NEW e \in Scope(id)
  PROVE  Concatenated(id.from, e) \in Content(id) /\ Concatenated(id.from, e) # <<>>
<1> DEFINE m == id.from[1]
           n == id.from[2]
<1>1. CASE id.experiment = "combined"
  <2>1. id.from = <<m, n>> /\ Full(m) /\ Full(n)
    BY <1>1 DEF Origin
  <2>2. m.record[e] \in [1..1 -> Features] /\ n.record[e] \in [1..1 -> Features]
    <3>1. e \in Scope(m.identity) /\ e \in Scope(n.identity)
      BY <2>1 DEF Fits
    <3>2. Width(m.identity) = 1 /\ Width(n.identity) = 1
      BY <1>1 DEF Origin, Width
    <3> QED BY <2>1, <3>1, <3>2 DEF Full, Content
  <2>3. Concatenated(<<m, n>>, e) = m.record[e] \o n.record[e]
    <3>1. [i \in DOMAIN <<m, n>> |-> <<m, n>>[i].record[e]] = <<m.record[e], n.record[e]>>
      OBVIOUS
    <3> QED BY <3>1, FlattenTwo DEF Concatenated
  <2>4. m.record[e] \o n.record[e] \in [1..2 -> Features]
    BY <2>2, ConcatOne
  <2> QED BY <1>1, <2>1, <2>3, <2>4, ContentFull DEF Content, Width
<1>2. CASE id.experiment \in {"rebound", "rebound-visible"}
  <2>1. id.from = <<m>> /\ Full(m)
    BY <1>2 DEF Origin
  <2>2. m.record[e] \in Content(id)
    <3>1. e \in Scope(m.identity)
      BY <2>1 DEF Fits
    <3>2. Width(m.identity) = Width(id)
      BY <1>2 DEF Origin, Width
    <3> QED BY <2>1, <3>1, <3>2 DEF Full, Content
  <2>3. Concatenated(<<m>>, e) = m.record[e]
    <3>1. [i \in DOMAIN <<m>> |-> <<m>>[i].record[e]] = <<m.record[e]>>
      OBVIOUS
    <3> QED BY <3>1, FlattenOne DEF Concatenated
  <2> QED BY <2>1, <2>2, <2>3, ContentFull
<1> QED BY <1>1, <1>2 DEF Origin, Experiments

LEMMA UpdateFacts ==
  ASSUME NEW id, NEW dir, disk' = Update(id, dir)
  PROVE  /\ DOMAIN disk' = DOMAIN disk \cup {id} /\ disk'[id] = dir
         /\ disk' = [j \in DOMAIN disk' |-> disk'[j]]
         /\ \A j \in DOMAIN disk \ {id} : disk'[j] = disk[j]
BY DEF Update

\* Writing one of the three files leaves the rest of a directory alone.
Wrote(dir, file, state) == [dir EXCEPT ![file] = state]

LEMMA WriteFile ==
  ASSUME NEW id, NEW dir \in DirSet(id), NEW file \in Files, NEW state \in FileStates
  PROVE  /\ Wrote(dir, file, state) \in DirSet(id) /\ Wrote(dir, file, state)[file] = state
         /\ \A f \in Files \ {file} : Wrote(dir, file, state)[f] = dir[f]
         /\ Wrote(dir, file, state).record = dir.record
         /\ Wrote(dir, file, state).shard = dir.shard
         /\ Wrote(dir, file, state).changed = dir.changed
<1>1. CASE file = "identity"
  BY <1>1 DEF DirSet, Files, Wrote
<1>2. CASE file = "normalization"
  BY <1>2 DEF DirSet, Files, Wrote
<1>3. CASE file = "manifest"
  BY <1>3 DEF DirSet, Files, Wrote
<1> QED BY <1>1, <1>2, <1>3 DEF Files

-----------------------------------------------------------------------------
(* The frame of a step: what one process may do to the directories, and     *)
(* what it leaves to the others.                                           *)

Others(p) ==
  /\ proc' = [q \in Procs |-> proc'[q]]
  /\ \A q \in Procs \ {p} : proc'[q] = proc[q]

\* What is written stays; only its writer touches a torn file.
Grows(p) ==
  /\ DOMAIN disk \subseteq DOMAIN disk'
  /\ \A id \in DOMAIN disk :
       /\ \A f \in Files :
            /\ disk[id][f] = "complete" => disk'[id][f] = "complete"
            /\ disk[id][f] = "torn" /\ ~ Writes(p, id, f) => disk'[id][f] = "torn"
       /\ \A e \in Episodes :
            disk[id].shard[e] # <<>> => disk'[id].shard[e] = disk[id].shard[e]
       /\ Sealed(id) => disk'[id].record = disk[id].record
       /\ disk'[id].changed = disk[id].changed

\* A process that starts to write, and a manifest returned.
StartsWriting(p) ==
  proc'[p].pc = "dump" => \A q \in Procs : ~ Writes(q, proc'[p].id, proc'[p].file)
Returns ==
  \A m \in made' \ made : Sealed(m.identity)' /\ m.record = disk'[m.identity].record

LEMMA QuietGrows ==
  ASSUME NEW p, UNCHANGED disk
  PROVE  Grows(p)
BY DEF Grows

LEMMA SealedOn ==
  ASSUME NEW id
  PROVE  Sealed(id) <=> id \in DOMAIN disk /\ disk[id].manifest = "complete"
BY DEF Sealed, Dir, Fresh

LEMMA SealedStays ==
  ASSUME NEW p, Grows(p), NEW id, Sealed(id)
  PROVE  /\ id \in DOMAIN disk /\ id \in DOMAIN disk'
         /\ Sealed(id)' /\ disk'[id].record = disk[id].record
<1>1. id \in DOMAIN disk /\ id \in DOMAIN disk'
  BY SealedOn DEF Grows
<1>2. disk[id].manifest = "complete" /\ "manifest" \in Files
  BY SealedOn DEF Files
<1>3. disk'[id]["manifest"] = "complete"
  BY <1>1, <1>2 DEF Grows
<1> QED BY <1>1, <1>3 DEF Grows, Sealed, Dir

LEMMA OthersKept ==
  ASSUME IInv, NEW p \in Procs, Others(p), Grows(p), NEW q \in Procs \ {p}
  PROVE  Process(q)'
<1>1. proc'[q] = proc[q] /\ Process(q)
  BY DEF Others, IInv, Processes
<1> PICK c : c = proc[q]
  OBVIOUS
<1>2. CASE c.pc = "idle"
  BY <1>1, <1>2 DEF Process
<1>3. CASE c.pc # "idle"
  <2>1. Working(c) /\ c.file \in Files /\ c.episode \in Episodes
    BY <1>1, <1>3 DEF Process
  <2>2. c.pc = "dump" => ~ Writes(p, c.id, c.file)
    BY DEF IInv, OneWriter, Writes
  <2>3. c.id \in DOMAIN disk /\ c.id \in DOMAIN disk'
    BY <2>1 DEF Working, Grows
  <2>4. /\ disk[c.id].identity = "complete" => disk'[c.id].identity = "complete"
        /\ disk[c.id].normalization = "complete" => disk'[c.id].normalization = "complete"
    BY <2>3 DEF Grows, Files
  <2>5. c.pc = "dump" => disk'[c.id][c.file] = "torn"
    BY <2>1, <2>2, <2>3 DEF Grows, Working
  <2>6. ASSUME NEW e \in Scope(c.id) \cap Done(c)
        PROVE  c.record[e] = disk'[c.id].shard[e] /\ c.record[e] # <<>>
    <3>1. e \in Episodes
      BY <2>6 DEF Scope
    <3>2. c.record[e] = disk[c.id].shard[e] /\ c.record[e] # <<>>
      BY <2>1, <2>6 DEF Working
    <3> QED BY <2>3, <3>1, <3>2 DEF Grows
  <2>7. Working(c)'
    BY <2>1, <2>3, <2>4, <2>5, <2>6 DEF Working
  <2> QED BY <1>1, <1>3, <2>7 DEF Process
<1> QED BY <1>2, <1>3

LEMMA WritersKept ==
  ASSUME IInv, NEW p \in Procs, Others(p), StartsWriting(p)
  PROVE  OneWriter'
<1> SUFFICES ASSUME NEW q \in Procs, NEW r \in Procs, proc'[q].pc = "dump",
                    proc'[r].pc = "dump", proc'[r].id = proc'[q].id,
                    proc'[r].file = proc'[q].file
             PROVE  q = r
  BY DEF OneWriter, Writes
<1>1. CASE q # p /\ r # p
  BY <1>1 DEF Others, IInv, OneWriter, Writes
<1>2. CASE q = p /\ r # p
  BY <1>2 DEF Others, StartsWriting, Writes
<1>3. CASE q # p /\ r = p
  BY <1>3 DEF Others, StartsWriting, Writes
<1> QED BY <1>1, <1>2, <1>3

LEMMA ReturnedKept ==
  ASSUME IInv, NEW p, Grows(p), Returns
  PROVE  Returned'
<1> SUFFICES ASSUME NEW m \in made'
             PROVE  Sealed(m.identity)' /\ m.record = disk'[m.identity].record
  BY DEF Returned
<1>1. CASE m \in made
  <2>1. Sealed(m.identity) /\ m.record = disk[m.identity].record
    BY <1>1 DEF IInv, Returned
  <2> QED BY <2>1, SealedStays
<1> QED BY <1>1 DEF Returns

\* Some process still leads where this one led.
Yields(p) ==
  \A id \in DOMAIN disk \ abandoned' :
    Leads(p, id) => Sealed(id)' \/ \E q \in Procs : Leads(q, id)'

\* It leads where it took something another one waits for.
Takes(p) ==
  \A id \in DOMAIN disk :
    /\ \A f \in Files : disk[id][f] = "absent" => disk'[id][f] = "absent" \/ Leads(p, id)'
    /\ \A e \in Episodes :
         disk[id].shard[e] = <<>> => disk'[id].shard[e] = <<>> \/ Leads(p, id)'

LEMMA LeaderKept ==
  ASSUME IInv, NEW p \in Procs, Others(p), Grows(p), Takes(p), Yields(p),
         NEW id \in DOMAIN disk \ abandoned', abandoned \subseteq abandoned', faults = 0
  PROVE  Sealed(id)' \/ \E q \in Procs : Leads(q, id)'
<1>1. CASE Sealed(id)
  BY <1>1, SealedStays
<1>2. CASE ~ Sealed(id)
  <2>1. PICK q \in Procs : Leads(q, id)
    BY <1>2 DEF IInv, Undisturbed, Calm
  <2>2. CASE q = p
    BY <2>1, <2>2 DEF Yields
  <2>3. CASE q # p
    <3>1. proc'[q] = proc[q] /\ Process(q)
      BY <2>3 DEF Others, IInv, Processes
    <3>2. proc[q].file \in Files /\ proc[q].episode \in Episodes
      BY <3>1 DEF Process
    <3>3. CASE Leads(p, id)'
      BY <3>3
    <3>4. CASE ~ Leads(p, id)'
      <4>1. disk[id][proc[q].file] = "absent" => disk'[id][proc[q].file] = "absent"
        BY <3>2, <3>4 DEF Takes
      <4>2. disk[id].shard[proc[q].episode] = <<>> => disk'[id].shard[proc[q].episode] = <<>>
        BY <3>2, <3>4 DEF Takes
      <4> QED BY <2>1, <3>1, <4>1, <4>2 DEF Leads
    <3> QED BY <3>3, <3>4
  <2> QED BY <2>2, <2>3
<1> QED BY <1>1, <1>2

LEMMA CalmKept ==
  ASSUME IInv, NEW p \in Procs, Others(p), Grows(p), Takes(p), Yields(p), faults = 0,
         abandoned \subseteq abandoned',
         \A id \in DOMAIN disk :
           /\ id \notin abandoned' => \A f \in Files : disk'[id][f] = "torn" =>
                Writes(p, id, f)' \/ (disk[id][f] = "torn" /\ ~ Writes(p, id, f))
           /\ \A e \in Scope(id) : disk'[id].shard[e] # <<>> =>
                disk[id].shard[e] # <<>> \/ Derives(id, e, disk'[id].shard[e])
  PROVE  \A id \in DOMAIN disk : Calm(id)'
<1> SUFFICES ASSUME NEW id \in DOMAIN disk
             PROVE  Calm(id)'
  OBVIOUS
<1>1. Calm(id)
  BY DEF IInv, Undisturbed
<1>2. disk'[id].changed = {}
  BY <1>1 DEF Calm, Grows
<1>3. ASSUME id \notin abandoned', NEW f \in Files, disk'[id][f] = "torn"
      PROVE  \E q \in Procs : Writes(q, id, f)'
  <2>1. CASE Writes(p, id, f)'
    BY <2>1
  <2>2. CASE disk[id][f] = "torn" /\ ~ Writes(p, id, f)
    <3>1. PICK q \in Procs : Writes(q, id, f)
      BY <1>1, <1>3, <2>2 DEF Calm
    <3>2. proc'[q] = proc[q]
      BY <2>2, <3>1 DEF Others
    <3> QED BY <3>1, <3>2 DEF Writes
  <2> QED BY <1>3, <2>1, <2>2
<1>4. id \notin abandoned' => Sealed(id)' \/ \E q \in Procs : Leads(q, id)'
  BY LeaderKept
<1>5. \A i \in DOMAIN id.from :
        /\ Sealed(id.from[i].identity)'
        /\ id.from[i].record = disk'[id.from[i].identity].record
  BY <1>1, SealedStays DEF Calm
<1>6. ASSUME NEW e \in Scope(id), disk'[id].shard[e] # <<>>
      PROVE  Derives(id, e, disk'[id].shard[e])
  <2>1. CASE disk[id].shard[e] # <<>>
    <3>1. e \in Episodes
      BY DEF Scope
    <3>2. disk'[id].shard[e] = disk[id].shard[e]
      BY <2>1, <3>1 DEF Grows
    <3> QED BY <1>1, <2>1, <3>2 DEF Calm
  <2> QED BY <1>6, <2>1
<1> QED BY <1>2, <1>3, <1>4, <1>5, <1>6 DEF Calm

\* A step of one process that keeps what it knows keeps the invariant.
LEMMA StepKept ==
  ASSUME IInv, NEW p \in Procs, Others(p), Grows(p), StartsWriting(p), Returns,
         Process(p)', Directories', \A id \in DOMAIN disk' : Complete(id)',
         Counters', Undisturbed', abandoned' \subseteq abandoned \cup DOMAIN disk
  PROVE  IInv'
<1>1. Processes'
  BY OthersKept DEF Processes, Others
<1>2. Known'
  BY DEF IInv, Known, Grows
<1> QED BY <1>1, <1>2, WritersKept, ReturnedKept DEF IInv

\* A step that leaves the directories alone.
LEMMA QuietKept ==
  ASSUME IInv, NEW p \in Procs, Others(p), UNCHANGED <<disk, commands, faults, abandoned>>,
         proc[p].pc # "dump", StartsWriting(p), Returns, Process(p)',
         faults = 0 => Yields(p)
  PROVE  IInv'
<1>1. Grows(p)
  BY QuietGrows
<1>2. Directories' /\ (\A id \in DOMAIN disk' : Complete(id)') /\ Counters'
  BY DEF IInv, Directories, Complete, Counters, Sealed, Dir
<1>3. Undisturbed'
  <2>1. Takes(p)
    BY DEF Takes
  <2>2. faults = 0 => \A id \in DOMAIN disk : Calm(id)'
    BY <1>1, <2>1, CalmKept DEF Writes
  <2> QED BY <2>2 DEF Undisturbed
<1> QED BY <1>1, <1>2, <1>3, StepKept

-----------------------------------------------------------------------------
(* What the steps have in common.                                          *)

LEMMA OneIsEpisode == 1 \in Episodes /\ LastEpisode \in Episodes
BY CacheAssumption DEF Episodes

LEMMA EndKept ==
  ASSUME IInv, NEW p \in Procs, End(p)
  PROVE  /\ Others(p) /\ proc'[p] = Idle /\ Process(p)'
         /\ StartsWriting(p)
<1>1. proc' = [q \in Procs |-> IF q = p THEN Idle ELSE proc[q]]
  BY DEF End, IInv, Processes
<1>2. Others(p) /\ proc'[p] = Idle
  BY <1>1 DEF Others
<1>3. Process(p)'
  BY <1>2, OneIsEpisode DEF Process, Idle, Files
<1>4. StartsWriting(p)
  BY <1>2 DEF StartsWriting, Idle
<1> QED BY <1>2, <1>3, <1>4

\* An episode is recorded as it is on the disk; the process is ahead again.
LEMMA Recorded ==
  ASSUME IInv, NEW p \in Procs, NEW content, Record(p, content), Grows(p),
         NEW c, c = proc[p], c.pc \in {"shard", "link"}, content \in Part(c.id),
         c.episode \in Scope(c.id) =>
           /\ content = disk'[c.id].shard[c.episode] /\ content # <<>>
           /\ Derives(c.id, c.episode, content)
  PROVE  Others(p) /\ Process(p)' /\ StartsWriting(p) /\ Leads(p, c.id)'
<1> DEFINE done == c.episode = LastEpisode
           next == [pc |-> IF done THEN "check" ELSE "shard", id |-> c.id,
                    file |-> IF done THEN "manifest" ELSE c.file,
                    episode |-> IF done THEN c.episode ELSE c.episode + 1,
                    value |-> <<>>, record |-> [c.record EXCEPT ![c.episode] = content]]
<1>1. Process(p) /\ proc = [q \in Procs |-> proc[q]]
  BY DEF IInv, Processes
<1>2. c = [pc |-> c.pc, id |-> c.id, file |-> c.file,
           episode |-> c.episode, value |-> c.value, record |-> c.record]
  BY <1>1 DEF Process
<1>3. proc' = [q \in Procs |-> IF q = p THEN next ELSE proc[q]]
  <2> DEFINE pc == IF done THEN "check" ELSE "shard"
             file == IF done THEN "manifest" ELSE c.file
             episode == IF done THEN c.episode ELSE c.episode + 1
             record == [c.record EXCEPT ![c.episode] = content]
             value == <<>>
             now == [c EXCEPT !.record = record, !.episode = episode, !.pc = pc,
                              !.file = file, !.value = value]
  <2>1. proc' = [proc EXCEPT ![p] = now]
    BY <1>1 DEF Record
  <2>2. next = [pc |-> pc, id |-> c.id, file |-> file, episode |-> episode,
                value |-> value, record |-> record]
    OBVIOUS
  <2>3. now = next
    <3> HIDE DEF pc, file, episode, record, value, next
    <3>1. now = [c EXCEPT !.record = record, !.episode = episode, !.pc = pc,
                          !.file = file, !.value = value]
      OBVIOUS
    <3> HIDE DEF now
    <3>2. /\ now.pc = pc /\ now.id = c.id /\ now.file = file
          /\ now.episode = episode /\ now.value = value /\ now.record = record
      BY <1>2, <3>1
    <3>3. now = [pc |-> now.pc, id |-> now.id, file |-> now.file, episode |-> now.episode,
                 value |-> now.value, record |-> now.record]
      BY <1>2, <3>1
    <3> QED BY <2>2, <3>2, <3>3
  <2> HIDE DEF now, next
  <2> QED BY <1>1, <2>1, <2>3
<1>4. Others(p) /\ proc'[p] = next
  BY <1>3 DEF Others
<1>5. Working(c) /\ c.file = "normalization" /\ c.episode \in Episodes
  BY <1>1 DEF Process, Working
<1>6. next.episode \in Episodes
  BY <1>5, CacheAssumption DEF Episodes
<1>7. next.record \in [Episodes -> Part(c.id)] /\ <<>> \in Part(c.id)
  BY <1>5 DEF Working, Part
<1>8. /\ c.id \in DOMAIN disk' /\ disk'[c.id].identity = "complete"
      /\ disk'[c.id].normalization = "complete"
  BY <1>5 DEF Working, Grows, Files
<1>9. ASSUME NEW e \in Scope(c.id) \cap Done(next)
      PROVE  /\ next.record[e] = disk'[c.id].shard[e] /\ next.record[e] # <<>>
             /\ Derives(c.id, e, next.record[e])
  <2>1. e \in Episodes
    BY DEF Scope
  <2>2. CASE e = c.episode
    BY <2>1, <2>2, <1>5, <1>9 DEF Working
  <2>3. CASE e # c.episode
    <3>1. e < c.episode
      BY <1>5, <1>9, <2>1, <2>3, CacheAssumption DEF Done, Episodes
    <3>2. e \in Scope(c.id) \cap Done(c)
      BY <1>5, <1>9, <2>1, <3>1 DEF Done
    <3>3. c.record[e] = disk[c.id].shard[e] /\ c.record[e] # <<>> /\ Derives(c.id, e, c.record[e])
      BY <1>5, <3>2 DEF Working
    <3>4. disk'[c.id].shard[e] = disk[c.id].shard[e]
      BY <1>5, <2>1, <3>3 DEF Working, Grows
    <3>5. next.record[e] = c.record[e]
      BY <1>5, <2>1, <2>3 DEF Working
    <3> QED BY <3>3, <3>4, <3>5
  <2> QED BY <2>2, <2>3
<1>10. Working(next)'
  <2>1. next.pc \in {"check", "shard"} /\ (next.pc = "check" => next.file = "manifest")
    OBVIOUS
  <2>2. next.pc = "shard" => next.file = "normalization"
    BY <1>5
  <2>3. next.id = c.id /\ next.value = <<>>
    OBVIOUS
  <2> HIDE DEF next
  <2> QED BY <1>7, <1>8, <1>9, <2>1, <2>2, <2>3 DEF Working
<1>11. Process(p)'
  <2>1. next.pc \in {"check", "shard"} /\ next.file \in Files
    BY <1>5 DEF Files
  <2> QED BY <1>4, <1>6, <1>10, <2>1 DEF Process
<1>12. StartsWriting(p) /\ Leads(p, c.id)'
  BY <1>4 DEF StartsWriting, Leads
<1> QED BY <1>4, <1>11, <1>12

LEMMA AtWork ==
  ASSUME IInv, NEW p \in Procs, proc[p].pc # "idle"
  PROVE  /\ proc = [q \in Procs |-> proc[q]] /\ Process(p) /\ Working(proc[p])
         /\ proc[p].id \in DOMAIN disk /\ Dir(proc[p].id) = disk[proc[p].id]
         /\ disk[proc[p].id] \in DirSet(proc[p].id) /\ Complete(proc[p].id)
         /\ Origin(proc[p].id)
BY DEF IInv, Processes, Process, Working, Dir, Directories

\* create_json() succeeded: the process goes on, or has sealed its directory.
LEMMA AfterJsonKept ==
  ASSUME IInv, NEW p \in Procs, AfterJson(p), Grows(p),
         NEW c, c = proc[p], c.pc \in {"check", "dump"},
         disk'[c.id][c.file] = "complete", c.file = "manifest" => disk'[c.id].record = c.record
  PROVE  /\ Others(p) /\ Process(p)' /\ StartsWriting(p) /\ Returns
         /\ c.file # "manifest" => Leads(p, c.id)'
         /\ c.file = "manifest" => Sealed(c.id)'
<1>1. /\ proc = [q \in Procs |-> proc[q]] /\ Process(p) /\ Working(c)
      /\ c.id \in DOMAIN disk /\ c.id \in DOMAIN disk'
  BY AtWork DEF Grows
<1>2. c = [pc |-> c.pc, id |-> c.id, file |-> c.file,
           episode |-> c.episode, value |-> c.value, record |-> c.record]
  BY <1>1 DEF Process
<1>3. /\ disk[c.id].identity = "complete" => disk'[c.id].identity = "complete"
      /\ disk[c.id].normalization = "complete" => disk'[c.id].normalization = "complete"
  BY <1>1 DEF Grows, Files
<1>4. CASE c.file = "identity"
  <2> DEFINE next == [pc |-> "check", id |-> c.id, file |-> "normalization",
                      episode |-> c.episode, value |-> c.value, record |-> c.record]
  <2>1. proc' = [q \in Procs |-> IF q = p THEN next ELSE proc[q]] /\ made' = made
    <3> DEFINE now == [c EXCEPT !.pc = "check", !.file = "normalization"]
    <3>1. proc' = [proc EXCEPT ![p] = now] /\ made' = made
      BY <1>1, <1>4 DEF AfterJson, AfterIdentity
    <3>2. now = next
      <4>1. now = [c EXCEPT !.pc = "check", !.file = "normalization"]
        OBVIOUS
      <4> HIDE DEF now
      <4>2. /\ now.pc = "check" /\ now.id = c.id /\ now.file = "normalization"
            /\ now.episode = c.episode /\ now.value = c.value /\ now.record = c.record
        BY <1>2, <4>1
      <4>3. now = [pc |-> now.pc, id |-> now.id, file |-> now.file, episode |-> now.episode,
                   value |-> now.value, record |-> now.record]
        BY <1>2, <4>1
      <4> QED BY <4>2, <4>3
    <3> HIDE DEF now, next
    <3> QED BY <1>1, <3>1, <3>2
  <2>2. Others(p) /\ proc'[p] = next
    BY <2>1 DEF Others
  <2>3. Working(next)'
    <3>1. c.episode = 1
      BY <1>1, <1>4 DEF Working
    <3>2. Done(next) = {}
      BY <3>1 DEF Done, Episodes
    <3>3. disk'[c.id].identity = "complete"
      BY <1>4
    <3> QED BY <1>1, <3>1, <3>2, <3>3 DEF Working
  <2>4. Process(p)'
    BY <1>1, <2>2, <2>3 DEF Process, Files
  <2> QED BY <1>4, <2>1, <2>2, <2>4 DEF StartsWriting, Returns, Leads
<1>5. CASE c.file = "normalization"
  <2> DEFINE next == [pc |-> "shard", id |-> c.id, file |-> c.file,
                      episode |-> c.episode, value |-> c.value, record |-> c.record]
  <2>1. proc' = [q \in Procs |-> IF q = p THEN next ELSE proc[q]] /\ made' = made
    BY <1>1, <1>2, <1>5 DEF AfterJson
  <2>2. Others(p) /\ proc'[p] = next
    BY <2>1 DEF Others
  <2>3. Working(next)'
    <3>1. c.episode = 1
      BY <1>1, <1>5 DEF Working
    <3>2. Done(next) = {}
      BY <1>5, <3>1 DEF Done, Episodes
    <3>3. disk'[c.id].identity = "complete" /\ disk'[c.id].normalization = "complete"
      BY <1>1, <1>3, <1>5 DEF Working
    <3> QED BY <1>1, <1>5, <3>2, <3>3 DEF Working
  <2>4. Process(p)'
    BY <1>1, <2>2, <2>3 DEF Process
  <2> QED BY <1>5, <2>1, <2>2, <2>4 DEF StartsWriting, Returns, Leads
<1>6. CASE c.file = "manifest"
  <2>1. End(p) /\ made' = made \cup {[identity |-> c.id, record |-> c.record]}
    BY <1>6 DEF AfterJson
  <2>2. Others(p) /\ Process(p)' /\ StartsWriting(p)
    BY <2>1, EndKept
  <2>3. Sealed(c.id)'
    BY <1>1, <1>6 DEF Sealed, Dir
  <2>4. Returns
    <3> SUFFICES ASSUME NEW m \in made' \ made
                 PROVE  Sealed(m.identity)' /\ m.record = disk'[m.identity].record
      BY DEF Returns
    <3>1. m.identity = c.id /\ m.record = c.record
      BY <2>1
    <3> QED BY <1>6, <2>3, <3>1
  <2> QED BY <1>6, <2>2, <2>3, <2>4
<1> QED BY <1>1, <1>4, <1>5, <1>6 DEF Process, Files

-----------------------------------------------------------------------------
(* create_json().                                                          *)

LEMMA CheckKept ==
  ASSUME IInv, NEW p \in Procs, CheckJson(p)
  PROVE  IInv'
<1> PICK c : c = proc[p]
  OBVIOUS
<1>1. c.pc = "check" /\ UNCHANGED <<disk, commands, faults, abandoned>>
  BY DEF CheckJson
<1>2. /\ proc = [q \in Procs |-> proc[q]] /\ Process(p) /\ Working(c)
      /\ c.id \in DOMAIN disk /\ Dir(c.id) = disk[c.id]
      /\ disk[c.id] \in DirSet(c.id) /\ Complete(c.id) /\ Grows(p) /\ c.file \in Files
  BY <1>1, AtWork, QuietGrows DEF Process
<1>3. CASE disk[c.id][c.file] = "absent" /\ proc' = [proc EXCEPT ![p].pc = "open"] /\ UNCHANGED made
  <2> DEFINE next == [pc |-> "open", id |-> c.id, file |-> c.file,
                      episode |-> c.episode, value |-> c.value, record |-> c.record]
  <2>1. proc' = [q \in Procs |-> IF q = p THEN next ELSE proc[q]]
    BY <1>2, <1>3 DEF Process
  <2>2. Others(p) /\ proc'[p] = next
    BY <2>1 DEF Others
  <2>3. Working(next)'
    <3>1. Done(next) = Done(c)
      BY DEF Done
    <3>2. next.pc \in {"check", "open", "dump"}
      OBVIOUS
    <3> QED BY <1>1, <1>2, <3>1, <3>2 DEF Working
  <2>4. Process(p)'
    BY <1>2, <2>2, <2>3 DEF Process
  <2>5. StartsWriting(p) /\ Returns /\ Yields(p)
    BY <1>1, <1>3, <2>2 DEF StartsWriting, Returns, Yields, Leads
  <2> QED BY <1>1, <2>2, <2>4, <2>5, QuietKept
<1>4. CASE disk[c.id][c.file] = "complete" /\ SamePayload(c.id, c.file, c.record) /\ AfterJson(p)
  <2>1. disk'[c.id][c.file] = "complete" /\ (c.file = "manifest" => disk'[c.id].record = c.record)
    BY <1>1, <1>2, <1>4 DEF SamePayload
  <2>2. /\ Others(p) /\ Process(p)' /\ StartsWriting(p) /\ Returns
        /\ c.file # "manifest" => Leads(p, c.id)'
        /\ c.file = "manifest" => Sealed(c.id)'
    BY <1>1, <1>2, <1>4, <2>1, AfterJsonKept
  <2>3. Yields(p)
    BY <2>2 DEF Yields, Leads
  <2> QED BY <1>1, <2>2, <2>3, QuietKept
<1>5. CASE /\ disk[c.id][c.file] = "torn" \/ (disk[c.id][c.file] = "complete" /\ ~ SamePayload(c.id, c.file, c.record))
           /\ End(p) /\ UNCHANGED made
  <2>1. Others(p) /\ Process(p)' /\ StartsWriting(p) /\ Returns
    BY <1>5, EndKept DEF Returns
  <2>2. ASSUME faults = 0, c.id \notin abandoned PROVE Yields(p)
    <3>1. CASE disk[c.id][c.file] = "torn"
      <4>1. PICK q \in Procs : Writes(q, c.id, c.file)
        BY <1>2, <2>2, <3>1 DEF IInv, Undisturbed, Calm
      <4>2. proc'[q] = proc[q]
        BY <1>1, <2>1, <4>1 DEF Writes, Others
      <4>3. Leads(q, c.id)'
        BY <4>1, <4>2 DEF Writes, Leads
      <4> QED BY <4>3 DEF Yields, Leads
    <3>2. CASE disk[c.id][c.file] = "complete" /\ ~ SamePayload(c.id, c.file, c.record)
      <4>1. Sealed(c.id)'
        BY <1>1, <1>2, <3>2 DEF SamePayload, Sealed, Dir
      <4> QED BY <4>1 DEF Yields, Leads
    <3> QED BY <1>5, <3>1, <3>2
  <2>3. ASSUME c.id \in abandoned PROVE Yields(p)
    BY <1>1, <2>3 DEF Yields, Leads
  <2> QED BY <1>1, <2>1, <2>2, <2>3, QuietKept
<1> QED BY <1>2, <1>3, <1>4, <1>5 DEF CheckJson

\* Nothing else changes where one directory of the disk is replaced.
LEMMA ReplaceKept ==
  ASSUME IInv, NEW id \in DOMAIN disk, NEW dir \in DirSet(id), disk' = Update(id, dir),
         dir.manifest = "complete" =>
           /\ dir.identity = "complete" /\ dir.normalization = "complete"
           /\ \A e \in Scope(id) :
                /\ dir.shard[e] # <<>> /\ dir.record[e] # <<>>
                /\ e \notin dir.changed => dir.shard[e] = dir.record[e]
                /\ Derives(id, e, dir.record[e])
  PROVE  Directories' /\ \A j \in DOMAIN disk' : Complete(j)'
<1>1. DOMAIN disk' = DOMAIN disk /\ disk'[id] = dir
  <2>1. DOMAIN disk \cup {id} = DOMAIN disk
    OBVIOUS
  <2> QED BY <2>1, UpdateFacts
<1>2. disk' = [j \in DOMAIN disk' |-> disk'[j]]
  BY UpdateFacts
<1>3. \A j \in DOMAIN disk \ {id} : disk'[j] = disk[j]
  BY UpdateFacts
<1>4. ASSUME NEW j \in DOMAIN disk'
      PROVE  Origin(j) /\ disk'[j] \in DirSet(j)
  BY <1>1, <1>3 DEF IInv, Directories
<1>5. ASSUME NEW j \in DOMAIN disk'
      PROVE  Complete(j)'
  <2>1. CASE j = id
    BY <1>1, <2>1 DEF Complete, Sealed, Dir
  <2>2. CASE j # id
    <3>1. Complete(j) /\ j \in DOMAIN disk /\ disk'[j] = disk[j]
      BY <1>1, <1>3, <2>2 DEF IInv
    <3> QED BY <1>5, <3>1 DEF Complete, Sealed, Dir
  <2> QED BY <2>1, <2>2
<1> QED BY <1>2, <1>4, <1>5 DEF Directories

LEMMA OpenKept ==
  ASSUME IInv, NEW p \in Procs, OpenJson(p)
  PROVE  IInv'
<1> PICK c : c = proc[p]
  OBVIOUS
<1>1. c.pc = "open" /\ UNCHANGED <<commands, faults, abandoned, made>>
  BY DEF OpenJson
<1>2. /\ proc = [q \in Procs |-> proc[q]] /\ Process(p) /\ Working(c)
      /\ c.id \in DOMAIN disk /\ Dir(c.id) = disk[c.id]
      /\ disk[c.id] \in DirSet(c.id) /\ Complete(c.id) /\ c.file \in Files
  BY <1>1, AtWork DEF Process
<1>3. CASE disk[c.id][c.file] # "absent"
  <2>1. End(p) /\ UNCHANGED disk
    BY <1>2, <1>3 DEF OpenJson
  <2>2. Others(p) /\ Process(p)' /\ StartsWriting(p) /\ Returns
    BY <1>1, <2>1, EndKept DEF Returns
  <2>3. Yields(p)
    BY <1>1, <1>3 DEF Yields, Leads
  <2> QED BY <1>1, <2>1, <2>2, <2>3, QuietKept
<1>4. CASE disk[c.id][c.file] = "absent"
  <2> DEFINE next == [pc |-> "dump", id |-> c.id, file |-> c.file,
                      episode |-> c.episode, value |-> c.value, record |-> c.record]
             dir == Wrote(disk[c.id], c.file, "torn")
  <2>1. disk' = Update(c.id, dir) /\ proc' = [q \in Procs |-> IF q = p THEN next ELSE proc[q]]
    BY <1>2, <1>4 DEF OpenJson, Process, Wrote
  <2>2. Others(p) /\ proc'[p] = next
    BY <2>1 DEF Others
  <2>3. /\ dir \in DirSet(c.id) /\ dir[c.file] = "torn"
        /\ \A f \in Files \ {c.file} : dir[f] = disk[c.id][f]
        /\ dir.record = disk[c.id].record /\ dir.shard = disk[c.id].shard
        /\ dir.changed = disk[c.id].changed
    <3>1. "torn" \in FileStates
      BY DEF FileStates
    <3>2. disk[c.id] \in DirSet(c.id) /\ c.file \in Files
      BY <1>2
    <3> QED BY <3>1, <3>2, WriteFile
  <2> HIDE DEF dir
  <2>4. DOMAIN disk' = DOMAIN disk /\ disk'[c.id] = dir /\ \A j \in DOMAIN disk \ {c.id} : disk'[j] = disk[j]
    <3>1. DOMAIN disk \cup {c.id} = DOMAIN disk
      BY <1>2
    <3> QED BY <2>1, <3>1, UpdateFacts
  <2>5. ~ Sealed(c.id) /\ dir.manifest # "complete"
    <3>1. disk[c.id].manifest # "complete"
      BY <1>2, <1>4 DEF Complete, Sealed, Files
    <3>2. dir["manifest"] # "complete"
      BY <2>3, <3>1 DEF Files
    <3> QED BY <1>2, <3>1, <3>2 DEF Sealed
  <2>6. Directories' /\ \A j \in DOMAIN disk' : Complete(j)'
    BY <1>2, <2>1, <2>3, <2>5, ReplaceKept
  <2>7. Grows(p)
    <3> SUFFICES ASSUME NEW id \in DOMAIN disk
                 PROVE /\ \A f \in Files :
                            /\ disk[id][f] = "complete" => disk'[id][f] = "complete"
                            /\ disk[id][f] = "torn" => disk'[id][f] = "torn"
                       /\ disk'[id].shard = disk[id].shard
                       /\ Sealed(id) => disk'[id].record = disk[id].record
                       /\ disk'[id].changed = disk[id].changed
      BY <2>4 DEF Grows
    <3> QED BY <1>4, <2>3, <2>4
  <2>8. Process(p)'
    <3>1. Working(next)'
      <4>1. Done(next) = Done(c)
        BY DEF Done
      <4>2. next.pc \in {"check", "open", "dump"} /\ disk'[c.id][next.file] = "torn"
        BY <2>3, <2>4
      <4>3. /\ c.file # "identity" => disk'[c.id].identity = "complete"
            /\ c.file = "manifest" => disk'[c.id].normalization = "complete"
        BY <1>1, <1>2, <2>3, <2>4 DEF Working, Files
      <4>4. disk'[c.id].shard = disk[c.id].shard
        BY <2>3, <2>4
      <4> QED BY <1>1, <1>2, <2>4, <4>1, <4>2, <4>3, <4>4 DEF Working
    <3> QED BY <1>2, <2>2, <3>1 DEF Process
  <2>9. StartsWriting(p) /\ Returns
    <3>1. ASSUME NEW q \in Procs, Writes(q, c.id, c.file) PROVE FALSE
      <4>1. Working(proc[q])
        BY <3>1, AtWork DEF Writes
      <4> QED BY <1>4, <3>1, <4>1 DEF Working, Writes
    <3> QED BY <1>1, <2>2, <3>1 DEF StartsWriting, Returns
  <2>10. Undisturbed'
    <3>1. Leads(p, c.id)' /\ Writes(p, c.id, c.file)'
      BY <2>2 DEF Leads, Writes
    <3>2. Takes(p) /\ Yields(p)
      <4>1. Takes(p)
        <5>1. \A id \in DOMAIN disk : id = c.id \/ disk'[id] = disk[id]
          BY <2>4
        <5> QED BY <2>3, <2>4, <3>1, <5>1 DEF Takes
      <4>2. Yields(p)
        BY <3>1 DEF Yields, Leads
      <4> QED BY <4>1, <4>2
    <3>3. ASSUME NEW id \in DOMAIN disk
          PROVE  /\ \A f \in Files : disk'[id][f] = "torn" =>
                      Writes(p, id, f)' \/ (disk[id][f] = "torn" /\ ~ Writes(p, id, f))
                 /\ disk'[id].shard = disk[id].shard
      <4>1. CASE id = c.id
        BY <1>1, <2>3, <2>4, <3>1, <4>1 DEF Writes
      <4>2. CASE id # c.id
        BY <1>1, <2>4, <4>2 DEF Writes
      <4> QED BY <4>1, <4>2
    <3>4. faults = 0 => \A id \in DOMAIN disk : Calm(id)'
      BY <1>1, <2>2, <2>7, <3>2, <3>3, CalmKept
    <3> QED BY <1>1, <2>4, <3>4 DEF Undisturbed
  <2>11. Counters'
    BY <1>1 DEF IInv, Counters
  <2> QED BY <1>1, <2>2, <2>6, <2>7, <2>8, <2>9, <2>10, <2>11, StepKept
<1> QED BY <1>3, <1>4

LEMMA DumpKept ==
  ASSUME IInv, NEW p \in Procs, DumpJson(p)
  PROVE  IInv'
<1> PICK c : c = proc[p]
  OBVIOUS
<1>1. c.pc = "dump" /\ UNCHANGED <<commands, faults, abandoned>> /\ AfterJson(p)
  BY DEF DumpJson
<1>2. /\ proc = [q \in Procs |-> proc[q]] /\ Process(p) /\ Working(c)
      /\ c.id \in DOMAIN disk /\ Dir(c.id) = disk[c.id]
      /\ disk[c.id] \in DirSet(c.id) /\ Complete(c.id) /\ c.file \in Files
  BY <1>1, AtWork DEF Process
<1> DEFINE written == Wrote(disk[c.id], c.file, "complete")
           dir == IF c.file = "manifest" THEN [written EXCEPT !.record = c.record] ELSE written
<1>3. disk' = Update(c.id, dir)
  BY <1>2 DEF DumpJson, Wrote
<1>4. /\ written \in DirSet(c.id) /\ written[c.file] = "complete"
      /\ \A f \in Files \ {c.file} : written[f] = disk[c.id][f]
      /\ written.record = disk[c.id].record /\ written.shard = disk[c.id].shard
      /\ written.changed = disk[c.id].changed
  <2>1. "complete" \in FileStates
    BY DEF FileStates
  <2>2. disk[c.id] \in DirSet(c.id) /\ c.file \in Files
    BY <1>2
  <2> QED BY <2>1, <2>2, WriteFile
<1>5. c.record \in [Episodes -> Part(c.id)]
  BY <1>1, <1>2 DEF Working
<1>6. /\ dir \in DirSet(c.id) /\ dir[c.file] = "complete"
      /\ \A f \in Files \ {c.file} : dir[f] = disk[c.id][f]
      /\ dir.shard = disk[c.id].shard /\ dir.changed = disk[c.id].changed
      /\ c.file = "manifest" => dir.record = c.record
  <2> HIDE DEF written
  <2>1. CASE c.file = "manifest"
    <3>1. dir = [written EXCEPT !.record = c.record]
      BY <2>1
    <3> HIDE DEF dir
    <3>2. dir \in DirSet(c.id)
      BY <1>4, <1>5, <3>1 DEF DirSet
    <3>3. \A f \in Files : dir[f] = written[f]
      BY <1>4, <3>1 DEF DirSet, Files
    <3>4. dir.shard = written.shard /\ dir.changed = written.changed /\ dir.record = c.record
      BY <1>4, <3>1 DEF DirSet
    <3> QED BY <1>2, <1>4, <3>2, <3>3, <3>4
  <2>2. CASE c.file # "manifest"
    BY <1>4, <2>2
  <2> QED BY <2>1, <2>2
<1> HIDE DEF written, dir
<1>7. DOMAIN disk' = DOMAIN disk /\ disk'[c.id] = dir /\ \A j \in DOMAIN disk \ {c.id} : disk'[j] = disk[j]
  <2>1. DOMAIN disk \cup {c.id} = DOMAIN disk
    BY <1>2
  <2> QED BY <1>3, <2>1, UpdateFacts
<1>8. disk[c.id][c.file] = "torn" /\ ~ Sealed(c.id)
  <2>1. disk[c.id][c.file] = "torn"
    BY <1>1, <1>2 DEF Working
  <2>2. disk[c.id].manifest # "complete"
    BY <1>2, <2>1 DEF Complete, Sealed, Files
  <2> QED BY <1>2, <2>1, <2>2 DEF Sealed
<1>9. Directories' /\ \A j \in DOMAIN disk' : Complete(j)'
  <2>1. ASSUME dir.manifest = "complete"
        PROVE  /\ dir.identity = "complete" /\ dir.normalization = "complete"
               /\ \A e \in Scope(c.id) :
                    /\ dir.shard[e] # <<>> /\ dir.record[e] # <<>>
                    /\ e \notin dir.changed => dir.shard[e] = dir.record[e]
                    /\ Derives(c.id, e, dir.record[e])
    <3>1. c.file = "manifest"
      <4>1. disk[c.id].manifest # "complete"
        BY <1>2, <1>8 DEF Sealed
      <4> QED BY <1>6, <2>1, <4>1 DEF Files
    <3>2. dir.identity = "complete" /\ dir.normalization = "complete"
      BY <1>2, <1>6, <3>1 DEF Working, Files
    <3>3. ASSUME NEW e \in Scope(c.id)
          PROVE  c.record[e] = disk[c.id].shard[e] /\ c.record[e] # <<>> /\ Derives(c.id, e, c.record[e])
      <4>1. e \in Scope(c.id) \cap Done(c)
        BY <3>1 DEF Done, Scope
      <4> QED BY <1>2, <4>1 DEF Working
    <3> QED BY <1>6, <3>1, <3>2, <3>3
  <2> QED BY <1>2, <1>3, <1>6, <2>1, ReplaceKept
<1>10. Grows(p)
  <2>1. Writes(p, c.id, c.file)
    BY <1>1 DEF Writes
  <2> SUFFICES ASSUME NEW id \in DOMAIN disk
               PROVE /\ \A f \in Files :
                          /\ disk[id][f] = "complete" => disk'[id][f] = "complete"
                          /\ disk[id][f] = "torn" /\ ~ Writes(p, id, f) => disk'[id][f] = "torn"
                     /\ disk'[id].shard = disk[id].shard
                     /\ Sealed(id) => disk'[id].record = disk[id].record
                     /\ disk'[id].changed = disk[id].changed
    BY <1>7 DEF Grows
  <2>2. CASE id = c.id
    BY <1>6, <1>7, <1>8, <2>1, <2>2
  <2>3. CASE id # c.id
    BY <1>7, <2>3
  <2> QED BY <2>2, <2>3
<1>11. /\ Others(p) /\ Process(p)' /\ StartsWriting(p) /\ Returns
       /\ c.file # "manifest" => Leads(p, c.id)'
       /\ c.file = "manifest" => Sealed(c.id)'
  BY <1>1, <1>6, <1>7, <1>10, AfterJsonKept
<1>12. Undisturbed'
  <2>1. Yields(p)
    BY <1>11 DEF Yields, Leads
  <2>2. Takes(p)
    <3>1. \A id \in DOMAIN disk : id = c.id \/ disk'[id] = disk[id]
      BY <1>7
    <3>2. \A f \in Files : disk[c.id][f] = "absent" => dir[f] = "absent"
      BY <1>6, <1>8
    <3> QED BY <1>6, <1>7, <3>1, <3>2 DEF Takes
  <2>3. ASSUME NEW id \in DOMAIN disk
        PROVE  /\ \A f \in Files : disk'[id][f] = "torn" => disk[id][f] = "torn" /\ ~ Writes(p, id, f)
               /\ disk'[id].shard = disk[id].shard
    <3>1. CASE id = c.id
      BY <1>6, <1>7, <3>1 DEF Writes
    <3>2. CASE id # c.id
      BY <1>7, <3>2 DEF Writes
    <3> QED BY <3>1, <3>2
  <2>4. faults = 0 => \A id \in DOMAIN disk : Calm(id)'
    BY <1>1, <1>10, <1>11, <2>1, <2>2, <2>3, CalmKept
  <2> QED BY <1>1, <1>7, <2>4 DEF Undisturbed
<1>13. Counters'
  BY <1>1 DEF IInv, Counters
<1> QED BY <1>1, <1>9, <1>10, <1>11, <1>12, <1>13, StepKept

-----------------------------------------------------------------------------
(* The shards.                                                             *)

LEMMA SkipKept ==
  ASSUME IInv, NEW p \in Procs, SkipEpisode(p)
  PROVE  IInv'
<1> PICK c : c = proc[p]
  OBVIOUS
<1>1. /\ c.pc = "shard" /\ c.episode \notin Scope(c.id) /\ Record(p, <<>>)
      /\ UNCHANGED <<disk, commands, faults, abandoned, made>>
  BY DEF SkipEpisode
<1>2. <<>> \in Part(c.id) /\ Grows(p)
  BY <1>1, QuietGrows DEF Part
<1>3. Others(p) /\ Process(p)' /\ StartsWriting(p) /\ Leads(p, c.id)'
  BY <1>1, <1>2, Recorded
<1>4. Returns /\ Yields(p)
  BY <1>1, <1>3 DEF Returns, Yields, Leads
<1> QED BY <1>1, <1>3, <1>4, QuietKept

\* The shard that is to be linked is known and free.
LEMMA ToLink ==
  ASSUME IInv, NEW p \in Procs, NEW c, c = proc[p], c.pc = "shard", c.episode \in Scope(c.id),
         NEW value \in Part(c.id), value # <<>>, Derives(c.id, c.episode, value),
         disk[c.id].shard[c.episode] = <<>>,
         proc' = [proc EXCEPT ![p].pc = "link", ![p].value = value],
         UNCHANGED <<disk, commands, faults, abandoned, made>>
  PROVE  IInv'
<1>1. /\ proc = [q \in Procs |-> proc[q]] /\ Process(p) /\ Working(c)
      /\ c.id \in DOMAIN disk
  BY AtWork
<1> DEFINE next == [pc |-> "link", id |-> c.id, file |-> c.file,
                    episode |-> c.episode, value |-> value, record |-> c.record]
<1>2. proc' = [q \in Procs |-> IF q = p THEN next ELSE proc[q]]
  <2> DEFINE now == [c EXCEPT !.pc = "link", !.value = value]
  <2>1. now = next
    <3>1. c = [pc |-> c.pc, id |-> c.id, file |-> c.file, episode |-> c.episode,
               value |-> c.value, record |-> c.record]
      BY <1>1 DEF Process
    <3>2. now = [c EXCEPT !.pc = "link", !.value = value]
      OBVIOUS
    <3> HIDE DEF now
    <3>3. /\ now.pc = "link" /\ now.id = c.id /\ now.file = c.file
          /\ now.episode = c.episode /\ now.value = value /\ now.record = c.record
      BY <3>1, <3>2
    <3>4. now = [pc |-> now.pc, id |-> now.id, file |-> now.file, episode |-> now.episode,
                 value |-> now.value, record |-> now.record]
      BY <3>1, <3>2
    <3> QED BY <3>3, <3>4
  <2>2. proc' = [proc EXCEPT ![p] = now]
    BY <1>1
  <2> HIDE DEF now, next
  <2> QED BY <1>1, <2>1, <2>2
<1>3. Others(p) /\ proc'[p] = next
  BY <1>2 DEF Others
<1>4. Working(next)'
  <2>1. Done(next) = Done(c) /\ c.file = "normalization"
    BY <1>1 DEF Done, Working
  <2> QED BY <1>1, <2>1 DEF Working
<1>5. Process(p)'
  BY <1>1, <1>3, <1>4 DEF Process
<1>6. StartsWriting(p) /\ Returns
  BY <1>3 DEF StartsWriting, Returns
<1>7. Leads(p, c.id)'
  BY <1>3 DEF Leads
<1>8. Yields(p)
  BY <1>7 DEF Yields, Leads
<1> QED BY <1>3, <1>5, <1>6, <1>8, QuietKept

LEMMA BuildShardKept ==
  ASSUME IInv, NEW p \in Procs, BuildShard(p)
  PROVE  IInv'
<1> PICK c : c = proc[p]
  OBVIOUS
<1>1. /\ c.pc = "shard" /\ c.id.from = <<>> /\ c.episode \in Scope(c.id)
      /\ UNCHANGED <<disk, commands, faults, abandoned, made>>
  BY DEF BuildShard
<1>2. /\ Process(p) /\ c.id \in DOMAIN disk /\ Dir(c.id) = disk[c.id]
      /\ disk[c.id] \in DirSet(c.id) /\ Origin(c.id) /\ Grows(p)
  BY <1>1, AtWork, QuietGrows
<1>3. \A content : Derives(c.id, c.episode, content)
  BY <1>1 DEF Derives
<1>4. CASE disk[c.id].shard[c.episode] # <<>> /\ Record(p, disk[c.id].shard[c.episode])
  <2>1. disk[c.id].shard[c.episode] \in Part(c.id)
    BY <1>2 DEF Process, DirSet
  <2>2. Others(p) /\ Process(p)' /\ StartsWriting(p) /\ Leads(p, c.id)'
    BY <1>1, <1>2, <1>3, <1>4, <2>1, Recorded
  <2>3. Returns /\ Yields(p)
    BY <1>1, <2>2 DEF Returns, Yields, Leads
  <2> QED BY <1>1, <2>2, <2>3, QuietKept
<1>5. ASSUME disk[c.id].shard[c.episode] = <<>>, NEW f \in Features,
             proc' = [proc EXCEPT ![p].pc = "link", ![p].value = <<f>>]
      PROVE  IInv'
  <2>1. Width(c.id) = 1
    BY <1>1, <1>2 DEF Width, Origin
  <2>2. <<f>> \in Part(c.id) /\ <<f>> # <<>>
    <3>1. <<f>> \in [1..1 -> Features]
      OBVIOUS
    <3> QED BY <2>1, <3>1 DEF Part, Content
  <2> QED BY <1>1, <1>3, <1>5, <2>2, ToLink
<1> QED BY <1>2, <1>4, <1>5 DEF BuildShard

\* Without a fault the sources are as they were recorded.
LEMMA SourcesStand ==
  ASSUME IInv, faults = 0, NEW id \in DOMAIN disk, Fits(id), NEW e \in Scope(id)
  PROVE  SourcesVerified(id, e)
<1> SUFFICES ASSUME id.experiment # "rebound-visible", NEW i \in DOMAIN id.from
             PROVE  Verified(id.from[i], e)
  BY DEF SourcesVerified
<1> DEFINE source == id.from[i].identity
<1>1. Sealed(source) /\ id.from[i].record = disk[source].record
  BY DEF IInv, Undisturbed, Calm
<1>2. source \in DOMAIN disk /\ Complete(source) /\ disk[source].changed = {}
  BY <1>1, SealedOn DEF IInv, Undisturbed, Calm
<1>3. e \in Scope(source)
  BY DEF Fits
<1>4. disk[source].shard[e] = disk[source].record[e]
  BY <1>1, <1>2, <1>3 DEF Complete
<1> QED BY <1>1, <1>2, <1>4 DEF Verified, Dir

\* What is read from verified sources is what they recorded.
LEMMA ReadRecorded ==
  ASSUME NEW id, NEW e, SourcesVerified(id, e)
  PROVE  Read(id, e) = Concatenated(id.from, e)
<1>1. CASE id.experiment = "rebound-visible"
  BY <1>1 DEF Read
<1>2. CASE id.experiment # "rebound-visible"
  <2>1. \A i \in DOMAIN id.from : Dir(id.from[i].identity).shard[e] = id.from[i].record[e]
    BY <1>2 DEF SourcesVerified, Verified
  <2>2. [i \in DOMAIN id.from |-> Dir(id.from[i].identity).shard[e]]
          = [i \in DOMAIN id.from |-> id.from[i].record[e]]
    BY <2>1
  <2> QED BY <1>2, <2>2 DEF Read, Concatenated
<1> QED BY <1>1, <1>2

LEMMA DeriveShardKept ==
  ASSUME IInv, NEW p \in Procs, DeriveShard(p)
  PROVE  IInv'
<1> PICK c : c = proc[p]
  OBVIOUS
<1> DEFINE existing == disk[c.id].shard[c.episode]
           value == Read(c.id, c.episode)
<1>1. /\ c.pc = "shard" /\ c.id.from # <<>> /\ c.episode \in Scope(c.id) /\ Fits(c.id)
      /\ UNCHANGED <<disk, commands, faults, abandoned, made>>
  BY DEF DeriveShard
<1>2. /\ Process(p) /\ c.id \in DOMAIN disk /\ Dir(c.id) = disk[c.id]
      /\ disk[c.id] \in DirSet(c.id) /\ Origin(c.id) /\ Grows(p)
  BY <1>1, AtWork, QuietGrows
<1>3. SourcesVerified(c.id, c.episode) =>
        /\ value = Concatenated(c.id.from, c.episode)
        /\ value \in Part(c.id) /\ value # <<>> /\ Derives(c.id, c.episode, value)
  <2> SUFFICES ASSUME SourcesVerified(c.id, c.episode)
               PROVE  /\ value = Concatenated(c.id.from, c.episode)
                      /\ value \in Part(c.id) /\ value # <<>> /\ Derives(c.id, c.episode, value)
    OBVIOUS
  <2>1. value = Concatenated(c.id.from, c.episode)
    BY ReadRecorded
  <2>2. /\ Concatenated(c.id.from, c.episode) \in Content(c.id)
        /\ Concatenated(c.id.from, c.episode) # <<>>
    BY <1>1, <1>2, ConcatenatedContent
  <2> QED BY <2>1, <2>2 DEF Part, Derives
<1>4. CASE /\ End(p)
           /\ \/ ~ SourcesVerified(c.id, c.episode)
              \/ SourcesVerified(c.id, c.episode) /\ existing # <<>> /\ existing # value
  <2>1. Others(p) /\ Process(p)' /\ StartsWriting(p)
    BY <1>4, EndKept
  <2>2. Returns
    BY <1>1 DEF Returns
  <2>3. faults # 0
    <3> SUFFICES ASSUME faults = 0 PROVE FALSE
      OBVIOUS
    <3>1. SourcesVerified(c.id, c.episode)
      BY <1>1, <1>2, SourcesStand
    <3>2. existing # <<>> /\ existing # value
      BY <1>4, <3>1
    <3>3. Derives(c.id, c.episode, existing)
      BY <1>1, <1>2, <3>2 DEF IInv, Undisturbed, Calm
    <3> QED BY <1>1, <1>3, <3>1, <3>2, <3>3 DEF Derives
  <2> QED BY <1>1, <2>1, <2>2, <2>3, QuietKept
<1>5. CASE /\ SourcesVerified(c.id, c.episode) /\ existing = <<>>
           /\ proc' = [proc EXCEPT ![p].pc = "link", ![p].value = value]
  <2> HIDE DEF value
  <2> QED BY <1>1, <1>3, <1>5, ToLink
<1>6. CASE /\ SourcesVerified(c.id, c.episode) /\ existing # <<>> /\ existing = value
           /\ Record(p, existing)
  <2> HIDE DEF value
  <2>1. Others(p) /\ Process(p)' /\ StartsWriting(p) /\ Leads(p, c.id)'
    BY <1>1, <1>2, <1>3, <1>6, Recorded
  <2>2. Returns /\ Yields(p)
    BY <1>1, <2>1 DEF Returns, Yields, Leads
  <2> QED BY <1>1, <2>1, <2>2, QuietKept
<1> QED BY <1>2, <1>4, <1>5, <1>6 DEF DeriveShard, EqualExisting

LEMMA LinkKept ==
  ASSUME IInv, NEW p \in Procs, LinkShard(p)
  PROVE  IInv'
<1> PICK c : c = proc[p]
  OBVIOUS
<1>1. c.pc = "link" /\ UNCHANGED <<commands, faults, abandoned, made>>
  BY DEF LinkShard
<1>2. /\ Process(p) /\ Working(c) /\ c.id \in DOMAIN disk /\ Dir(c.id) = disk[c.id]
      /\ disk[c.id] \in DirSet(c.id) /\ Complete(c.id) /\ c.episode \in Episodes
  BY <1>1, AtWork DEF Process
<1>3. c.episode \in Scope(c.id) /\ c.value \in Part(c.id) /\ c.value # <<>> /\ Derives(c.id, c.episode, c.value)
  BY <1>1, <1>2 DEF Working
<1>4. CASE disk[c.id].shard[c.episode] # <<>>
  <2>1. End(p) /\ UNCHANGED disk
    BY <1>2, <1>4 DEF LinkShard, LinkFree, Lose
  <2>2. Others(p) /\ Process(p)' /\ StartsWriting(p)
    BY <2>1, EndKept
  <2>3. Returns /\ Yields(p)
    BY <1>1, <1>4 DEF Returns, Yields, Leads
  <2> QED BY <1>1, <2>1, <2>2, <2>3, QuietKept
<1>5. CASE disk[c.id].shard[c.episode] = <<>>
  <2> DEFINE dir == [disk[c.id] EXCEPT !.shard[c.episode] = c.value]
  <2>1. disk' = Update(c.id, dir) /\ Record(p, c.value)
    BY <1>2, <1>5 DEF LinkShard, LinkFree
  <2>2. /\ dir \in DirSet(c.id) /\ \A f \in Files : dir[f] = disk[c.id][f]
        /\ dir.record = disk[c.id].record /\ dir.changed = disk[c.id].changed
        /\ dir.shard = [disk[c.id].shard EXCEPT ![c.episode] = c.value]
    BY <1>2, <1>3 DEF DirSet, Files
  <2>3. /\ dir.shard[c.episode] = c.value
        /\ \A e \in Episodes \ {c.episode} : dir.shard[e] = disk[c.id].shard[e]
    BY <1>2, <2>2 DEF DirSet
  <2> HIDE DEF dir
  <2>4. DOMAIN disk' = DOMAIN disk /\ disk'[c.id] = dir /\ \A j \in DOMAIN disk \ {c.id} : disk'[j] = disk[j]
    <3>1. DOMAIN disk \cup {c.id} = DOMAIN disk
      BY <1>2
    <3> QED BY <2>1, <3>1, UpdateFacts
  <2>5. ~ Sealed(c.id) /\ dir.manifest # "complete"
    <3>1. disk[c.id].manifest # "complete"
      BY <1>2, <1>3, <1>5 DEF Complete, Sealed
    <3>2. dir["manifest"] = disk[c.id]["manifest"]
      BY <2>2 DEF Files
    <3> QED BY <1>2, <3>1, <3>2 DEF Sealed
  <2>6. Directories' /\ \A j \in DOMAIN disk' : Complete(j)'
    BY <1>2, <2>1, <2>2, <2>5, ReplaceKept
  <2>7. Grows(p)
    <3> SUFFICES ASSUME NEW id \in DOMAIN disk
                 PROVE /\ \A f \in Files : disk'[id][f] = disk[id][f]
                       /\ \A e \in Episodes :
                            disk[id].shard[e] # <<>> => disk'[id].shard[e] = disk[id].shard[e]
                       /\ disk'[id].record = disk[id].record
                       /\ disk'[id].changed = disk[id].changed
      BY <2>4 DEF Grows
    <3>1. CASE id = c.id
      BY <1>5, <2>2, <2>3, <2>4, <3>1
    <3>2. CASE id # c.id
      BY <2>4, <3>2
    <3> QED BY <3>1, <3>2
  <2>8. Others(p) /\ Process(p)' /\ StartsWriting(p) /\ Leads(p, c.id)'
    BY <1>1, <1>3, <2>1, <2>3, <2>4, <2>7, Recorded
  <2>9. Returns /\ Yields(p)
    BY <1>1, <2>8 DEF Returns, Yields, Leads
  <2>10. Takes(p)
    <3>1. \A id \in DOMAIN disk : id = c.id \/ disk'[id] = disk[id]
      BY <2>4
    <3> QED BY <2>2, <2>4, <2>8, <3>1 DEF Takes
  <2>11. ASSUME NEW id \in DOMAIN disk
         PROVE  /\ \A f \in Files : disk'[id][f] = "torn" => disk[id][f] = "torn" /\ ~ Writes(p, id, f)
                /\ \A e \in Scope(id) : disk'[id].shard[e] # <<>> =>
                     disk[id].shard[e] # <<>> \/ Derives(id, e, disk'[id].shard[e])
    <3>1. CASE id = c.id
      <4>1. ASSUME NEW e \in Scope(id), disk'[id].shard[e] # <<>>
            PROVE  disk[id].shard[e] # <<>> \/ Derives(id, e, disk'[id].shard[e])
        <5>1. e \in Episodes
          BY DEF Scope
        <5> QED BY <1>3, <2>3, <2>4, <3>1, <4>1, <5>1
      <4> QED BY <1>1, <2>2, <2>4, <3>1, <4>1 DEF Writes
    <3>2. CASE id # c.id
      BY <1>1, <2>4, <3>2 DEF Writes
    <3> QED BY <3>1, <3>2
  <2>12. faults = 0 => \A id \in DOMAIN disk : Calm(id)'
    BY <1>1, <2>7, <2>8, <2>9, <2>10, <2>11, CalmKept
  <2>13. Undisturbed' /\ Counters'
    BY <1>1, <2>4, <2>12 DEF Undisturbed, IInv, Counters
  <2> QED BY <1>1, <2>6, <2>7, <2>8, <2>9, <2>13, StepKept
<1> QED BY <1>4, <1>5

-----------------------------------------------------------------------------
(* Beginning and being killed.                                             *)

\* A command that is killed or refuses its sources gives its directory up.
LEMMA GivenUp ==
  ASSUME IInv, NEW p \in Procs, proc[p].pc # "idle", End(p),
         abandoned' = abandoned \cup {proc[p].id}, UNCHANGED <<disk, commands, faults, made>>
  PROVE  IInv'
<1>1. Others(p) /\ Process(p)' /\ StartsWriting(p) /\ Grows(p)
  BY EndKept, QuietGrows
<1>2. Directories' /\ (\A id \in DOMAIN disk' : Complete(id)') /\ Counters' /\ Returns
  BY DEF IInv, Directories, Complete, Counters, Sealed, Dir, Returns
<1>3. proc[p].id \in DOMAIN disk
  BY AtWork
<1>4. Undisturbed'
  <2> SUFFICES ASSUME faults = 0 PROVE \A id \in DOMAIN disk : Calm(id)'
    BY DEF Undisturbed
  <2>1. Takes(p) /\ Yields(p)
    BY DEF Takes, Yields, Leads
  <2>2. \A id \in DOMAIN disk : id \notin abandoned' => \A f \in Files : ~ Writes(p, id, f)
    BY DEF Writes
  <2> QED BY <1>1, <2>1, <2>2, CalmKept
<1> QED BY <1>1, <1>2, <1>3, <1>4, StepKept

LEMMA KillKept ==
  ASSUME IInv, NEW p \in Procs, Kill(p)
  PROVE  IInv'
BY GivenUp DEF Kill

LEMMA RefuseSourcesKept ==
  ASSUME IInv, NEW p \in Procs, RefuseSources(p)
  PROVE  IInv'
BY GivenUp DEF RefuseSources

LEMMA FreshKnown ==
  ASSUME NEW id
  PROVE  /\ Fresh \in DirSet(id) /\ Fresh.manifest = "absent" /\ Fresh.changed = {}
         /\ \A f \in Files : Fresh[f] = "absent"
         /\ \A e \in Episodes : Fresh.shard[e] = <<>>
<1>1. Empty \in [Episodes -> Part(id)] /\ \A e \in Episodes : Empty[e] = <<>>
  BY DEF Empty, Part
<1> QED BY <1>1 DEF Fresh, DirSet, FileStates, Files

\* A command makes its directory from sources it found sealed.
LEMMA BeginKept ==
  ASSUME IInv, NEW p \in Procs, proc[p].pc = "idle", commands < MaxCommands,
         commands' = commands + 1, UNCHANGED <<faults, abandoned, made>>,
         NEW id, Origin(id), Begin(p, id),
         \A i \in DOMAIN id.from : /\ Sealed(id.from[i].identity)
                                   /\ id.from[i].record = disk[id.from[i].identity].record
  PROVE  IInv'
<1> DEFINE next == [pc |-> "check", id |-> id, file |-> "identity",
                    episode |-> 1, value |-> <<>>, record |-> Empty]
<1>1. proc = [q \in Procs |-> proc[q]] /\ disk = [j \in DOMAIN disk |-> disk[j]]
  BY DEF IInv, Processes, Directories
<1>2. proc' = [q \in Procs |-> IF q = p THEN next ELSE proc[q]]
  <2>1. [Idle EXCEPT !.pc = "check", !.id = id] = next
    <3> DEFINE now == [Idle EXCEPT !.pc = "check", !.id = id]
    <3>1. /\ Idle.file = "identity" /\ Idle.episode = 1 /\ Idle.value = <<>> /\ Idle.record = Empty
          /\ Idle = [pc |-> Idle.pc, id |-> Idle.id, file |-> Idle.file, episode |-> Idle.episode,
                     value |-> Idle.value, record |-> Idle.record]
      BY DEF Idle
    <3>2. now = [Idle EXCEPT !.pc = "check", !.id = id]
      OBVIOUS
    <3> HIDE DEF now
    <3>3. /\ now.pc = "check" /\ now.id = id /\ now.file = Idle.file
          /\ now.episode = Idle.episode /\ now.value = Idle.value /\ now.record = Idle.record
      BY <3>1, <3>2
    <3>4. now = [pc |-> now.pc, id |-> now.id, file |-> now.file, episode |-> now.episode,
                 value |-> now.value, record |-> now.record]
      BY <3>1, <3>2
    <3> QED BY <3>1, <3>2, <3>3, <3>4
  <2>2. proc' = [proc EXCEPT ![p] = [Idle EXCEPT !.pc = "check", !.id = id]]
    BY DEF Begin
  <2> HIDE DEF next
  <2> QED BY <1>1, <2>1, <2>2
<1>3. Others(p) /\ proc'[p] = next
  BY <1>2 DEF Others
<1>4. /\ DOMAIN disk' = DOMAIN disk \cup {id} /\ disk'[id] = Dir(id)
      /\ disk' = [j \in DOMAIN disk' |-> disk'[j]]
      /\ \A j \in DOMAIN disk : disk'[j] = disk[j]
  <2>1. disk' = Update(id, Dir(id))
    BY DEF Begin
  <2>2. /\ DOMAIN disk' = DOMAIN disk \cup {id} /\ disk'[id] = Dir(id)
        /\ disk' = [j \in DOMAIN disk' |-> disk'[j]]
        /\ \A j \in DOMAIN disk \ {id} : disk'[j] = disk[j]
    BY <2>1, UpdateFacts
  <2>3. id \in DOMAIN disk => disk'[id] = disk[id]
    BY <2>2 DEF Dir
  <2> QED BY <2>2, <2>3
<1>5. Grows(p)
  BY <1>4 DEF Grows
<1>6. Directories'
  <2>1. ASSUME NEW j \in DOMAIN disk' PROVE Origin(j) /\ disk'[j] \in DirSet(j)
    <3>1. CASE j \in DOMAIN disk
      BY <1>4, <3>1 DEF IInv, Directories
    <3>2. CASE j \notin DOMAIN disk
      <4>1. j = id /\ disk'[j] = Fresh
        BY <1>4, <2>1, <3>2 DEF Dir
      <4> QED BY <4>1, FreshKnown
    <3> QED BY <3>1, <3>2
  <2> QED BY <1>4, <2>1 DEF Directories
<1>7. ASSUME NEW j \in DOMAIN disk' PROVE Complete(j)'
  <2>1. CASE j \in DOMAIN disk
    <3>1. Complete(j) /\ disk'[j] = disk[j]
      BY <1>4, <2>1 DEF IInv
    <3> QED BY <1>7, <2>1, <3>1 DEF Complete, Sealed, Dir
  <2>2. CASE j \notin DOMAIN disk
    <3>1. disk'[j] = Fresh
      BY <1>4, <1>7, <2>2 DEF Dir
    <3>2. ~ Sealed(j)'
      BY <1>7, <3>1, FreshKnown DEF Sealed, Dir
    <3> QED BY <3>2 DEF Complete
  <2> QED BY <2>1, <2>2
<1>8. Process(p)'
  <2>1. Working(next)'
    <3>1. Done(next) = {}
      BY DEF Done, Episodes
    <3>2. <<>> \in Part(id) /\ Empty \in [Episodes -> Part(id)] /\ id \in DOMAIN disk'
      BY <1>4 DEF Part, Empty
    <3> QED BY <3>1, <3>2 DEF Working
  <2> QED BY <1>3, <2>1, OneIsEpisode DEF Process, Files
<1>9. StartsWriting(p) /\ Returns
  BY <1>3 DEF StartsWriting, Returns
<1>10. Counters'
  BY CacheAssumption DEF IInv, Counters
<1>11. Undisturbed'
  <2> SUFFICES ASSUME faults = 0, NEW j \in DOMAIN disk' PROVE Calm(j)'
    BY DEF Undisturbed
  <2>1. CASE j \in DOMAIN disk
    <3>1. Takes(p) /\ Yields(p)
      BY <1>4 DEF Takes, Yields, Leads
    <3>2. \A i \in DOMAIN disk : disk'[i] = disk[i] /\ \A f \in Files : ~ Writes(p, i, f)
      BY <1>4 DEF Writes
    <3>3. \A i \in DOMAIN disk : Calm(i)'
      BY <1>3, <1>5, <3>1, <3>2, CalmKept
    <3> QED BY <2>1, <3>3
  <2>2. CASE j \notin DOMAIN disk
    <3>1. j = id /\ disk'[j] = Fresh
      BY <1>4, <2>2 DEF Dir
    <3>2. Leads(p, j)'
      BY <1>3, <3>1 DEF Leads
    <3>3. \A i \in DOMAIN j.from : /\ Sealed(j.from[i].identity)'
                                   /\ j.from[i].record = disk'[j.from[i].identity].record
      BY <1>5, <3>1, SealedStays
    <3>4. /\ disk'[j].changed = {} /\ \A f \in Files : disk'[j][f] # "torn"
          /\ \A e \in Scope(j) : disk'[j].shard[e] = <<>>
      BY <3>1, FreshKnown DEF Scope
    <3> QED BY <3>2, <3>3, <3>4 DEF Calm
  <2> QED BY <2>1, <2>2
<1> QED BY <1>3, <1>5, <1>6, <1>7, <1>8, <1>9, <1>10, <1>11, StepKept

\* A command that is refused leaves nothing behind.
LEMMA RefuseKept ==
  ASSUME IInv, commands < MaxCommands, commands' = commands + 1,
         UNCHANGED <<disk, proc, faults, abandoned, made>>
  PROVE  IInv'
<1>1. Counters'
  BY CacheAssumption DEF IInv, Counters
<1>2. Directories' /\ (\A id \in DOMAIN disk' : Complete(id)') /\ Returned'
  BY DEF IInv, Directories, Complete, Returned, Sealed, Dir
<1>3. Processes' /\ OneWriter'
  BY DEF IInv, Processes, Process, Working, OneWriter, Writes
<1>4. Undisturbed' /\ Known'
  BY DEF IInv, Known, Undisturbed, Calm, Leads, Writes, Sealed, Dir
<1> QED BY <1>1, <1>2, <1>3, <1>4 DEF IInv

\* A manifest found sealed records a complete shard of every episode.
LEMMA SealedFull ==
  ASSUME IInv, NEW id, Sealed(id)
  PROVE  /\ Full(Manifest(id)) /\ Manifest(id).identity = id
         /\ Manifest(id).record = disk[id].record /\ Origin(id)
<1>1. id \in DOMAIN disk /\ Dir(id) = disk[id]
  BY SealedOn DEF Dir
<1>2. Complete(id) /\ Origin(id) /\ disk[id] \in DirSet(id)
  BY <1>1 DEF IInv, Directories
<1>3. Manifest(id).identity = id /\ Manifest(id).record = disk[id].record
  BY <1>1 DEF Manifest
<1>4. ASSUME NEW e \in Scope(id) PROVE disk[id].record[e] \in Content(id)
  <2>1. disk[id].record[e] # <<>>
    BY <1>2 DEF Complete
  <2>2. disk[id].record[e] \in Part(id)
    BY <1>2 DEF DirSet, Scope
  <2> QED BY <2>1, <2>2 DEF Part
<1> QED BY <1>2, <1>3, <1>4 DEF Full

LEMMA BuildKept ==
  ASSUME IInv, NEW p \in Procs, NEW name \in Commands, Build(p, name)
  PROVE  IInv'
<1> DEFINE id == Identity(name, <<>>)
<1>1. /\ name \in {"global", "spatial", "visible"} /\ id.experiment = name /\ id.from = <<>>
      /\ id = Identity(id.experiment, id.from)
  BY DEF Build, Identity
<1>2. Origin(id)
  <2> HIDE DEF id
  <2> QED BY <1>1 DEF Origin, Experiments
<1>3. \A i \in DOMAIN id.from : FALSE
  BY <1>1
<1> HIDE DEF id
<1>4. Start(p) /\ Begin(p, id)
  BY DEF Build, id
<1> QED BY <1>2, <1>3, <1>4, BeginKept DEF Start

LEMMA DeriveKept ==
  ASSUME IInv, NEW p \in Procs, NEW source, Derive(p, source)
  PROVE  IInv'
<1> DEFINE m == Manifest(source)
           id == Identity("rebound", <<m>>)
<1>1. Start(p) /\ source.experiment \in {"combined", "visible"}
  BY DEF Derive
<1>2. CASE ~ Sealed(source)
  BY <1>1, <1>2, RefuseKept DEF Derive, Refuse, Start
<1>3. CASE Sealed(source)
  <2>1. Begin(p, id)
    BY <1>3 DEF Derive
  <2>2. Full(m) /\ m.identity = source /\ m.record = disk[source].record
    BY <1>3, SealedFull
  <2> HIDE DEF m
  <2>3. /\ id.experiment = "rebound" /\ id.from = <<m>> /\ id.from[1] = m
        /\ id = Identity(id.experiment, id.from)
    BY DEF Identity
  <2> HIDE DEF id
  <2>4. Origin(id)
    BY <1>1, <2>2, <2>3 DEF Origin, Experiments
  <2>5. \A i \in DOMAIN id.from : id.from[i] = m
    BY <2>3
  <2> QED BY <1>1, <1>3, <2>1, <2>2, <2>4, <2>5, BeginKept DEF Start
<1> QED BY <1>2, <1>3

LEMMA DeriveVisibleKept ==
  ASSUME IInv, NEW p \in Procs, NEW source, DeriveVisible(p, source)
  PROVE  IInv'
<1> DEFINE m == Manifest(source)
           id == Identity("rebound-visible", <<m>>)
           verified == Sealed(source) /\ \A e \in Scope(source) : Verified(m, e)
<1>1. Start(p) /\ source.experiment = "visible"
  BY DEF DeriveVisible
<1>2. CASE ~ verified
  <2>1. Refuse("rebound-visible")
    BY <1>2 DEF DeriveVisible
  <2> QED BY <1>1, <2>1, RefuseKept DEF Refuse, Start
<1>3. CASE verified
  <2>1. Begin(p, id)
    BY <1>3 DEF DeriveVisible
  <2>2. Full(m) /\ m.identity = source /\ m.record = disk[source].record
    BY <1>3, SealedFull
  <2> HIDE DEF m
  <2>3. /\ id.experiment = "rebound-visible" /\ id.from = <<m>> /\ id.from[1] = m
        /\ id = Identity(id.experiment, id.from)
    BY DEF Identity
  <2> HIDE DEF id
  <2>4. Origin(id)
    BY <1>1, <2>2, <2>3 DEF Origin, Experiments
  <2>5. \A i \in DOMAIN id.from : id.from[i] = m
    BY <2>3
  <2> QED BY <1>1, <1>3, <2>1, <2>2, <2>4, <2>5, BeginKept DEF Start
<1> QED BY <1>2, <1>3

LEMMA ComposeKept ==
  ASSUME IInv, NEW p \in Procs, NEW first, Compose(p, first)
  PROVE  IInv'
<1> DEFINE sources == <<first, Identity("spatial", <<>>)>>
           m == Manifest(sources[1])
           n == Manifest(sources[2])
           from == [i \in 1..2 |-> Manifest(sources[i])]
           id == Identity("combined", from)
<1>1. /\ Start(p) /\ sources[1].experiment \in {"global", "visible"} /\ sources[2].experiment = "spatial"
  BY DEF Compose, Identity
<1>2. CASE ~ \A i \in 1..2 : Sealed(sources[i])
  <2>1. Refuse("combined")
    BY <1>2 DEF Compose
  <2> QED BY <1>1, <2>1, RefuseKept DEF Refuse, Start
<1>3. CASE \A i \in 1..2 : Sealed(sources[i])
  <2>1. Begin(p, id)
    BY <1>3 DEF Compose
  <2> HIDE DEF sources
  <2>2. /\ Full(m) /\ m.identity = sources[1] /\ m.record = disk[sources[1]].record
        /\ Full(n) /\ n.identity = sources[2] /\ n.record = disk[sources[2]].record
    BY <1>3, SealedFull
  <2>3. from = <<m, n>>
    OBVIOUS
  <2> HIDE DEF m, n, from
  <2>4. /\ id.experiment = "combined" /\ id.from = <<m, n>>
        /\ id.from[1] = m /\ id.from[2] = n
        /\ id = Identity(id.experiment, id.from)
    BY <2>3 DEF Identity
  <2> HIDE DEF id
  <2>5. Origin(id)
    BY <1>1, <2>2, <2>4 DEF Origin, Experiments
  <2>6. \A i \in DOMAIN id.from : id.from[i] = m \/ id.from[i] = n
    BY <2>4
  <2> QED BY <1>1, <1>3, <2>1, <2>2, <2>5, <2>6, BeginKept DEF Start
<1> QED BY <1>2, <1>3

-----------------------------------------------------------------------------
(* Faults at rest.                                                         *)

LEMMA ContentLength ==
  ASSUME NEW S, NEW n \in Nat, NEW content \in [1..n -> S]
  PROVE  Len(content) = n
<1>1. content \in Seq(S) /\ DOMAIN content = 1..n
  OBVIOUS
<1>2. Len(content) \in Nat /\ DOMAIN content = 1..Len(content)
  BY <1>1, LenProperties
<1> QED BY <1>1, <1>2

\* With all processes idle their knowledge rests on nothing on the disk.
LEMMA RestKept ==
  ASSUME IInv, AtRest, UNCHANGED proc
  PROVE  Processes' /\ OneWriter'
<1>1. Processes'
  BY DEF IInv, Processes, Process, AtRest
<1>2. OneWriter'
  BY DEF AtRest, OneWriter
<1> QED BY <1>1, <1>2

LEMMA FaultKept ==
  ASSUME IInv, Fault
  PROVE  Processes' /\ OneWriter' /\ Counters' /\ Undisturbed'
<1>1. AtRest /\ UNCHANGED proc /\ faults' # 0
  BY DEF Fault, IInv, Counters
<1>2. Counters'
  BY CacheAssumption DEF IInv, Counters, Fault
<1>3. Undisturbed'
  BY <1>1 DEF Undisturbed
<1> QED BY <1>1, <1>2, <1>3, RestKept

LEMMA ChangeKept ==
  ASSUME IInv, NEW id \in DOMAIN disk, NEW e \in Episodes, Change(id, e)
  PROVE  IInv'
<1>1. Fault /\ UNCHANGED <<abandoned, made>> /\ disk[id].shard[e] # <<>> /\ Dir(id) = disk[id]
  BY DEF Change, Dir
<1> PICK other \in [1..Len(Dir(id).shard[e]) -> Features] \ {Dir(id).shard[e]} :
      disk' = Update(id, [Dir(id) EXCEPT !.shard[e] = other,
                            !.changed = IF Sealed(id) THEN @ \cup {e} ELSE @])
  BY DEF Change
<1> DEFINE changed == IF Sealed(id) THEN disk[id].changed \cup {e} ELSE disk[id].changed
           dir == [disk[id] EXCEPT !.shard[e] = other, !.changed = changed]
<1>2. disk' = Update(id, dir)
  BY <1>1
<1>3. disk[id] \in DirSet(id) /\ Complete(id)
  BY DEF IInv, Directories
<1>4. other \in Content(id) /\ other # <<>>
  <2>1. disk[id].shard[e] \in [1..Width(id) -> Features] /\ Width(id) \in Nat
    BY <1>1, <1>3 DEF DirSet, Part, Content, Width
  <2>2. Len(disk[id].shard[e]) = Width(id)
    BY <2>1, ContentLength
  <2>3. other \in Content(id)
    BY <1>1, <2>2 DEF Content
  <2> QED BY <2>3, ContentFull
<1>5. changed \in SUBSET Episodes
  BY <1>3 DEF DirSet
<1>6. /\ dir \in DirSet(id) /\ dir.manifest = disk[id].manifest
      /\ dir.identity = disk[id].identity /\ dir.normalization = disk[id].normalization
      /\ dir.record = disk[id].record /\ dir.changed = changed
      /\ dir.shard = [disk[id].shard EXCEPT ![e] = other]
  <2> HIDE DEF changed
  <2> QED BY <1>3, <1>4, <1>5 DEF DirSet, Part
<1>7. dir.shard[e] = other /\ \A g \in Episodes \ {e} : dir.shard[g] = disk[id].shard[g]
  BY <1>3, <1>6 DEF DirSet
<1> HIDE DEF dir
<1>8. Directories' /\ \A j \in DOMAIN disk' : Complete(j)'
  <2>1. ASSUME dir.manifest = "complete", NEW g \in Scope(id)
        PROVE  /\ dir.shard[g] # <<>> /\ dir.record[g] # <<>>
               /\ g \notin dir.changed => dir.shard[g] = dir.record[g]
               /\ Derives(id, g, dir.record[g])
    <3>1. Sealed(id) /\ g \in Episodes
      BY <1>6, <2>1, SealedOn DEF Scope
    <3>2. /\ disk[id].shard[g] # <<>> /\ disk[id].record[g] # <<>>
          /\ g \notin disk[id].changed => disk[id].shard[g] = disk[id].record[g]
          /\ Derives(id, g, disk[id].record[g])
      BY <1>3, <3>1 DEF Complete
    <3>3. CASE g = e
      BY <1>4, <1>6, <1>7, <3>1, <3>2, <3>3
    <3>4. CASE g # e
      BY <1>6, <1>7, <3>1, <3>2, <3>4
    <3> QED BY <3>3, <3>4
  <2>2. dir.manifest = "complete" => dir.identity = "complete" /\ dir.normalization = "complete"
    BY <1>3, <1>6, SealedOn DEF Complete
  <2> QED BY <1>2, <1>6, <2>1, <2>2, ReplaceKept
<1>9. Returned'
  <2> SUFFICES ASSUME NEW m \in made
               PROVE  Sealed(m.identity)' /\ m.record = disk'[m.identity].record
    BY <1>1 DEF Returned
  <2>1. Sealed(m.identity) /\ m.record = disk[m.identity].record
    BY DEF IInv, Returned
  <2>2. m.identity \in DOMAIN disk /\ disk[m.identity].manifest = "complete"
    BY <2>1, SealedOn
  <2>3. m.identity \in DOMAIN disk' /\ disk'[id] = dir /\ \A j \in DOMAIN disk \ {id} : disk'[j] = disk[j]
    BY <1>2, <2>2, UpdateFacts
  <2>4. disk'[m.identity].manifest = "complete" /\ disk'[m.identity].record = disk[m.identity].record
    BY <1>6, <2>2, <2>3
  <2> QED BY <2>1, <2>3, <2>4 DEF Sealed, Dir
<1>10. Known'
  <2>1. DOMAIN disk' = DOMAIN disk \cup {id}
    BY <1>2, UpdateFacts
  <2> QED BY <1>1, <2>1 DEF IInv, Known
<1> QED BY <1>1, <1>8, <1>9, <1>10, FaultKept DEF IInv

LEMMA RemoveKept ==
  ASSUME IInv, NEW id \in DOMAIN disk, RemoveCache(id)
  PROVE  IInv'
<1>1. /\ Fault /\ made' = {m \in made : m.identity # id} /\ abandoned' = abandoned \ {id}
      /\ disk' = [j \in DOMAIN disk \ {id} |-> disk[j]]
  BY DEF RemoveCache, Restrict
<1>2. DOMAIN disk' = DOMAIN disk \ {id} /\ \A j \in DOMAIN disk' : disk'[j] = disk[j]
  BY <1>1
<1>3. Directories'
  BY <1>1, <1>2 DEF IInv, Directories
<1>4. ASSUME NEW j \in DOMAIN disk' PROVE Complete(j)'
  <2>1. Complete(j) /\ disk'[j] = disk[j] /\ j \in DOMAIN disk
    BY <1>2, <1>4 DEF IInv
  <2> QED BY <1>4, <2>1 DEF Complete, Sealed, Dir
<1>5. Returned'
  <2> SUFFICES ASSUME NEW m \in made, m.identity # id
               PROVE  Sealed(m.identity)' /\ m.record = disk'[m.identity].record
    BY <1>1 DEF Returned
  <2>1. Sealed(m.identity) /\ m.record = disk[m.identity].record
    BY DEF IInv, Returned
  <2>2. m.identity \in DOMAIN disk' /\ disk'[m.identity] = disk[m.identity]
        /\ disk[m.identity].manifest = "complete"
    BY <1>2, <2>1, SealedOn
  <2> QED BY <2>1, <2>2 DEF Sealed, Dir
<1>6. Known'
  BY <1>1, <1>2 DEF IInv, Known
<1> QED BY <1>1, <1>3, <1>4, <1>5, <1>6, FaultKept DEF IInv

-----------------------------------------------------------------------------
(* The theorems.                                                           *)

LEMMA IInvInit == Init => IInv
<1> SUFFICES ASSUME Init PROVE IInv
  OBVIOUS
<1>1. DOMAIN disk = {} /\ disk = [id \in DOMAIN disk |-> disk[id]]
  BY DEF Init
<1>2. \A p \in Procs : proc[p] = Idle
  BY DEF Init
<1>3. Processes
  <2>1. \A p \in Procs : Process(p)
    BY <1>2, OneIsEpisode DEF Process, Idle, Files
  <2> QED BY <2>1 DEF Processes, Init
<1>4. OneWriter
  BY <1>2 DEF OneWriter, Idle
<1>5. Directories /\ (\A id \in DOMAIN disk : Complete(id)) /\ Undisturbed
  BY <1>1 DEF Directories, Undisturbed
<1>6. Returned /\ Known
  BY DEF Init, Returned, Known
<1>7. Counters
  <2>1. commands = 0 /\ faults = 0
    BY DEF Init
  <2>2. 0 \in 0..MaxCommands /\ 0 \in 0..MaxFaults
    BY CacheAssumption
  <2> QED BY <2>1, <2>2 DEF Counters
<1> QED BY <1>3, <1>4, <1>5, <1>6, <1>7 DEF IInv

LEMMA IInvStep == IInv /\ [Next]_vars => IInv'
<1> SUFFICES ASSUME IInv, [Next]_vars PROVE IInv'
  OBVIOUS
<1>1. ASSUME NEW p \in Procs, NEW name \in Commands, Build(p, name) PROVE IInv'
  BY <1>1, BuildKept
<1>2. ASSUME NEW p \in Procs, NEW id \in DOMAIN disk, Compose(p, id) PROVE IInv'
  BY <1>2, ComposeKept
<1>3. ASSUME NEW p \in Procs, NEW id \in DOMAIN disk, Derive(p, id) \/ DeriveVisible(p, id)
      PROVE  IInv'
  BY <1>3, DeriveKept, DeriveVisibleKept
<1>4. ASSUME NEW p \in Procs, Step(p) PROVE IInv'
  <2>1. CASE CheckJson(p)
    BY <2>1, CheckKept
  <2>2. CASE OpenJson(p)
    BY <2>2, OpenKept
  <2>3. CASE DumpJson(p)
    BY <2>3, DumpKept
  <2>4. CASE SkipEpisode(p)
    BY <2>4, SkipKept
  <2>5. CASE BuildShard(p)
    BY <2>5, BuildShardKept
  <2>6. CASE DeriveShard(p)
    BY <2>6, DeriveShardKept
  <2>7. CASE LinkShard(p)
    BY <2>7, LinkKept
  <2>8. CASE RefuseSources(p)
    BY <2>8, RefuseSourcesKept
  <2> QED BY <1>4, <2>1, <2>2, <2>3, <2>4, <2>5, <2>6, <2>7, <2>8 DEF Step
<1>5. ASSUME NEW p \in Procs, Kill(p) PROVE IInv'
  BY <1>5, KillKept
<1>6. ASSUME NEW id \in DOMAIN disk, NEW e \in Episodes, Change(id, e) PROVE IInv'
  BY <1>6, ChangeKept
<1>7. ASSUME NEW id \in DOMAIN disk, RemoveCache(id) PROVE IInv'
  BY <1>7, RemoveKept
<1>8. CASE UNCHANGED vars
  <2>1. UNCHANGED <<disk, proc, commands, faults, abandoned, made>>
    BY <1>8 DEF vars
  <2>2. Directories' /\ (\A id \in DOMAIN disk' : Complete(id)') /\ Returned' /\ Counters'
    BY <2>1 DEF IInv, Directories, Complete, Returned, Counters, Sealed, Dir
  <2>3. Processes' /\ OneWriter'
    BY <2>1 DEF IInv, Processes, Process, Working, OneWriter, Writes
  <2>4. Undisturbed' /\ Known'
    BY <2>1 DEF IInv, Known, Undisturbed, Calm, Leads, Writes, Sealed, Dir
  <2> QED BY <2>2, <2>3, <2>4 DEF IInv
<1> QED BY <1>1, <1>2, <1>3, <1>4, <1>5, <1>6, <1>7, <1>8 DEF Next

\* What the directories hold and the racing commands know of them is kept by
\* every step, kill and fault.
THEOREM Inductive == Spec => []IInv
BY IInvInit, IInvStep, PTL DEF Spec

LEMMA PartContents ==
  ASSUME NEW id
  PROVE  Part(id) \subseteq Contents
<1>1. Width(id) \in 0..2
  BY DEF Width
<1>2. Content(id) \subseteq Contents
  BY <1>1 DEF Content, Contents
<1>3. <<>> \in [1..0 -> Features]
  OBVIOUS
<1>4. 0 \in 0..2
  OBVIOUS
<1>5. <<>> \in Contents
  BY <1>3, <1>4 DEF Contents
<1> QED BY <1>2, <1>5 DEF Part

LEMMA IInvTypes == IInv => TypeOK
<1> SUFFICES ASSUME IInv PROVE TypeOK
  OBVIOUS
<1>1. ASSUME NEW id \in DOMAIN disk
      PROVE  /\ id.experiment \in Experiments /\ Len(id.from) <= 2
             /\ disk[id] \in [identity : {"absent", "torn", "complete"},
                              normalization : {"absent", "torn", "complete"},
                              manifest : {"absent", "torn", "complete"},
                              record : [Episodes -> Contents], shard : [Episodes -> Contents],
                              changed : SUBSET Episodes]
             /\ Sealed(id) => /\ disk[id].identity = "complete"
                              /\ disk[id].normalization = "complete"
  <2>1. Origin(id) /\ disk[id] \in DirSet(id) /\ Complete(id)
    BY DEF IInv, Directories
  <2>2. Len(id.from) <= 2
    <3>1. CASE id.experiment \in {"global", "spatial", "visible"}
      BY <2>1, <3>1 DEF Origin
    <3>2. CASE id.experiment = "combined"
      <4>1. PICK a, b : id.from = <<a, b>>
        BY <2>1, <3>2 DEF Origin
      <4> QED BY <4>1
    <3>3. CASE id.experiment \in {"rebound", "rebound-visible"}
      <4>1. PICK a : id.from = <<a>>
        BY <2>1, <3>3 DEF Origin
      <4> QED BY <4>1
    <3> QED BY <2>1, <3>1, <3>2, <3>3 DEF Origin, Experiments
  <2>3. id.experiment \in Experiments
    BY <2>1 DEF Origin
  <2>4. Sealed(id) => disk[id].identity = "complete" /\ disk[id].normalization = "complete"
    BY <2>1 DEF Complete
  <2>5. disk[id] \in [identity : {"absent", "torn", "complete"},
                      normalization : {"absent", "torn", "complete"},
                      manifest : {"absent", "torn", "complete"},
                      record : [Episodes -> Contents], shard : [Episodes -> Contents],
                      changed : SUBSET Episodes]
    BY <2>1, PartContents DEF DirSet, FileStates
  <2> QED BY <2>2, <2>3, <2>4, <2>5
<1>2. ASSUME NEW p \in Procs
      PROVE  /\ proc[p].pc \in {"idle", "check", "open", "dump", "shard", "link"}
             /\ proc[p].pc # "idle" => proc[p].id \in DOMAIN disk
             /\ proc[p].episode \in Episodes /\ proc[p].value \in Contents
             /\ proc[p].record \in [Episodes -> Contents]
  <2>1. Process(p)
    BY DEF IInv, Processes
  <2>2. CASE proc[p].pc = "idle"
    <3>1. <<>> \in Contents
      BY PartContents DEF Part
    <3>2. Empty \in [Episodes -> Contents]
      BY <3>1 DEF Empty
    <3> QED BY <2>1, <2>2, <3>1, <3>2 DEF Process, Idle
  <2>3. CASE proc[p].pc # "idle"
    BY <2>1, <2>3, PartContents DEF Process, Working
  <2> QED BY <2>2, <2>3
<1>3. commands \in 0..MaxCommands /\ faults \in 0..MaxFaults /\ abandoned \subseteq DOMAIN disk
  BY DEF IInv, Counters, Known
<1> QED BY <1>1, <1>2, <1>3 DEF TypeOK

\* The directories and the processes have the shapes the code gives them, for
\* any number of racing commands, episodes and faults.
THEOREM TypeCorrect == Spec => []TypeOK
BY Inductive, IInvTypes, PTL

\* The manifest of a sealed cache names shards that are there as recorded,
\* those changed at rest excepted, and every command that returned 0 recorded
\* the same.
THEOREM SealedIsTrue == Spec => []ManifestIsTrue
<1>1. ASSUME IInv PROVE ManifestIsTrue
  <2>1. ASSUME NEW id \in DOMAIN disk, Sealed(id), NEW e \in Scope(id) \ disk[id].changed
        PROVE  disk[id].shard[e] # <<>> /\ disk[id].shard[e] = disk[id].record[e]
    BY <1>1, <2>1 DEF IInv, Complete
  <2>2. ASSUME NEW m \in made
        PROVE  Sealed(m.identity) /\ m.record = Dir(m.identity).record
    BY <1>1, SealedOn DEF IInv, Returned, Dir
  <2> QED BY <2>1, <2>2 DEF ManifestIsTrue
<1> QED BY <1>1, Inductive, PTL

\* A derived cache records, and CachedFeatureDataset loads from it, what its
\* sources had recorded when it was made, whatever happens to them later.
THEOREM DerivedFromSources == Spec => []Provenance
<1>1. ASSUME IInv PROVE Provenance
  <2> SUFFICES ASSUME NEW id \in DOMAIN disk, id.from # <<>>, NEW e \in Scope(id)
               PROVE  /\ Sealed(id) => disk[id].record[e] = Concatenated(id.from, e)
                      /\ Loads(id) => disk[id].shard[e] = Concatenated(id.from, e)
    BY DEF Provenance
  <2>1. Sealed(id) => disk[id].record[e] = Concatenated(id.from, e)
    BY <1>1 DEF IInv, Complete, Derives
  <2>2. Loads(id) => Sealed(id) /\ disk[id].shard[e] = disk[id].record[e]
    BY DEF Loads, Verified, Manifest, Dir
  <2> QED BY <2>1, <2>2
<1> QED BY <1>1, Inductive, PTL

\* Racing commands never end each other all: as long as nothing changed at rest,
\* every directory is sealed when the last command has ended, those excepted of
\* which a command was killed or refused its sources.
THEOREM SomebodySeals == Spec => []RaceHasWinner
<1>1. ASSUME IInv PROVE RaceHasWinner
  <2> SUFFICES ASSUME AtRest, faults = 0, NEW id \in DOMAIN disk \ abandoned
               PROVE  Sealed(id)
    BY DEF RaceHasWinner
  <2>1. \A q \in Procs : ~ Leads(q, id)
    BY DEF AtRest, Leads
  <2> QED BY <1>1, <2>1 DEF IInv, Undisturbed, Calm
<1> QED BY <1>1, Inductive, PTL
=============================================================================
