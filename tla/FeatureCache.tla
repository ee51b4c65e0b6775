---------------------------- MODULE FeatureCache ----------------------------
(***************************************************************************)
(* The frozen feature caches, scripts/cache_features.py and features/      *)
(* cache.py: directories named after a hashed identity, filled under       *)
(* create-only names with one shard per episode and sealed by a manifest   *)
(* that records each shard's checksum.  The commands build caches with the *)
(* backbone, compose two of them or rebind one to another experiment.      *)
(* They run side by side, end at any statement, and between them files at  *)
(* rest may change or whole caches be removed.                             *)
(*                                                                         *)
(* A shard is the sequence of the features it concatenates, <<>> when it   *)
(* is absent; its checksum is injective, so a recorded shard stands for    *)
(* its checksum.  The experiments share dataset, model and split, so the   *)
(* checks made before a directory exists turn on its sources alone.        *)
(***************************************************************************)
EXTENDS Naturals, Sequences, SequencesExt, TLC

CONSTANTS
  LastEpisode,  \* the episodes are 1..LastEpisode
  Hidden,       \* those of the test split, withheld from visible caches
  Features,     \* what the backbone may compute for an episode
  Commands,     \* the experiments the commands are run for
  Procs,        \* processes that run at the same time
  MaxCommands,  \* bound on the commands started
  MaxFaults     \* bound on the faults at rest

Episodes == 1..LastEpisode
Experiments ==
  {"global", "spatial", "visible", "combined", "rebound", "rebound-visible"}

ASSUME CacheAssumption ==
  /\ LastEpisode \in Nat \ {0} /\ Hidden \subseteq Episodes
  /\ Commands \subseteq Experiments
  /\ MaxCommands \in Nat /\ MaxFaults \in Nat

VARIABLES
  disk,       \* the cache directories, by identity
  proc,       \* the running commands
  commands,   \* commands started
  faults,     \* faults at rest
  abandoned,  \* caches of which a command was killed or refused its sources
  made        \* manifests of the commands that returned 0, while on disk

vars == <<disk, proc, commands, faults, abandoned, made>>

-----------------------------------------------------------------------------
(* Identities and directories                                              *)

\* The identity of a derived cache names the manifests it was derived from,
\* by their checksum.
Identity(name, manifests) == [experiment |-> name, from |-> manifests]
Scope(id) == IF id.experiment \in {"visible", "rebound-visible"}
             THEN Episodes \ Hidden ELSE Episodes

\* The sources of a cache have a shard of each of its episodes.
Fits(id) == \A i \in DOMAIN id.from : Scope(id.from[i].identity) = Scope(id)

Empty == [e \in Episodes |-> <<>>]
Fresh == [identity |-> "absent", normalization |-> "absent", manifest |-> "absent",
          record |-> Empty, shard |-> Empty, changed |-> {}]
Dir(id) == IF id \in DOMAIN disk THEN disk[id] ELSE Fresh
Update(id, dir) == [j \in DOMAIN disk \cup {id} |-> IF j = id THEN dir ELSE disk[j]]

Sealed(id) == Dir(id).manifest = "complete"
Manifest(id) == [identity |-> id, record |-> Dir(id).record]

\* file_sha256(path) against the checksum of the manifest.
Verified(manifest, e) == Dir(manifest.identity).shard[e] = manifest.record[e]

\* The shard of episode e of a derived cache, as its sources recorded it.
Concatenated(manifests, e) ==
  FlattenSeq([i \in DOMAIN manifests |-> manifests[i].record[e]])

-----------------------------------------------------------------------------
(* The commands                                                            *)

Idle == [pc |-> "idle", id |-> Identity("global", <<>>), file |-> "identity",
         episode |-> 1, value |-> <<>>, record |-> Empty]

End(p) == proc' = [proc EXCEPT ![p] = Idle]

Start(p) ==
  /\ proc[p].pc = "idle" /\ commands < MaxCommands
  /\ commands' = commands + 1
  /\ UNCHANGED <<faults, abandoned, made>>

Begin(p, id) ==
  /\ disk' = Update(id, Dir(id))     \* mkdir(exist_ok=True)
  /\ proc' = [proc EXCEPT ![p] = [Idle EXCEPT !.pc = "check", !.id = id]]

Build(p, name) ==
  /\ name \in Commands \cap {"global", "spatial", "visible"}
  /\ Start(p)
  /\ Begin(p, Identity(name, <<>>))

\* Manifest, pooling, semantics and normalization of the sources are validated
\* before the directory is made; their shards are looked at later.  Wrong on
\* purpose: a directory is there when they are refused.
RefuseLate(name) == disk' = Update(Identity(name, <<>>), Fresh) /\ UNCHANGED proc
Refuse(name) == UNCHANGED <<disk, proc>>

\* A visible cache has the pooling and the semantics of a whole one.
Compose(p, first) ==
  LET sources == <<first, Identity("spatial", <<>>)>>
  IN /\ "combined" \in Commands
     /\ first.experiment \in {"global", "visible"}
     /\ Start(p)
     /\ IF \A i \in 1..2 : Sealed(sources[i])
        THEN Begin(p, Identity("combined", [i \in 1..2 |-> Manifest(sources[i])]))
        ELSE Refuse("combined")

Derive(p, source) ==
  /\ "rebound" \in Commands
  /\ source.experiment \in {"combined", "visible"}
  /\ Start(p)
  /\ IF Sealed(source)
     THEN Begin(p, Identity("rebound", <<Manifest(source)>>))
     ELSE Refuse("rebound")

\* The visible rebind also verifies every shard before it makes anything.
DeriveVisible(p, source) ==
  /\ "rebound-visible" \in Commands
  /\ source.experiment = "visible"
  /\ Start(p)
  /\ IF Sealed(source) /\ \A e \in Scope(source) : Verified(Manifest(source), e)
     THEN Begin(p, Identity("rebound-visible", <<Manifest(source)>>))
     ELSE Refuse("rebound-visible")

-----------------------------------------------------------------------------
(* create_json()                                                           *)

\* Identity and normalization are functions of the identity.
SamePayload(id, file, record) == file = "manifest" => Dir(id).record = record

\* Wrong on purpose: the normalization is never written.
SkipNormalization == "manifest"
AfterIdentity == "normalization"

AfterJson(p) ==
  LET c == proc[p]
  IN CASE c.file = "identity" ->
            /\ proc' = [proc EXCEPT ![p].pc = "check", ![p].file = AfterIdentity]
            /\ UNCHANGED made
       [] c.file = "normalization" ->
            /\ proc' = [proc EXCEPT ![p].pc = "shard"]
            /\ UNCHANGED made
       [] c.file = "manifest" ->
            /\ End(p)
            /\ made' = made \cup {[identity |-> c.id, record |-> c.record]}

\* A file that exists must hold the same payload; a torn one is no JSON.
CheckJson(p) ==
  LET c == proc[p]  state == Dir(c.id)[c.file]
  IN /\ c.pc = "check"
     /\ \/ /\ state = "absent"
           /\ proc' = [proc EXCEPT ![p].pc = "open"]
           /\ UNCHANGED made
        \/ /\ state = "complete" /\ SamePayload(c.id, c.file, c.record)
           /\ AfterJson(p)
        \/ /\ state = "torn" \/ (state = "complete" /\ ~ SamePayload(c.id, c.file, c.record))
           /\ End(p)
           /\ UNCHANGED made
     /\ UNCHANGED <<disk, commands, faults, abandoned>>

\* path.open("x"): another process may have created the file meanwhile.
OpenJson(p) ==
  LET c == proc[p]
  IN /\ c.pc = "open"
     /\ IF Dir(c.id)[c.file] = "absent"
        THEN /\ disk' = Update(c.id, [Dir(c.id) EXCEPT ![c.file] = "torn"])
             /\ proc' = [proc EXCEPT ![p].pc = "dump"]
        ELSE End(p) /\ UNCHANGED disk
     /\ UNCHANGED <<commands, faults, abandoned, made>>

DumpJson(p) ==
  LET c == proc[p]
      written == [Dir(c.id) EXCEPT ![c.file] = "complete"]
  IN /\ c.pc = "dump"
     /\ disk' = Update(c.id, IF c.file = "manifest"
                             THEN [written EXCEPT !.record = c.record] ELSE written)
     /\ AfterJson(p)
     /\ UNCHANGED <<commands, faults, abandoned>>

-----------------------------------------------------------------------------
(* The shards                                                              *)

\* The shard of the current episode is recorded as it is on the disk now.
Record(p, content) ==
  LET c == proc[p]  done == c.episode = LastEpisode
  IN proc' = [proc EXCEPT ![p].record = [@ EXCEPT ![c.episode] = content],
                          ![p].episode = IF done THEN @ ELSE @ + 1,
                          ![p].pc = IF done THEN "check" ELSE "shard",
                          ![p].file = IF done THEN "manifest" ELSE @,
                          ![p].value = <<>>]

\* Episodes outside the scope have no anchors.
SkipEpisode(p) ==
  LET c == proc[p]
  IN /\ c.pc = "shard" /\ c.episode \notin Scope(c.id)
     /\ Record(p, <<>>)
     /\ UNCHANGED <<disk, commands, faults, abandoned, made>>

\* build: an existing shard of this identity is accepted, whatever its
\* features; a missing one is computed.
BuildShard(p) ==
  LET c == proc[p]  existing == Dir(c.id).shard[c.episode]
  IN /\ c.pc = "shard" /\ c.id.from = <<>> /\ c.episode \in Scope(c.id)
     /\ IF existing # <<>>
        THEN Record(p, existing)
        ELSE \E f \in Features :
               proc' = [proc EXCEPT ![p].pc = "link", ![p].value = <<f>>]
     /\ UNCHANGED <<disk, commands, faults, abandoned, made>>

\* compose and the rebinds: an existing shard must equal the one derived
\* from the sources.  Wrong on purpose: it is accepted.
AnyExisting(existing, value) == TRUE
EqualExisting(existing, value) == existing = value

\* derive-visible holds shards that were verified when it started.
SourcesVerified(id, e) ==
  \/ id.experiment = "rebound-visible"
  \/ \A i \in DOMAIN id.from : Verified(id.from[i], e)

\* The features come from the files of the sources, which are the recorded
\* ones once they are verified.
Read(id, e) ==
  IF id.experiment = "rebound-visible" THEN Concatenated(id.from, e)
  ELSE FlattenSeq([i \in DOMAIN id.from |-> Dir(id.from[i].identity).shard[e]])

\* compose and derive look at the shards of their sources once the JSON files
\* are written: records that do not cover the scope are refused there, and any
\* shard whose other tensors or sample count differ.
RefuseSources(p) ==
  LET c == proc[p]
  IN /\ c.pc = "shard" /\ c.id.experiment \in {"combined", "rebound"}
     /\ End(p) /\ abandoned' = abandoned \cup {c.id}
     /\ UNCHANGED <<disk, commands, faults, made>>

DeriveShard(p) ==
  LET c == proc[p]
      existing == Dir(c.id).shard[c.episode]
      value == Read(c.id, c.episode)
  IN /\ c.pc = "shard" /\ c.id.from # <<>> /\ c.episode \in Scope(c.id)
     /\ Fits(c.id)
     /\ IF ~ SourcesVerified(c.id, c.episode) THEN End(p)
        ELSE IF existing = <<>>
        THEN proc' = [proc EXCEPT ![p].pc = "link", ![p].value = value]
        ELSE IF EqualExisting(existing, value) THEN Record(p, existing)
        ELSE End(p)
     /\ UNCHANGED <<disk, commands, faults, abandoned, made>>

\* os.link() of the complete partial file: the shard appears whole, or another
\* process was first and this one ends.
LinkFree(existing) == existing = <<>>

\* Wrong on purpose: the loser goes on with the features it computed.
GoOn(p) == Record(p, proc[p].value)
Lose(p) == End(p)

LinkShard(p) ==
  LET c == proc[p]  dir == Dir(c.id)
  IN /\ c.pc = "link"
     /\ IF LinkFree(dir.shard[c.episode])
        THEN /\ disk' = Update(c.id, [dir EXCEPT !.shard[c.episode] = c.value])
             /\ Record(p, c.value)
        ELSE Lose(p) /\ UNCHANGED disk
     /\ UNCHANGED <<commands, faults, abandoned, made>>

-----------------------------------------------------------------------------
(* Loading, and what happens to the processes and at rest                  *)

\* CachedFeatureDataset: refuses a shard that is not the recorded one.
Loads(id) == Sealed(id) /\ \A e \in Scope(id) : Verified(Manifest(id), e)

Kill(p) ==
  /\ proc[p].pc # "idle"
  /\ End(p) /\ abandoned' = abandoned \cup {proc[p].id}
  /\ UNCHANGED <<disk, commands, faults, made>>

AtRest == \A p \in Procs : proc[p].pc = "idle"

Fault ==
  /\ AtRest /\ faults < MaxFaults
  /\ faults' = faults + 1
  /\ UNCHANGED <<proc, commands>>

\* A shard is replaced by another one of the same shape and identity.
Change(id, e) ==
  /\ Fault
  /\ Dir(id).shard[e] # <<>>
  /\ \E other \in [1..Len(Dir(id).shard[e]) -> Features] \ {Dir(id).shard[e]} :
       disk' = Update(id, [Dir(id) EXCEPT !.shard[e] = other,
                 !.changed = IF Sealed(id) THEN @ \cup {e} ELSE @])
  /\ UNCHANGED <<abandoned, made>>

\* A cache is removed, to be built again.
RemoveCache(id) ==
  /\ Fault
  /\ disk' = Restrict(disk, DOMAIN disk \ {id})
  /\ abandoned' = abandoned \ {id}
  /\ made' = {m \in made : m.identity # id}

-----------------------------------------------------------------------------
Init ==
  /\ disk = << >>
  /\ proc = [p \in Procs |-> Idle]
  /\ commands = 0 /\ faults = 0 /\ abandoned = {}
  /\ made = {}

Step(p) ==
  \/ CheckJson(p) \/ OpenJson(p) \/ DumpJson(p)
  \/ SkipEpisode(p) \/ BuildShard(p) \/ LinkShard(p)
  \/ RefuseSources(p) \/ DeriveShard(p)

Next ==
  \/ \E p \in Procs :
       \/ \E name \in Commands : Build(p, name)
       \/ \E id \in DOMAIN disk : Compose(p, id) \/ Derive(p, id) \/ DeriveVisible(p, id)
       \/ Step(p)
       \/ Kill(p)
  \/ \E id \in DOMAIN disk :
       \/ \E e \in Episodes : Change(id, e)
       \/ RemoveCache(id)

Spec == Init /\ [][Next]_vars

-----------------------------------------------------------------------------
Contents == UNION {[1..n -> Features] : n \in 0..2}
\* The directories, the processes and the counters have the shapes the code
\* gives them, and a derived identity has the sources its command takes.
TypeOK ==
  /\ \A id \in DOMAIN disk :
       /\ id.experiment \in Experiments /\ Len(id.from) <= 2
       /\ disk[id] \in [identity : {"absent", "torn", "complete"},
                        normalization : {"absent", "torn", "complete"},
                        manifest : {"absent", "torn", "complete"},
                        record : [Episodes -> Contents], shard : [Episodes -> Contents],
                        changed : SUBSET Episodes]
       /\ Sealed(id) => /\ disk[id].identity = "complete"
                        /\ disk[id].normalization = "complete"
  /\ \A p \in Procs :
       /\ proc[p].pc \in {"idle", "check", "open", "dump", "shard", "link"}
       /\ proc[p].pc # "idle" => proc[p].id \in DOMAIN disk
       /\ proc[p].episode \in Episodes /\ proc[p].value \in Contents
       /\ proc[p].record \in [Episodes -> Contents]
  /\ commands \in 0..MaxCommands /\ faults \in 0..MaxFaults
  /\ abandoned \subseteq DOMAIN disk

\* A sealed directory holds every shard of its scope as recorded, except those
\* that changed at rest since it was sealed; and all commands that returned 0
\* for it recorded these shards, however they raced and whatever changed.
ManifestIsTrue ==
  /\ \A id \in DOMAIN disk : Sealed(id) =>
       \A e \in Scope(id) \ disk[id].changed :
         disk[id].shard[e] # <<>> /\ disk[id].shard[e] = disk[id].record[e]
  /\ \A m \in made : Sealed(m.identity) /\ m.record = Dir(m.identity).record

\* What a derived cache says, and what training loads from it, is the
\* concatenation its sources recorded when the manifests its identity names
\* were sealed, although sources and targets change and are rebuilt meanwhile.
Provenance ==
  \A id \in DOMAIN disk : id.from # <<>> =>
    \A e \in Scope(id) :
      /\ Sealed(id) => disk[id].record[e] = Concatenated(id.from, e)
      /\ Loads(id) => disk[id].shard[e] = Concatenated(id.from, e)

\* As long as nothing changed at rest, a directory is left unsealed only by a
\* command that was killed or that refused its sources once the directory was
\* made: racing commands may end each other but never all of them, and sources
\* refused earlier leave no directory.
RaceHasWinner ==
  AtRest /\ faults = 0 => \A id \in DOMAIN disk \ abandoned : Sealed(id)

Symmetry == Permutations(Procs) \cup Permutations(Features)
=============================================================================
