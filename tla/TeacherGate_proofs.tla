-------------------------- MODULE TeacherGate_proofs --------------------------
(***************************************************************************)
(* Proofs about TeacherGate.  Types and the numbering of the reports are   *)
(* proved for any number of commands that overlap.  The order of the chain *)
(* and the create-only promise are proved for any number of commands that  *)
(* do not (where two do the run gate_overwrite refutes the promise): then  *)
(* nobody creates the path between the test and the open, a report that is *)
(* whole stays as it is, and what a guard or an audit has read is still    *)
(* there when the report that rests on it is written.  The second part is  *)
(* about InsertionTeacher, the teachers that the rollouts of the gate run, *)
(* for every stall window and any number of episodes.                      *)
(***************************************************************************)
EXTENDS TeacherGate, InsertionTeacher, TLAPS

-----------------------------------------------------------------------------
(* The order of the stages, and the next number.                           *)

LEMMA Order ==
  /\ Len(StageOrder) = 5
  /\ StageOrder[1] = "g0" /\ StageOrder[2] = "g1" /\ StageOrder[3] = "g2"
  /\ StageOrder[4] = "g3" /\ StageOrder[5] = "g4"
BY DEF StageOrder

LEMMA EarlierStages ==
  /\ Earlier("g0") = {} /\ Earlier("g1") = {"g0"} /\ Earlier("g2") = {"g0", "g1"}
  /\ Earlier("g5") = {} /\ Earlier("register") = {}
<1>1. 1..Len(StageOrder) = {1, 2, 3, 4, 5}
  BY Order
<1> HIDE DEF StageOrder
<1>2. Earlier("g0") = {} /\ Earlier("g5") = {} /\ Earlier("register") = {}
  BY <1>1, Order DEF Earlier
<1>3. Earlier("g1") = {"g0"}
  BY <1>1, Order DEF Earlier
<1>4. Earlier("g2") = {"g0", "g1"}
  BY <1>1, Order DEF Earlier
<1> QED BY <1>2, <1>3, <1>4

LEMMA MaxOfInterval ==
  ASSUME NEW n \in Nat \ {0}
  PROVE  Max(1..n) = n
<1>1. n \in 1..n /\ \A m \in 1..n : n >= m
  OBVIOUS
<1>2. \A x \in 1..n : (\A m \in 1..n : x >= m) => x = n
  OBVIOUS
<1> QED BY <1>1, <1>2 DEF Max

-----------------------------------------------------------------------------
(* The inductive invariant of any number of commands.                      *)

FileSet == [state : {"absent", "torn", "whole"}, ok : BOOLEAN, code : Codes \cup {""},
            findings : SUBSET FindingSet]
RunnerSet == [pc : {"idle", "work", "audit", "number", "claim", "check", "create", "fill"},
              stage : Kinds \cup {""}, ok : BOOLEAN, attempt : 0..MaxAttempts,
              claim : Codes \cup {""}, position : 0..(Len(StageOrder) + 1),
              findings : SUBSET FindingSet]

Shape ==
  /\ code \in Codes /\ edits \in 0..MaxEdits
  /\ file \in [Kinds -> [Attempts -> FileSet]]
  /\ runner \in [Runners -> RunnerSet]

\* The reports of a stage are numbered without a gap.
Numbered == \A s \in Kinds : \E n \in 0..MaxAttempts : Written(s) = 1..n

\* A command has a stage; before it writes, the number after one that is taken.
Sound(c) ==
  /\ c.pc # "idle" => c.stage \in Kinds
  /\ c.attempt # 0 <=> c.pc \in {"claim", "check", "create", "fill"}
  /\ c.attempt # 0 => c.attempt = 1 \/ c.attempt - 1 \in Written(c.stage)
  /\ c.pc = "work" => c.stage \in {"g0"} \cup Rollouts
  /\ c.pc = "audit" => c.stage = "g5" /\ c.position # 0

IInv == Shape /\ Numbered /\ \A r \in Runners : Sound(runner[r])

-----------------------------------------------------------------------------
(* Steps that change one command and no file.                              *)

LEMMA RunnerSuffices ==
  ASSUME IInv, UNCHANGED <<code, edits, file>>, NEW r \in Runners, NEW c \in RunnerSet,
         runner' = [runner EXCEPT ![r] = c], Sound(c)
  PROVE  IInv'
<1>1. Shape'
  BY DEF IInv, Shape
<1>2. \A s : Written(s)' = Written(s)
  BY DEF Written
<1>3. Numbered'
  BY <1>2 DEF IInv, Numbered
<1>4. ASSUME NEW q \in Runners PROVE Sound(runner[q])'
  BY <1>2 DEF IInv, Shape, Sound
<1> QED BY <1>1, <1>3, <1>4 DEF IInv

LEMMA IdleFine == Idle \in RunnerSet /\ Sound(Idle)
<1>1. 0 \in 0..MaxAttempts /\ 0 \in 0..(Len(StageOrder) + 1)
  BY GateAssumption, Order
<1> QED BY <1>1 DEF Idle, RunnerSet, Sound

LEMMA EndsKeeps ==
  ASSUME IInv, UNCHANGED <<code, edits, file>>, NEW r \in Runners, Ends(r)
  PROVE  IInv'
BY IdleFine, RunnerSuffices DEF Ends

LEMMA StartKeeps ==
  ASSUME IInv, NEW r \in Runners,
         \/ Register(r) \/ StartProbe(r) \/ StartAudit(r)
         \/ \E s \in Rollouts : StartRollout(r, s)
  PROVE  IInv'
<1>1. UNCHANGED <<code, edits, file>>
  BY DEF Register, StartProbe, StartAudit, StartRollout
<1>2. 0 \in 0..MaxAttempts /\ 1 \in 0..MaxAttempts /\ 0 \in 0..(Len(StageOrder) + 1)
      /\ 1 \in 0..(Len(StageOrder) + 1)
  BY GateAssumption, Order DEF Attempts
<1>3. CASE Register(r)
  <2>1. PICK capable \in BOOLEAN :
          runner' = [runner EXCEPT ![r] = [Idle EXCEPT !.pc = "claim", !.stage = "register",
                                             !.ok = capable, !.attempt = 1]]
    BY <1>3 DEF Register
  <2> DEFINE c == [Idle EXCEPT !.pc = "claim", !.stage = "register", !.ok = capable, !.attempt = 1]
  <2>2. c \in RunnerSet
    BY <1>2 DEF Idle, RunnerSet, Kinds
  <2>3. Sound(c)
    BY DEF Idle, Sound, Kinds
  <2> QED BY <1>1, <2>1, <2>2, <2>3, RunnerSuffices
<1>4. CASE StartAudit(r)
  <2> DEFINE c == [Idle EXCEPT !.pc = "audit", !.stage = "g5", !.position = 1]
  <2>1. c \in RunnerSet
    BY <1>2 DEF Idle, RunnerSet, Kinds
  <2>2. Sound(c)
    BY DEF Idle, Sound, Kinds
  <2>3. runner' = [runner EXCEPT ![r] = c]
    BY <1>4 DEF StartAudit
  <2> QED BY <1>1, <2>1, <2>2, <2>3, RunnerSuffices
<1>5. CASE StartProbe(r) \/ \E s \in Rollouts : StartRollout(r, s)
  <2>1. PICK s \in {"g0"} \cup Rollouts :
          runner' = [runner EXCEPT ![r] = [Idle EXCEPT !.pc = "work", !.stage = s]]
    BY <1>5 DEF StartProbe, StartRollout
  <2> DEFINE c == [Idle EXCEPT !.pc = "work", !.stage = s]
  <2>2. c \in RunnerSet
    BY <1>2 DEF Idle, RunnerSet, Kinds, Rollouts
  <2>3. Sound(c)
    BY DEF Idle, Sound, Kinds, Rollouts
  <2> QED BY <1>1, <2>1, <2>2, <2>3, RunnerSuffices
<1> QED BY <1>3, <1>4, <1>5

LEMMA WorkKeeps ==
  ASSUME IInv, NEW r \in Runners, Work(r)
  PROVE  IInv'
<1>1. UNCHANGED <<code, edits, file>> /\ runner[r].pc = "work"
  BY DEF Work
<1>2. CASE \E passed \in BOOLEAN :
             runner' = [runner EXCEPT ![r].pc = "number", ![r].ok = passed]
  <2>1. PICK passed \in BOOLEAN :
          runner' = [runner EXCEPT ![r].pc = "number", ![r].ok = passed]
    BY <1>2
  <2> DEFINE c == [runner[r] EXCEPT !.pc = "number", !.ok = passed]
  <2>2. runner' = [runner EXCEPT ![r] = c] /\ c \in RunnerSet
    BY <2>1 DEF IInv, Shape, RunnerSet
  <2>3. Sound(c)
    BY <1>1 DEF IInv, Shape, RunnerSet, Sound
  <2> QED BY <1>1, <2>2, <2>3, RunnerSuffices
<1> QED BY <1>1, <1>2, EndsKeeps DEF Work

\* What an audit finds is a finding.
LEMMA FindingsType ==
  ASSUME Shape, NEW s \in Kinds
  PROVE  Findings(s) \in SUBSET FindingSet
<1> SUFFICES ASSUME NEW n \in Written(s)
             PROVE  [stage |-> s, passed |-> file[s][n].ok, matches |-> file[s][n].code = code]
                      \in FindingSet
  BY DEF Findings
<1>1. n \in Attempts
  BY DEF Written
<1>2. file[s][n].ok \in BOOLEAN
  BY <1>1 DEF Shape, FileSet
<1>3. (file[s][n].code = code) \in BOOLEAN
  OBVIOUS
<1> QED BY <1>2, <1>3 DEF FindingSet

LEMMA AuditKeeps ==
  ASSUME IInv, NEW r \in Runners, AuditStage(r) \/ AuditVerdict(r)
  PROVE  IInv'
<1>1. UNCHANGED <<code, edits, file>> /\ runner[r].pc = "audit"
  BY DEF AuditStage, AuditVerdict
<1>2. runner[r] \in RunnerSet /\ Sound(runner[r])
  BY DEF IInv, Shape
<1>3. CASE AuditStage(r) /\ ~ Ends(r)
  <2> DEFINE s == StageOrder[runner[r].position]
             c == [runner[r] EXCEPT !.position = @ + 1, !.findings = @ \cup Findings(s)]
  <2>1. runner' = [runner EXCEPT ![r].position = @ + 1, ![r].findings = @ \cup Findings(s)]
        /\ runner[r].position <= Len(StageOrder)
    BY <1>3 DEF AuditStage
  <2>2. Findings(s) \in SUBSET FindingSet
    BY FindingsType DEF Findings, IInv
  <2> HIDE DEF s
  <2>3. runner' = [runner EXCEPT ![r] = c]
    BY <2>1 DEF IInv, Shape
  <2>4. runner[r].position + 1 \in 0..(Len(StageOrder) + 1) /\ runner[r].position + 1 # 0
    <3>1. runner[r].position \in 0..(Len(StageOrder) + 1)
      BY <1>2 DEF RunnerSet
    <3> QED BY <2>1, <3>1, Order
  <2>5. c \in RunnerSet
    BY <1>2, <2>2, <2>4 DEF RunnerSet
  <2>6. Sound(c)
    BY <1>1, <1>2, <2>4 DEF Sound, RunnerSet
  <2> QED BY <1>1, <2>3, <2>5, <2>6, RunnerSuffices
<1>4. CASE AuditVerdict(r)
  <2> DEFINE v == /\ runner[r].findings # {}
                  /\ \A f \in runner[r].findings : f.matches
             c == [runner[r] EXCEPT !.pc = "number", !.ok = v]
  <2>1. v \in BOOLEAN
    OBVIOUS
  <2>2. runner' = [runner EXCEPT ![r].pc = "number", ![r].ok = v]
    BY <1>4 DEF AuditVerdict
  <2> HIDE DEF v
  <2>3. runner' = [runner EXCEPT ![r] = c]
    BY <2>2 DEF IInv, Shape
  <2>4. c \in RunnerSet
    BY <1>2, <2>1 DEF RunnerSet
  <2>5. Sound(c)
    BY <1>1, <1>2 DEF Sound, RunnerSet
  <2> QED BY <1>1, <2>3, <2>4, <2>5, RunnerSuffices
<1> QED BY <1>1, <1>3, <1>4, EndsKeeps

\* The next number is the first that is not taken.
LEMMA NumberKeeps ==
  ASSUME IInv, NEW r \in Runners, Number(r)
  PROVE  IInv'
<1> DEFINE s == runner[r].stage
           last == IF Written(s) = {} THEN 0 ELSE Max(Written(s))
           c == [runner[r] EXCEPT !.pc = "claim", !.attempt = last + 1]
<1>1. /\ UNCHANGED <<code, edits, file>> /\ runner[r].pc = "number" /\ last < Bound(s)
      /\ runner' = [runner EXCEPT ![r].pc = "claim", ![r].attempt = last + 1]
  BY DEF Number
<1>2. runner[r] \in RunnerSet /\ Sound(runner[r])
  BY DEF IInv, Shape
<1>3. s \in Kinds
  BY <1>1, <1>2 DEF Sound
<1>4. PICK n \in 0..MaxAttempts : Written(s) = 1..n
  BY <1>3 DEF IInv, Numbered
<1>5. n \in Nat /\ (n = 0 => 1..n = {}) /\ (n # 0 => n \in 1..n)
  BY <1>4, GateAssumption DEF Attempts
<1>6. last = n
  BY <1>4, <1>5, MaxOfInterval
<1>7. Bound(s) <= MaxAttempts /\ Bound(s) \in Nat /\ MaxAttempts \in Nat
  BY GateAssumption DEF Bound, Attempts
<1>8. last + 1 \in 0..MaxAttempts /\ last + 1 # 0
      /\ (last + 1 = 1 \/ (last + 1) - 1 \in Written(s))
  BY <1>1, <1>4, <1>5, <1>6, <1>7
<1> HIDE DEF last
<1>9. runner' = [runner EXCEPT ![r] = c]
  BY <1>1 DEF IInv, Shape
<1>10. c \in RunnerSet
  BY <1>2, <1>8 DEF RunnerSet
<1>11. Sound(c)
  <2>1. c.pc = "claim" /\ c.stage = s /\ c.attempt = last + 1
    BY <1>2 DEF RunnerSet
  <2>2. c.attempt - 1 = (last + 1) - 1
    BY <2>1
  <2> HIDE DEF c
  <2>3. c.attempt # 0 /\ (c.attempt = 1 \/ c.attempt - 1 \in Written(c.stage))
    BY <1>8, <2>1, <2>2
  <2> QED BY <1>3, <2>1, <2>3 DEF Sound
<1> QED BY <1>1, <1>9, <1>10, <1>11, RunnerSuffices

LEMMA ClaimKeeps ==
  ASSUME IInv, NEW r \in Runners, Claim(r)
  PROVE  IInv'
<1> DEFINE c == [runner[r] EXCEPT !.pc = "check", !.claim = code]
<1>1. /\ UNCHANGED <<code, edits, file>> /\ runner[r].pc = "claim"
      /\ runner' = [runner EXCEPT ![r] = c] /\ runner[r] \in RunnerSet /\ Sound(runner[r])
  BY DEF Claim, IInv, Shape
<1>2. c \in RunnerSet
  BY <1>1 DEF RunnerSet, IInv, Shape
<1>3. Sound(c)
  BY <1>1 DEF Sound, RunnerSet
<1> QED BY <1>1, <1>2, <1>3, RunnerSuffices

LEMMA CheckKeeps ==
  ASSUME IInv, NEW r \in Runners, Check(r)
  PROVE  IInv'
<1> DEFINE c == [runner[r] EXCEPT !.pc = "create"]
<1>1. /\ UNCHANGED <<code, edits, file>> /\ runner[r].pc = "check"
      /\ runner' = [runner EXCEPT ![r].pc = "create"] \/ Ends(r)
      /\ runner[r] \in RunnerSet /\ Sound(runner[r])
  BY DEF Check, IInv, Shape
<1>2. CASE runner' = [runner EXCEPT ![r].pc = "create"]
  <2>1. runner' = [runner EXCEPT ![r] = c]
    BY <1>2 DEF IInv, Shape
  <2>2. c \in RunnerSet
    BY <1>1 DEF RunnerSet
  <2>3. Sound(c)
    BY <1>1 DEF Sound, RunnerSet
  <2> QED BY <1>1, <2>1, <2>2, <2>3, RunnerSuffices
<1> QED BY <1>1, <1>2, EndsKeeps

-----------------------------------------------------------------------------
(* Steps that write.                                                       *)

LEMMA WriteKeeps ==
  ASSUME IInv, UNCHANGED <<code, edits>>, NEW r \in Runners,
         runner[r].pc \in {"create", "fill"}, NEW f \in FileSet, f.state # "absent",
         file' = [file EXCEPT ![runner[r].stage][runner[r].attempt] = f],
         NEW c \in RunnerSet, runner' = [runner EXCEPT ![r] = c], Sound(c)
  PROVE  IInv'
<1>1. runner[r] \in RunnerSet /\ Sound(runner[r])
  BY DEF IInv, Shape
<1> PICK s \in Kinds : s = runner[r].stage
  BY <1>1 DEF Sound
<1> PICK a \in 0..MaxAttempts : a = runner[r].attempt
  BY <1>1 DEF RunnerSet
<1>2. a # 0 /\ (a = 1 \/ a - 1 \in Written(s))
  BY <1>1 DEF Sound
<1>3. a \in Attempts /\ a \in Nat
  BY <1>2, GateAssumption DEF Attempts
<1>4. file' = [file EXCEPT ![s] = [file[s] EXCEPT ![a] = f]]
  OBVIOUS
<1>5. Shape'
  BY <1>2, <1>3, <1>4 DEF IInv, Shape
<1>6. /\ Written(s)' = Written(s) \cup {a}
      /\ \A e \in Kinds : Written(e) \subseteq Written(e)'
      /\ \A e \in Kinds \ {s} : Written(e)' = Written(e)
  BY <1>2, <1>3, <1>4 DEF Written, IInv, Shape
<1>7. Numbered'
  <2> SUFFICES ASSUME NEW e \in Kinds
               PROVE  \E n \in 0..MaxAttempts : Written(e)' = 1..n
    BY DEF Numbered
  <2>1. PICK n \in 0..MaxAttempts : Written(e) = 1..n
    BY DEF IInv, Numbered
  <2>2. CASE e # s
    BY <1>6, <2>1, <2>2
  <2>3. CASE e = s
    <3>1. Written(s)' = (1..n) \cup {a} /\ (a = 1 \/ a - 1 \in 1..n) /\ n \in Nat
      BY <1>2, <1>6, <2>1, <2>3, GateAssumption DEF Attempts
    <3>2. CASE a <= n
      <4>1. Written(s)' = 1..n
        BY <1>3, <3>1, <3>2 DEF Attempts
      <4> QED BY <2>3, <4>1
    <3>3. CASE a > n
      <4>1. a = n + 1
        BY <1>3, <3>1, <3>3
      <4>2. (1..n) \cup {a} = 1..(n + 1)
        BY <3>1, <4>1
      <4>3. n + 1 \in 0..MaxAttempts
        BY <1>3, <3>1, <4>1, GateAssumption DEF Attempts
      <4> QED BY <2>3, <3>1, <4>2, <4>3
    <3> QED BY <1>3, <3>1, <3>2, <3>3
  <2> QED BY <2>2, <2>3
<1>8. ASSUME NEW q \in Runners PROVE Sound(runner[q])'
  <2>1. Sound(runner'[q]) /\ runner'[q] \in RunnerSet
    BY DEF IInv, Shape
  <2> QED BY <1>6, <2>1 DEF Sound
<1> QED BY <1>5, <1>7, <1>8 DEF IInv

LEMMA CreateKeeps ==
  ASSUME IInv, NEW r \in Runners, Create(r)
  PROVE  IInv'
<1> DEFINE c == [runner[r] EXCEPT !.pc = "fill"]
<1>1. /\ UNCHANGED <<code, edits>> /\ runner[r].pc = "create"
      /\ file' = [file EXCEPT ![runner[r].stage][runner[r].attempt] = Torn]
      /\ runner' = [runner EXCEPT ![r] = c] /\ runner[r] \in RunnerSet /\ Sound(runner[r])
  BY DEF Create, IInv, Shape
<1>2. Torn \in FileSet /\ Torn.state # "absent"
  BY DEF Torn, Absent, FileSet
<1>3. c \in RunnerSet
  BY <1>1 DEF RunnerSet
<1>4. Sound(c)
  BY <1>1 DEF Sound, RunnerSet
<1> QED BY <1>1, <1>2, <1>3, <1>4, WriteKeeps

LEMMA FillKeeps ==
  ASSUME IInv, NEW r \in Runners, Fill(r)
  PROVE  IInv'
<1> DEFINE f == [state |-> "whole", ok |-> runner[r].ok, code |-> runner[r].claim,
                 findings |-> runner[r].findings]
<1>1. /\ UNCHANGED <<code, edits>> /\ runner[r].pc = "fill"
      /\ file' = [file EXCEPT ![runner[r].stage][runner[r].attempt] = f]
      /\ runner' = [runner EXCEPT ![r] = Idle] /\ runner[r] \in RunnerSet
  BY DEF Fill, Ends, IInv, Shape
<1>2. f \in FileSet /\ f.state # "absent"
  BY <1>1 DEF RunnerSet, FileSet
<1> QED BY <1>1, <1>2, IdleFine, WriteKeeps

LEMMA EditKeeps ==
  ASSUME IInv, Edit
  PROVE  IInv'
<1>1. code' \in Codes /\ edits < MaxEdits /\ edits' = edits + 1 /\ UNCHANGED <<file, runner>>
  BY DEF Edit
<1>2. edits' \in 0..MaxEdits
  BY <1>1, GateAssumption DEF IInv, Shape
<1>3. Shape'
  BY <1>1, <1>2 DEF IInv, Shape
<1> QED BY <1>1, <1>3 DEF IInv, Numbered, Sound, Written

LEMMA IInvInit == Init => IInv
<1> SUFFICES ASSUME Init PROVE IInv
  OBVIOUS
<1>1. Absent \in FileSet
  BY DEF Absent, FileSet
<1>2. Shape
  BY <1>1, IdleFine, GateAssumption DEF Init, Shape
<1>3. Numbered
  <2>1. \A s \in Kinds : Written(s) = {}
    BY DEF Init, Written, Absent
  <2>2. 0 \in 0..MaxAttempts /\ 1..0 = {}
    BY GateAssumption DEF Attempts
  <2> QED BY <2>1, <2>2 DEF Numbered
<1>4. \A r \in Runners : Sound(runner[r])
  BY IdleFine DEF Init
<1> QED BY <1>2, <1>3, <1>4 DEF IInv

LEMMA IInvStep == IInv /\ [Next]_vars => IInv'
<1> SUFFICES ASSUME IInv, [Next]_vars PROVE IInv'
  OBVIOUS
<1>1. CASE UNCHANGED vars
  BY <1>1 DEF vars, IInv, Shape, Numbered, Sound, Written
<1>2. CASE Edit
  BY <1>2, EditKeeps
<1>3. ASSUME NEW r \in Runners, Kill(r) PROVE IInv'
  BY <1>3, EndsKeeps DEF Kill
<1> QED BY <1>1, <1>2, <1>3, StartKeeps, WorkKeeps, AuditKeeps, NumberKeeps, ClaimKeeps,
           CheckKeeps, CreateKeeps, FillKeeps DEF Next

LEMMA IInvTypes == IInv => TypeOK
BY DEF IInv, Shape, FileSet, RunnerSet, Sound, TypeOK

\* The numbering of the reports survives any number of overlapping commands.
THEOREM Inductive == Spec => []IInv
BY IInvInit, IInvStep, PTL DEF Spec

\* Every file and command has the shape the code gives it, and exactly a command
\* about to write has the number of its report, however many commands overlap.
THEOREM TypeCorrect == Spec => []TypeOK
BY Inductive, IInvTypes, PTL

-----------------------------------------------------------------------------
(* Commands that do not overlap in time.                                   *)

InTurn == \A r, q \in Runners : runner[r].pc # "idle" /\ runner[q].pc # "idle" => r = q

\* The path a command has tested is still vacant when it is opened.
Reserved ==
  \A r \in Runners :
    /\ runner[r].pc = "create" => file[runner[r].stage][runner[r].attempt].state = "absent"
    /\ runner[r].pc = "fill" => file[runner[r].stage][runner[r].attempt].state = "torn"

\* What a stage rests on; the first report is in the way of none of them.
Rests(s) ==
  /\ Whole("register", 1) /\ file["register"][1].ok
  /\ \A e \in Earlier(s) : Passing(e) /\ Whole(e, 1)

Rested ==
  /\ \A s \in Rollouts : Written(s) # {} => Rests(s)
  /\ \A r \in Runners :
       runner[r].pc # "idle" /\ runner[r].stage \in Rollouts => Rests(runner[r].stage)

\* Findings that hold passing evidence of whatever one of them builds on.
Vouches(found, s) == \E g \in found : g.stage = s /\ g.passed
InOrder(found) == \A f \in found : \A e \in Earlier(f.stage) : Vouches(found, e)

\* An audit has found what passed of the stages it has read.
Audited ==
  /\ \A n \in Attempts : Whole("g5", n) => InOrder(file["g5"][n].findings)
  /\ \A r \in Runners : runner[r].pc # "idle" => InOrder(runner[r].findings)
  /\ \A r \in Runners : runner[r].pc = "audit" =>
       \A i \in 1..(runner[r].position - 1) :
         StageOrder[i] \in Kinds /\ Passing(StageOrder[i])
           => Vouches(runner[r].findings, StageOrder[i])

Chain == Reserved /\ Rested /\ Audited

\* A command that writes does so where no whole report is.
LEMMA WritesOnce ==
  ASSUME IInv, Reserved, NEW r \in Runners, Create(r) \/ Fill(r)
  PROVE  \E s \in Kinds, a \in Attempts, f \in FileSet :
           /\ s = runner[r].stage /\ a = runner[r].attempt /\ ~ Whole(s, a)
           /\ file' = [file EXCEPT ![s] = [file[s] EXCEPT ![a] = f]]
           /\ Create(r) => f = Torn /\ file[s][a].state = "absent"
           /\ Fill(r) => /\ f.state = "whole" /\ f.findings = runner[r].findings
                         /\ file[s][a].state = "torn"
<1>1. runner[r] \in RunnerSet /\ Sound(runner[r]) /\ runner[r].pc \in {"create", "fill"}
  BY DEF IInv, Shape, Create, Fill
<1> PICK s \in Kinds : s = runner[r].stage
  BY <1>1 DEF Sound
<1> PICK a \in 0..MaxAttempts : a = runner[r].attempt
  BY <1>1 DEF RunnerSet
<1>2. a # 0
  BY <1>1 DEF Sound
<1>3. a \in Attempts
  BY <1>2, GateAssumption DEF Attempts
<1>4. CASE Create(r)
  <2>1. file' = [file EXCEPT ![s] = [file[s] EXCEPT ![a] = Torn]] /\ runner[r].pc = "create"
    BY <1>4 DEF Create
  <2>2. file[s][a].state = "absent"
    BY <2>1 DEF Reserved
  <2>3. Torn \in FileSet /\ ~ Fill(r) /\ ~ Whole(s, a)
    BY <2>1, <2>2 DEF Torn, Absent, FileSet, Fill, Whole
  <2> QED BY <1>3, <2>1, <2>2, <2>3
<1>5. CASE Fill(r)
  <2> PICK f : f = [state |-> "whole", ok |-> runner[r].ok, code |-> runner[r].claim,
                    findings |-> runner[r].findings]
    OBVIOUS
  <2>1. file' = [file EXCEPT ![s] = [file[s] EXCEPT ![a] = f]] /\ runner[r].pc = "fill"
    BY <1>5 DEF Fill
  <2>2. file[s][a].state = "torn"
    BY <2>1 DEF Reserved
  <2>3. f \in FileSet /\ f.state = "whole" /\ f.findings = runner[r].findings
    BY <1>1 DEF RunnerSet, FileSet
  <2>4. ~ Create(r) /\ ~ Whole(s, a)
    BY <2>1, <2>2 DEF Create, Whole
  <2> QED BY <1>3, <2>1, <2>2, <2>3, <2>4
<1> QED BY <1>4, <1>5

LEMMA WholeStays ==
  ASSUME IInv, Reserved, [Next]_vars, NEW s \in Kinds, NEW n \in Attempts, Whole(s, n)
  PROVE  file'[s][n] = file[s][n]
<1>1. CASE file' = file
  BY <1>1
<1>2. ASSUME NEW r \in Runners, Create(r) \/ Fill(r) PROVE file'[s][n] = file[s][n]
  <2>1. PICK t \in Kinds, a \in Attempts, f \in FileSet :
          ~ Whole(t, a) /\ file' = [file EXCEPT ![t] = [file[t] EXCEPT ![a] = f]]
    BY <1>2, WritesOnce
  <2>2. s # t \/ n # a
    BY <2>1
  <2> QED BY <2>1, <2>2 DEF IInv, Shape
<1> QED BY <1>1, <1>2
        DEF Next, vars, Edit, Register, StartProbe, StartAudit, StartRollout, Work, AuditStage,
            AuditVerdict, Number, Claim, Check, Kill

\* What has passed has passed.
LEMMA PassingStays ==
  ASSUME IInv, Reserved, [Next]_vars, NEW s \in Kinds
  PROVE  Passing(s) => Passing(s)'
BY WholeStays DEF Passing, Whole

LEMMA RestsStays ==
  ASSUME IInv, Reserved, [Next]_vars, NEW s \in Rollouts
  PROVE  Rests(s) => Rests(s)'
<1>1. 1 \in Attempts /\ "register" \in Kinds /\ Earlier(s) \subseteq Kinds
  BY GateAssumption, EarlierStages DEF Attempts, Kinds, Rollouts
<1>2. \A e \in Earlier(s) : Passing(e) => Passing(e)'
  BY <1>1, PassingStays
<1>3. \A e \in Earlier(s) : Whole(e, 1) => Whole(e, 1)'
  BY <1>1, WholeStays DEF Whole
<1>4. Whole("register", 1) => file'["register"][1] = file["register"][1]
  BY <1>1, WholeStays
<1> QED BY <1>2, <1>3, <1>4 DEF Rests, Whole

\* A step that changes one command and no file.
LEMMA ChainSuffices ==
  ASSUME IInv, Chain, file' = file, NEW r \in Runners, NEW c \in RunnerSet,
         runner' = [runner EXCEPT ![r] = c],
         c.pc = "create" => file[c.stage][c.attempt].state = "absent", c.pc # "fill",
         c.pc # "idle" /\ c.stage \in Rollouts => Rests(c.stage),
         c.pc # "idle" => InOrder(c.findings),
         c.pc = "audit" => \A i \in 1..(c.position - 1) :
           StageOrder[i] \in Kinds /\ Passing(StageOrder[i])
             => Vouches(c.findings, StageOrder[i])
  PROVE  Chain'
<1>1. runner'[r] = c /\ \A q \in Runners \ {r} : runner'[q] = runner[q]
  BY DEF IInv, Shape
<1>2. \A s : Passing(s)' = Passing(s) /\ Rests(s)' = Rests(s) /\ Written(s)' = Written(s)
  BY DEF Passing, Rests, Whole, Written
<1>3. Reserved'
  BY <1>1 DEF Chain, Reserved
<1>4. Rested'
  BY <1>1, <1>2 DEF Chain, Rested, Rests, Whole, Passing
<1>5. \A n \in Attempts : Whole("g5", n)' => InOrder(file'["g5"][n].findings)
  BY DEF Chain, Audited, Whole
<1>6. \A q \in Runners : runner'[q].pc # "idle" => InOrder(runner'[q].findings)
  BY <1>1 DEF Chain, Audited
<1>7. \A q \in Runners : runner'[q].pc = "audit" =>
        \A i \in 1..(runner'[q].position - 1) :
          StageOrder[i] \in Kinds /\ Passing(StageOrder[i])'
            => Vouches(runner'[q].findings, StageOrder[i])
  BY <1>1 DEF Chain, Audited, Passing, Whole
<1> QED BY <1>3, <1>4, <1>5, <1>6, <1>7 DEF Chain, Audited, InOrder, Vouches

LEMMA EndsChains ==
  ASSUME IInv, Chain, file' = file, NEW r \in Runners, Ends(r)
  PROVE  Chain'
<1>1. Idle \in RunnerSet /\ Idle.pc = "idle" /\ runner' = [runner EXCEPT ![r] = Idle]
  BY IdleFine DEF Idle, Ends
<1> QED BY <1>1, ChainSuffices

\* What the guard has read is what the stage rests on.
LEMMA OpensRests ==
  ASSUME IInv, NEW s \in Rollouts, Opens(s), Whole("register", 1), file["register"][1].ok
  PROVE  Rests(s)
<1> SUFFICES ASSUME NEW e \in Earlier(s) PROVE Passing(e) /\ Whole(e, 1)
  BY DEF Rests
<1>1. e \in Kinds /\ 1 \in Attempts
  BY EarlierStages, GateAssumption DEF Kinds, Rollouts, Attempts
<1>2. PICK n \in Attempts : /\ file[e][n].state = "whole" /\ file[e][n].ok
                            /\ \A m \in 1..(n - 1) : file[e][m].state # "torn"
  BY DEF Opens
<1>3. Passing(e)
  BY <1>2 DEF Passing, Whole
<1>4. PICK k \in 0..MaxAttempts : Written(e) = 1..k
  BY <1>1 DEF IInv, Numbered
<1>5. n \in 1..k /\ 1 \in 1..k
  <2>1. n \in Written(e)
    BY <1>2 DEF Written
  <2> QED BY <1>4, <2>1, GateAssumption DEF Attempts
<1>6. file[e][1].state # "absent"
  BY <1>4, <1>5 DEF Written
<1>7. file[e][1].state # "torn"
  <2>1. CASE n = 1
    BY <1>2, <2>1
  <2>2. CASE n # 1
    <3>1. 1 \in 1..(n - 1)
      BY <2>2, GateAssumption DEF Attempts
    <3> QED BY <1>2, <3>1
  <2> QED BY <2>1, <2>2
<1>8. file[e][1] \in FileSet
  BY <1>1 DEF IInv, Shape
<1> QED BY <1>3, <1>6, <1>7, <1>8 DEF Whole, FileSet

LEMMA StartChains ==
  ASSUME IInv, Chain, NEW r \in Runners,
         \/ Register(r) \/ StartProbe(r) \/ StartAudit(r)
         \/ \E s \in Rollouts : StartRollout(r, s)
  PROVE  Chain'
<1>1. file' = file
  BY DEF Register, StartProbe, StartAudit, StartRollout
<1>2. runner'[r] \in RunnerSet /\ runner' = [runner EXCEPT ![r] = runner'[r]]
  <2>1. IInv'
    BY StartKeeps
  <2>2. \E c : runner' = [runner EXCEPT ![r] = c]
    BY DEF Register, StartProbe, StartAudit, StartRollout
  <2> QED BY <2>1, <2>2 DEF IInv, Shape
<1> PICK c \in RunnerSet : c = runner'[r]
  BY <1>2
<1>3. /\ c.pc \in {"claim", "work", "audit"} /\ c.findings = {}
      /\ c.pc = "audit" => c.position = 1
      /\ c.stage \in Rollouts => \E s \in Rollouts : s = c.stage /\ StartRollout(r, s)
  <2> USE DEF Idle, Rollouts, IInv, Shape
  <2>1. CASE Register(r)
    BY <2>1 DEF Register
  <2>2. CASE StartProbe(r)
    BY <2>2 DEF StartProbe
  <2>3. CASE StartAudit(r)
    BY <2>3 DEF StartAudit
  <2>4. ASSUME NEW s \in Rollouts, StartRollout(r, s)
        PROVE  c.pc = "work" /\ c.findings = {} /\ c.stage = s
    BY <2>4 DEF StartRollout
  <2> QED BY <2>1, <2>2, <2>3, <2>4
<1>4. c.stage \in Rollouts => Rests(c.stage)
  <2> SUFFICES ASSUME NEW s \in Rollouts, s = c.stage, StartRollout(r, s) PROVE Rests(s)
    BY <1>3
  <2> QED BY OpensRests DEF StartRollout, Whole
<1>5. InOrder(c.findings)
  BY <1>3 DEF InOrder
<1>6. c.pc = "audit" => 1..(c.position - 1) = {}
  BY <1>3
<1> QED BY <1>1, <1>2, <1>3, <1>4, <1>5, <1>6, ChainSuffices

\* A command that goes on with the stage and the findings it has.
LEMMA GoesOnChains ==
  ASSUME IInv, Chain, NEW r \in Runners,
         Work(r) \/ AuditVerdict(r) \/ Number(r) \/ Claim(r) \/ Check(r)
  PROVE  Chain'
<1>1. file' = file /\ runner[r].pc # "idle"
  BY DEF Work, AuditVerdict, Number, Claim, Check
<1>2. CASE ~ Ends(r)
  <2>1. IInv' /\ runner[r] \in RunnerSet
    BY WorkKeeps, AuditKeeps, NumberKeeps, ClaimKeeps, CheckKeeps DEF IInv, Shape
  <2>2. runner'[r] \in RunnerSet /\ runner' = [runner EXCEPT ![r] = runner'[r]]
    <3>1. \A q \in Runners \ {r} : runner'[q] = runner[q]
      BY <1>2 DEF Work, AuditVerdict, Number, Claim, Check, IInv, Shape
    <3> QED BY <2>1, <3>1 DEF IInv, Shape
  <2> PICK c \in RunnerSet : c = runner'[r]
    BY <2>2
  <2>3. /\ c.pc \in {"number", "claim", "check", "create"}
        /\ c.stage = runner[r].stage /\ c.findings = runner[r].findings
        /\ c.pc = "create" => /\ Vacant(runner[r].stage, runner[r].attempt)
                              /\ c.attempt = runner[r].attempt
    <3> USE <1>2, <2>1 DEF IInv, Shape, RunnerSet
    <3>1. CASE Work(r)
      <4>1. PICK passed \in BOOLEAN :
              runner' = [runner EXCEPT ![r].pc = "number", ![r].ok = passed]
        BY <3>1 DEF Work
      <4> QED BY <4>1
    <3>2. CASE AuditVerdict(r)
      BY <3>2 DEF AuditVerdict
    <3>3. CASE Number(r)
      BY <3>3 DEF Number
    <3>4. CASE Claim(r)
      BY <3>4 DEF Claim
    <3>5. CASE Check(r)
      <4>1. Vacant(runner[r].stage, runner[r].attempt) /\ runner' = [runner EXCEPT ![r].pc = "create"]
        BY <3>5 DEF Check
      <4> QED BY <4>1
    <3> QED BY <3>1, <3>2, <3>3, <3>4, <3>5
  <2>4. /\ c.stage \in Rollouts => Rests(c.stage)
        /\ InOrder(c.findings)
        /\ c.pc = "create" => file[c.stage][c.attempt].state = "absent"
    BY <1>1, <2>3 DEF Chain, Rested, Audited, Vacant
  <2> QED BY <1>1, <2>2, <2>3, <2>4, ChainSuffices
<1> QED BY <1>1, <1>2, EndsChains

\* The findings of one stage are in order after those of the earlier stages.
LEMMA AuditChains ==
  ASSUME IInv, Chain, NEW r \in Runners, AuditStage(r)
  PROVE  Chain'
<1>1. file' = file /\ runner[r].pc = "audit" /\ runner[r].position <= Len(StageOrder)
  BY DEF AuditStage
<1>2. CASE Ends(r)
  BY <1>1, <1>2, EndsChains
<1>3. CASE ~ Ends(r)
  <2> PICK p : p = runner[r].position
    OBVIOUS
  <2> PICK s : s = StageOrder[p]
    OBVIOUS
  <2> PICK F : F = runner[r].findings
    OBVIOUS
  <2>1. runner' = [runner EXCEPT ![r].position = @ + 1, ![r].findings = @ \cup Findings(s)]
    BY <1>3 DEF AuditStage
  <2>2. IInv' /\ runner[r] \in RunnerSet /\ Sound(runner[r])
    BY AuditKeeps DEF IInv, Shape
  <2>3. p \in {1, 2, 3, 4, 5} /\ p \in Nat
    <3>1. p \in 0..(Len(StageOrder) + 1) /\ p # 0
      BY <1>1, <2>2 DEF RunnerSet, Sound
    <3> QED BY <1>1, <3>1, Order
  <2>4. s \in {"g0", "g1", "g2", "g3", "g4"}
    BY <2>3, Order
  <2>5. ASSUME NEW e \in Earlier(s), s \in Kinds, Written(s) # {} PROVE Vouches(F, e)
    <3>1. s \in {"g0"} \cup Rollouts
      BY <2>4, <2>5 DEF Kinds, Rollouts
    <3>2. s \in Rollouts
      BY <2>5, <3>1, EarlierStages
    <3>3. Passing(e)
      BY <2>5, <3>2 DEF Chain, Rested, Rests
    <3>4. PICK i \in 1..(p - 1) : StageOrder[i] = e
      BY <2>3, <2>4, <2>5, <3>2, Order, EarlierStages DEF Rollouts
    <3>5. e \in Kinds
      BY <2>5, <3>2, EarlierStages DEF Kinds, Rollouts
    <3> QED BY <1>1, <3>3, <3>4, <3>5 DEF Chain, Audited
  <2>6. ASSUME s \in Kinds, Passing(s) PROVE Vouches(Findings(s), s)
    <3>1. PICK n \in Attempts : Whole(s, n) /\ file[s][n].ok
      BY <2>6 DEF Passing
    <3>2. n \in Written(s)
      BY <3>1 DEF Written, Whole
    <3> DEFINE g == [stage |-> s, passed |-> file[s][n].ok, matches |-> file[s][n].code = code]
    <3>3. g \in Findings(s)
      BY <2>6, <3>2 DEF Findings
    <3>4. g.stage = s /\ g.passed
      BY <3>1
    <3> QED BY <3>3, <3>4 DEF Vouches
  <2> PICK G : G = Findings(s)
    OBVIOUS
  <2>7. \A f \in G : f.stage = s /\ s \in Kinds /\ Written(s) # {}
    BY DEF Findings
  <2>8. InOrder(F \cup G)
    <3>1. ASSUME NEW f \in G, NEW e \in Earlier(f.stage) PROVE Vouches(F, e)
      BY <2>5, <2>7, <3>1
    <3>2. InOrder(F)
      BY <1>1 DEF Chain, Audited
    <3>3. \A e : Vouches(F, e) => Vouches(F \cup G, e)
      BY DEF Vouches
    <3> QED BY <3>1, <3>2, <3>3 DEF InOrder
  <2>9. \A i \in 1..p : StageOrder[i] \in Kinds /\ Passing(StageOrder[i])
                          => Vouches(F \cup G, StageOrder[i])
    <3>1. \A i \in 1..(p - 1) : StageOrder[i] \in Kinds /\ Passing(StageOrder[i])
                                  => Vouches(F, StageOrder[i])
      BY <1>1 DEF Chain, Audited
    <3>2. \A i \in 1..p : i = p \/ i \in 1..(p - 1)
      BY <2>3
    <3> QED BY <2>6, <3>1, <3>2 DEF Vouches
  <2> PICK c : c = [runner[r] EXCEPT !.position = p + 1, !.findings = F \cup G]
    OBVIOUS
  <2>10. runner' = [runner EXCEPT ![r] = c]
    BY <2>1 DEF IInv, Shape
  <2>11. c \in RunnerSet
    BY <2>2, <2>10 DEF IInv, Shape
  <2>12. /\ c.pc = "audit" /\ c.stage = "g5" /\ c.position = p + 1
         /\ c.findings = F \cup G
    BY <1>1, <2>2 DEF RunnerSet, Sound
  <2>13. 1..(c.position - 1) = 1..p /\ c.stage \notin Rollouts
    BY <2>3, <2>12 DEF Rollouts
  <2>14. \A i \in 1..(c.position - 1) : StageOrder[i] \in Kinds /\ Passing(StageOrder[i])
                                           => Vouches(c.findings, StageOrder[i])
    BY <2>9, <2>12, <2>13
  <2>15. InOrder(c.findings)
    BY <2>8, <2>12
  <2> QED BY <1>1, <2>10, <2>11, <2>12, <2>13, <2>14, <2>15, ChainSuffices
<1> QED BY <1>2, <1>3

\* A report is written while nobody else is there.
LEMMA WriteChains ==
  ASSUME InTurn, IInv, Chain, NEW r \in Runners, Create(r) \/ Fill(r)
  PROVE  Chain'
<1>1. Reserved /\ [Next]_vars
  BY DEF Chain, Next
<1>2. IInv' /\ runner[r] \in RunnerSet /\ Sound(runner[r])
  BY CreateKeeps, FillKeeps DEF IInv, Shape
<1>3. PICK s \in Kinds, a \in Attempts, f \in FileSet :
        /\ s = runner[r].stage /\ a = runner[r].attempt /\ ~ Whole(s, a)
        /\ file' = [file EXCEPT ![s] = [file[s] EXCEPT ![a] = f]]
        /\ Create(r) => f = Torn /\ file[s][a].state = "absent"
        /\ Fill(r) => f.state = "whole" /\ f.findings = runner[r].findings
                        /\ file[s][a].state = "torn"
  BY <1>1, WritesOnce
<1>4. file'[s][a] = f
      /\ \A t \in Kinds, n \in Attempts : t # s \/ n # a => file'[t][n] = file[t][n]
  BY <1>3 DEF IInv, Shape
<1>5. \/ /\ Create(r) /\ runner'[r].pc = "fill" /\ runner'[r].stage = s
         /\ runner'[r].attempt = a /\ runner'[r].findings = runner[r].findings
      \/ Fill(r) /\ runner'[r].pc = "idle"
  <2>1. CASE Create(r)
    <3>1. runner' = [runner EXCEPT ![r].pc = "fill"] /\ runner \in [Runners -> RunnerSet]
      BY <2>1 DEF Create, IInv, Shape
    <3> QED BY <1>2, <1>3, <2>1, <3>1 DEF RunnerSet
  <2>2. CASE Fill(r)
    BY <2>2 DEF Fill, Ends, Idle, IInv, Shape
  <2> QED BY <2>1, <2>2
<1>6. runner[r].pc # "idle"
  BY DEF Create, Fill
<1>others. \A q \in Runners \ {r} : runner'[q].pc = "idle"
  <2>1. \A q \in Runners \ {r} : runner'[q] = runner[q]
    BY DEF Create, Fill, Ends, IInv, Shape
  <2>2. \A q \in Runners \ {r} : runner[q].pc = "idle"
    BY <1>6 DEF InTurn
  <2> QED BY <2>1, <2>2
<1>7. Reserved'
  <2> SUFFICES ASSUME NEW q \in Runners
               PROVE  /\ runner'[q].pc # "create"
                      /\ runner'[q].pc = "fill" =>
                           file'[runner'[q].stage][runner'[q].attempt].state = "torn"
    BY DEF Reserved
  <2>1. q # r => runner'[q].pc = "idle"
    BY <1>others
  <2>2. Create(r) => file'[s][a].state = "torn"
    BY <1>3, <1>4 DEF Torn, Absent
  <2> QED BY <1>5, <2>1, <2>2
<1>8. \A t \in Rollouts : Written(t)' # {} => Rests(t)
  <2> SUFFICES ASSUME NEW t \in Rollouts, NEW n \in Attempts, file'[t][n].state # "absent"
               PROVE  Rests(t)
    BY DEF Written
  <2>1. CASE t = s
    BY <1>3, <1>6, <2>1 DEF Chain, Rested
  <2>2. CASE t # s
    <3>1. n \in Written(t)
      BY <1>4, <2>2 DEF Written, Kinds, Rollouts
    <3> QED BY <3>1 DEF Chain, Rested
  <2> QED BY <2>1, <2>2
<1>9. Rested'
  <2>1. \A t \in Rollouts : Rests(t) => Rests(t)'
    BY <1>1, RestsStays
  <2>2. \A t \in Rollouts : Written(t)' # {} => Rests(t)'
    BY <1>8, <2>1
  <2>3. ASSUME NEW q \in Runners, runner'[q].pc # "idle", runner'[q].stage \in Rollouts
        PROVE  Rests(runner[q].stage)'
    <3>1. q = r /\ runner'[q].stage = s /\ s \in Rollouts
      BY <1>5, <1>others, <2>3
    <3>2. Rests(s)
      BY <1>3, <1>6, <3>1 DEF Chain, Rested
    <3>3. Rests(s)'
      BY <2>1, <3>1, <3>2
    <3> QED BY <3>1, <3>3
  <2> QED BY <2>2, <2>3 DEF Rested
<1>10. \A n \in Attempts : Whole("g5", n)' => InOrder(file["g5"][n].findings)'
  <2> SUFFICES ASSUME NEW n \in Attempts, file'["g5"][n].state = "whole"
               PROVE  InOrder(file'["g5"][n].findings)
    BY DEF Whole, InOrder, Vouches
  <2>1. CASE s = "g5" /\ n = a
    <3>1. f.findings = runner[r].findings
      BY <1>3, <1>4, <2>1 DEF Torn, Absent
    <3>2. InOrder(runner[r].findings)
      BY <1>6 DEF Chain, Audited
    <3> QED BY <1>4, <2>1, <3>1, <3>2
  <2>2. CASE ~ (s = "g5" /\ n = a)
    <3>1. file'["g5"][n] = file["g5"][n]
      BY <1>4, <2>2 DEF Kinds
    <3> QED BY <3>1 DEF Chain, Audited, Whole
  <2> QED BY <2>1, <2>2
<1>11. ASSUME NEW q \in Runners
       PROVE  /\ runner'[q].pc # "idle" => InOrder(runner'[q].findings)
              /\ runner'[q].pc # "audit"
  <2>1. q # r => runner'[q].pc = "idle"
    BY <1>others
  <2> QED BY <1>5, <1>6, <2>1 DEF Chain, Audited
<1>12. Audited'
  BY <1>10, <1>11 DEF Audited, InOrder, Vouches
<1> QED BY <1>7, <1>9, <1>12 DEF Chain

LEMMA ChainStep ==
  ASSUME InTurn, IInv, Chain, [Next]_vars
  PROVE  Chain'
<1>1. CASE UNCHANGED vars \/ Edit
  <2>1. UNCHANGED <<file, runner>>
    BY <1>1 DEF vars, Edit
  <2> QED BY <2>1 DEF Chain, Reserved, Rested, Rests, Audited, InOrder, Vouches, Whole, Passing,
                  Written
<1>2. ASSUME NEW r \in Runners, Kill(r) PROVE Chain'
  BY <1>2, EndsChains DEF Kill
<1> QED BY <1>1, <1>2, StartChains, GoesOnChains, AuditChains, WriteChains DEF Next

LEMMA ChainInit == Init => Chain
<1> SUFFICES ASSUME Init PROVE Chain
  OBVIOUS
<1>1. \A s \in Kinds, n \in Attempts : file[s][n].state = "absent"
  BY DEF Init, Absent
<1>2. \A r \in Runners : runner[r].pc = "idle"
  BY DEF Init, Idle
<1>3. \A s \in Rollouts : Written(s) = {}
  BY <1>1 DEF Written, Kinds, Rollouts
<1>4. \A n \in Attempts : ~ Whole("g5", n)
  BY <1>1 DEF Whole, Kinds
<1> QED BY <1>2, <1>3, <1>4 DEF Chain, Reserved, Rested, Audited

LEMMA ChainOrders == IInv /\ Chain => ChainIsOrdered
<1> SUFFICES ASSUME IInv, Chain PROVE ChainIsOrdered
  OBVIOUS
<1>1. RolloutsRest
  <2> SUFFICES ASSUME NEW s \in Rollouts, NEW n \in Attempts, Whole(s, n)
               PROVE  /\ Whole("register", 1) /\ file["register"][1].ok
                      /\ \A e \in Earlier(s) : Passing(e)
    BY DEF RolloutsRest
  <2>1. n \in Written(s)
    BY DEF Written, Whole
  <2> QED BY <2>1 DEF Chain, Rested, Rests
<1>2. TornCloses
  BY DEF TornCloses, Chain, Rested, Rests, Whole
<1>3. AuditInOrder
  BY DEF AuditInOrder, Chain, Audited, InOrder, Vouches
<1> QED BY <1>1, <1>2, <1>3 DEF ChainIsOrdered

\* However many commands there are, killed or not, and however often the
\* workspace is edited: while no two of them overlap, a rollout report rests on a
\* capable registration and on passing reports of every earlier stage, a torn
\* first report closes the gate, and an audit holds passing evidence of whatever
\* it found builds on.
THEOREM OrderedInTurn == Spec /\ []InTurn => []ChainIsOrdered
<1>1. Init => IInv /\ Chain
  BY IInvInit, ChainInit
<1>2. (IInv /\ Chain) /\ InTurn /\ [Next]_vars => (IInv /\ Chain)'
  BY IInvStep, ChainStep
<1>3. IInv /\ Chain => ChainIsOrdered
  BY ChainOrders
<1> QED BY <1>1, <1>2, <1>3, PTL DEF Spec

\* While no two commands overlap evidence is create-only: no step changes a
\* report that is whole.
THEOREM EvidenceKeptInTurn == Spec /\ []InTurn => EvidenceKept
<1>1. Init => IInv /\ Chain
  BY IInvInit, ChainInit
<1>2. (IInv /\ Chain) /\ InTurn /\ [Next]_vars => (IInv /\ Chain)'
  BY IInvStep, ChainStep
<1>3. IInv /\ Chain /\ [Next]_vars =>
        [\A s \in Kinds : \A n \in Attempts : Whole(s, n) => file'[s][n] = file[s][n]]_vars
  BY WholeStays DEF Chain
<1> QED BY <1>1, <1>2, <1>3, PTL DEF Spec, EvidenceKept


-----------------------------------------------------------------------------
(* The place of a stage in the order.                                      *)

StageNames == {"open", "approach", "orient", "descend", "grasp", "transport",
               "socket_approach", "align", "insert", "complete"}

Place(stage) == CHOOSE i \in 1..10 : Stages[i] = stage

LEMMA TenStages == Len(Stages) = 10 /\ LoopRange = 10 /\ StageSet = StageNames
<1>1. Len(Stages) = 10
  BY DEF Stages
<1>2. \A i \in 1..10 : i \in {1, 2, 3, 4, 5, 6, 7, 8, 9, 10}
  OBVIOUS
<1>3. StageSet = {Stages[i] : i \in {1, 2, 3, 4, 5, 6, 7, 8, 9, 10}}
  BY <1>1, <1>2 DEF StageSet
<1>4. StageSet = StageNames
  BY <1>3 DEF Stages, StageNames
<1> QED BY <1>1, <1>4 DEF LoopRange

LEMMA Places ==
  /\ Place("open") = 1 /\ Place("approach") = 2 /\ Place("orient") = 3
  /\ Place("descend") = 4 /\ Place("grasp") = 5 /\ Place("transport") = 6
  /\ Place("socket_approach") = 7 /\ Place("align") = 8 /\ Place("insert") = 9
  /\ Place("complete") = 10
<1>1. ASSUME NEW i \in 1..10, NEW j \in 1..10, Stages[i] = Stages[j] PROVE i = j
  BY <1>1 DEF Stages
<1>2. \A i \in 1..10 : Place(Stages[i]) = i
  BY <1>1 DEF Place
<1> QED BY <1>2 DEF Stages

-----------------------------------------------------------------------------
(* The inductive invariant.                                                *)

\* The references are those of this episode once the stage is left, and are
\* not captured before that.
From(stage, names) ==
  \A name \in names :
    captured[name] = IF Place(phase) > Place(stage) THEN episode ELSE 0

\* The home of the arms is captured by the first decision of the first stage.
Ledger ==
  /\ captured["home"] \in {0, episode}
  /\ phase # "open" \/ pc \in {"advance", "command"} => captured["home"] = episode
  /\ From("open", {"objects"}) /\ From("approach", {"orient"})
  /\ From("grasp", {"peg_from_right"}) /\ From("transport", Frozen)

\* Every iteration of the loop that did not return passed a stage.
Progress == pc = "advance" => iteration < Place(phase)

\* The stall history is of the present stage or of an earlier one, and not
\* longer than the decisions made in it; a decision that is no longer in the
\* stage of the history has entered its own stage itself.
Windows ==
  /\ stallPhase = "none" \/ Place(stallPhase) <= Place(phase)
  /\ stallPhase = phase => stallHistory <= inPhase
  /\ candidate = "geometric" /\ pc \in {"home", "advance"} =>
       stallPhase = phase \/ inPhase = 0

TeacherIInv == TeacherTypeOK /\ Ledger /\ Progress /\ Windows /\ ReferencesFrozen

-----------------------------------------------------------------------------
(* The steps of the loop that go to another stage.                         *)

\* Whatever else it does, a step to a later stage keeps the counts.
LEMMA Counts ==
  ASSUME TeacherTypeOK, Progress, Windows, NEW stage \in StageNames, pc = "advance",
         iteration < LoopRange, GoTo(stage), Place(stage) > Place(phase)
  PROVE  Progress' /\ Windows'
<1>1. Place(phase) \in 1..10 /\ Place(stage) \in 1..10
  BY TenStages, Places DEF StageNames, TeacherTypeOK
<1>2. stallPhase = "none" \/ Place(stallPhase) \in 1..10
  BY TenStages, Places DEF StageNames, TeacherTypeOK
<1>3. Progress'
  BY <1>1, TenStages DEF TeacherTypeOK, Progress, GoTo
<1>4. Windows'
  <2>1. stallPhase # stage
    BY <1>1, <1>2, Places DEF Windows, StageNames
  <2> QED BY <1>1, <1>2, <2>1 DEF Windows, GoTo, escapes
<1> QED BY <1>3, <1>4

\* A reference that was not captured before is not captured again.
LEMMA FirstTime ==
  ASSUME TeacherTypeOK, NEW names \in SUBSET CaptureNames, Capture(names),
         \A name \in names : captured[name] = 0
  PROVE  /\ recaptured' = recaptured
         /\ captured' \in [CaptureNames -> 0..MaxEpisodes]
         /\ \A name \in CaptureNames :
              captured'[name] = IF name \in names THEN episode ELSE captured[name]
<1>1. \A name \in names : captured[name] # episode
  BY DEF TeacherTypeOK
<1>2. recaptured' = recaptured
  BY <1>1 DEF Capture
<1>3. captured' \in [CaptureNames -> 0..MaxEpisodes]
  BY TeacherAssumption DEF Capture, TeacherTypeOK
<1> QED BY <1>2, <1>3 DEF Capture

-----------------------------------------------------------------------------
(* Every action keeps the invariant.                                       *)

LEMMA TeacherIInvInit == TeacherInit => TeacherIInv
<1> SUFFICES ASSUME TeacherInit PROVE TeacherIInv
  OBVIOUS
<1> USE TeacherAssumption, TenStages, Places DEF TeacherInit
<1>1. TeacherTypeOK
  <2>1. captured \in [CaptureNames -> 0..MaxEpisodes]
    <3>1. 0 \in 0..MaxEpisodes
      OBVIOUS
    <3> QED BY <3>1
  <2>2. unlock \in [decisions : 0..Window, stage : StageSet \cup {"none"}]
    BY DEF NeverUnlocked, StageNames
  <2>3. flipped \in BOOLEAN /\ alignEscape \in BOOLEAN /\ insertPress \in BOOLEAN
    OBVIOUS
  <2>4. still \in BOOLEAN
    OBVIOUS
  <2>5. candidate = "scripted" => ~ alignEscape /\ ~ insertPress /\ stallHistory = 0
    OBVIOUS
  <2> QED BY <2>1, <2>2, <2>3, <2>4, <2>5 DEF TeacherTypeOK, StageNames
<1>2. Ledger
  BY DEF Ledger, From, CaptureNames, Frozen
<1>3. Progress /\ Windows /\ ReferencesFrozen
  BY DEF Progress, Windows, ReferencesFrozen
<1> QED BY <1>1, <1>2, <1>3 DEF TeacherIInv

LEMMA TeacherIInvStep == TeacherIInv /\ [TeacherNext]_teacherVars => TeacherIInv'
<1> SUFFICES ASSUME TeacherIInv, [TeacherNext]_teacherVars PROVE TeacherIInv'
  OBVIOUS
<1> USE TeacherAssumption, TenStages, Places
        DEF TeacherIInv, captures, escapes, past, Keep, ReferencesFrozen
<1>1. CASE Reset
  <2>1. TeacherTypeOK'
    <3>1. captured' \in [CaptureNames -> 0..MaxEpisodes]
      <4>1. 0 \in 0..MaxEpisodes
        OBVIOUS
      <4> QED BY <1>1, <4>1 DEF Reset
    <3>2. unlock' \in [decisions : 0..Window, stage : StageSet \cup {"none"}]
      BY <1>1 DEF Reset, NeverUnlocked, StageNames
    <3>3. flipped' \in BOOLEAN /\ alignEscape' \in BOOLEAN /\ insertPress' \in BOOLEAN
      BY <1>1 DEF Reset
    <3>4. candidate' = "scripted" => ~ alignEscape' /\ ~ insertPress' /\ stallHistory' = 0
      BY <1>1 DEF Reset
    <3> QED BY <1>1, <3>1, <3>2, <3>3, <3>4 DEF Reset, TeacherTypeOK, StageNames
  <2>2. Ledger'
    BY <1>1 DEF Reset, TeacherTypeOK, Ledger, From, CaptureNames, Frozen
  <2>3. Progress' /\ Windows' /\ ReferencesFrozen'
    BY <1>1 DEF Reset, TeacherTypeOK, Progress, Windows
  <2> QED BY <2>1, <2>2, <2>3
<1>2. CASE Observe
  <2> USE <1>2 DEF Observe
  <2>1. CASE candidate = "geometric"
    <3>1. PICK touching \in BOOLEAN : Engage(Recorded(stallHistory), still', touching)
      BY <2>1
    <3>2. Recorded(stallHistory) \in 0..Window /\ Recorded(stallHistory) <= inPhase'
      BY DEF Recorded, TeacherTypeOK, Windows
    <3>3. Place(phase) \in 1..10
      BY DEF TeacherTypeOK, StageNames
    <3>4. CASE Stalled(Recorded(stallHistory), still') /\ Recaptures(phase)
      <4>1. /\ phase = "align" /\ captured["socket_from_left"] = episode
            /\ Capture({"socket_from_left"})
        BY <3>1, <3>4 DEF Engage, Recaptures, Ledger, From, Frozen
      <4>2. captured' = captured
        BY <4>1 DEF Capture, TeacherTypeOK, CaptureNames
      <4>3. recaptured' \subseteq recaptured \cup {<<"socket_from_left", "align">>}
        BY <4>1 DEF Capture
      <4>4. recaptured' \subseteq CaptureNames \X StageSet
        <5>1. <<"socket_from_left", "align">> \in CaptureNames \X StageSet
          BY DEF CaptureNames, StageNames
        <5> QED BY <4>3, <5>1 DEF TeacherTypeOK
      <4>5. alignEscape' \in BOOLEAN /\ insertPress' \in BOOLEAN
        BY <3>1, <3>4 DEF Engage, TeacherTypeOK
      <4>6. TeacherTypeOK'
        BY <2>1, <3>1, <3>2, <4>2, <4>4, <4>5 DEF TeacherTypeOK, Engage
      <4>7. Ledger'
        BY <4>1, <4>2 DEF Ledger, From
      <4>8. Progress' /\ Windows' /\ ReferencesFrozen'
        BY <2>1, <3>1, <3>2, <3>3, <4>3 DEF Progress, Windows, Engage
      <4> QED BY <4>6, <4>7, <4>8
    <3>5. CASE ~ (Stalled(Recorded(stallHistory), still') /\ Recaptures(phase))
      <4>1. captured' = captured /\ recaptured' = recaptured /\ alignEscape' = alignEscape
        BY <3>1, <3>5 DEF Engage
      <4>2. TeacherTypeOK'
        BY <2>1, <3>1, <3>2, <4>1 DEF TeacherTypeOK, Engage
      <4>3. Ledger'
        BY <4>1 DEF Ledger, From
      <4>4. Progress' /\ Windows' /\ ReferencesFrozen'
        BY <2>1, <3>1, <3>2, <3>3, <4>1 DEF Progress, Windows, Engage
      <4> QED BY <4>2, <4>3, <4>4
    <3> QED BY <3>4, <3>5
  <2>2. CASE candidate # "geometric"
    <3>1. TeacherTypeOK'
      BY <2>2 DEF TeacherTypeOK
    <3>2. Ledger'
      BY <2>2 DEF Ledger, From
    <3>3. Progress' /\ Windows' /\ ReferencesFrozen'
      BY <2>2 DEF Progress, Windows, TeacherTypeOK
    <3> QED BY <3>1, <3>2, <3>3
  <2> QED BY <2>1, <2>2
<1>3. CASE CaptureHome
  <2> USE <1>3 DEF CaptureHome
  <2>1. /\ recaptured' = recaptured /\ captured' \in [CaptureNames -> 0..MaxEpisodes]
        /\ captured'["home"] = episode
        /\ \A name \in CaptureNames \ {"home"} : captured'[name] = captured[name]
    <3>1. CASE captured["home"] = 0
      BY <3>1, FirstTime DEF CaptureNames
    <3>2. CASE captured["home"] # 0
      BY <3>2 DEF TeacherTypeOK, Ledger
    <3> QED BY <3>1, <3>2
  <2>2. TeacherTypeOK'
    BY <2>1 DEF TeacherTypeOK
  <2>3. Ledger'
    BY <2>1 DEF Ledger, From, CaptureNames, Frozen
  <2>4. Progress' /\ Windows' /\ ReferencesFrozen'
    BY <2>1 DEF Progress, Windows, TeacherTypeOK, StageNames
  <2> QED BY <2>2, <2>3, <2>4
<1>4. CASE Return \/ Command
  <2>1. TeacherTypeOK'
    BY <1>4 DEF Return, Command, TeacherTypeOK
  <2>2. Ledger'
    BY <1>4 DEF Return, Command, Ledger, From
  <2>3. Progress' /\ Windows' /\ ReferencesFrozen'
    BY <1>4 DEF Return, Command, Progress, Windows
  <2> QED BY <2>1, <2>2, <2>3
<1>5. CASE Open
  <2> USE <1>5 DEF Open, In
  <2>1. \A name \in {"objects"} : captured[name] = 0
    BY DEF Ledger, From
  <2>2. /\ recaptured' = recaptured /\ captured' \in [CaptureNames -> 0..MaxEpisodes]
        /\ \A name \in CaptureNames :
             captured'[name] = IF name = "objects" THEN episode ELSE captured[name]
    BY <2>1, FirstTime DEF CaptureNames
  <2>3. TeacherTypeOK'
    BY <2>2 DEF TeacherTypeOK, GoTo, StageNames
  <2>4. Ledger'
    BY <2>2 DEF Ledger, From, CaptureNames, Frozen, GoTo
  <2> QED BY <2>2, <2>3, <2>4, Counts DEF StageNames
<1>6. CASE Approach
  <2> USE <1>6 DEF Approach, In
  <2>1. \A name \in {"orient"} : captured[name] = 0
    BY DEF Ledger, From
  <2>2. /\ recaptured' = recaptured /\ captured' \in [CaptureNames -> 0..MaxEpisodes]
        /\ \A name \in CaptureNames :
             captured'[name] = IF name = "orient" THEN episode ELSE captured[name]
    BY <2>1, FirstTime DEF CaptureNames
  <2>3. TeacherTypeOK'
    BY <2>2 DEF TeacherTypeOK, GoTo, StageNames
  <2>4. Ledger'
    BY <2>2 DEF Ledger, From, CaptureNames, Frozen, GoTo
  <2> QED BY <2>2, <2>3, <2>4, Counts DEF StageNames
<1>7. CASE Grasp
  <2> USE <1>7 DEF Grasp, In
  <2>1. \A name \in {"peg_from_right"} : captured[name] = 0
    BY DEF Ledger, From
  <2>2. /\ recaptured' = recaptured /\ captured' \in [CaptureNames -> 0..MaxEpisodes]
        /\ \A name \in CaptureNames :
             captured'[name] = IF name = "peg_from_right" THEN episode ELSE captured[name]
    BY <2>1, FirstTime DEF CaptureNames
  <2>3. TeacherTypeOK'
    BY <2>2 DEF TeacherTypeOK, GoTo, StageNames
  <2>4. Ledger'
    BY <2>2 DEF Ledger, From, CaptureNames, Frozen, GoTo
  <2> QED BY <2>2, <2>3, <2>4, Counts DEF StageNames
<1>8. CASE Transport
  <2> USE <1>8 DEF Transport, In
  <2>1. \A name \in Frozen : captured[name] = 0
    BY DEF Ledger, From
  <2>2. /\ recaptured' = recaptured /\ captured' \in [CaptureNames -> 0..MaxEpisodes]
        /\ \A name \in CaptureNames :
             captured'[name] = IF name \in Frozen THEN episode ELSE captured[name]
    BY <2>1, FirstTime DEF CaptureNames, Frozen
  <2>3. /\ AfterTransport(flipped') \in {"socket_approach", "align"}
        /\ AfterTransport(flipped') = "socket_approach" => ~ flipped'
    BY DEF AfterTransport
  <2>4. unlock' \in [decisions : 0..Window, stage : StageSet \cup {"none"}]
    BY DEF TeacherTypeOK
  <2>5. TeacherTypeOK'
    BY <2>2, <2>3, <2>4 DEF TeacherTypeOK, GoTo, StageNames
  <2>6. Ledger'
    BY <2>2, <2>3 DEF Ledger, From, CaptureNames, Frozen, GoTo
  <2> QED BY <2>2, <2>3, <2>5, <2>6, Counts DEF StageNames
<1>9. CASE Orient \/ Descend \/ SocketApproach \/ Align \/ Insert
  <2> USE <1>9 DEF Orient, Descend, SocketApproach, Align, Insert, In
  <2>1. TeacherTypeOK'
    BY DEF TeacherTypeOK, GoTo, StageNames
  <2>2. Ledger'
    BY DEF Ledger, From, GoTo, Frozen
  <2>3. PICK stage \in StageNames : GoTo(stage) /\ Place(stage) > Place(phase)
    BY DEF StageNames
  <2> QED BY <2>1, <2>2, <2>3, Counts
<1>10. CASE UNCHANGED teacherVars
  <2>1. TeacherTypeOK'
    BY <1>10 DEF teacherVars, TeacherTypeOK
  <2>2. Ledger'
    BY <1>10 DEF teacherVars, Ledger, From
  <2>3. Progress' /\ Windows' /\ ReferencesFrozen'
    BY <1>10 DEF teacherVars, Progress, Windows
  <2> QED BY <2>1, <2>2, <2>3
<1> QED BY <1>1, <1>2, <1>3, <1>4, <1>5, <1>6, <1>7, <1>8, <1>9, <1>10 DEF TeacherNext

-----------------------------------------------------------------------------
(* What every run of reset() and decide() guarantees.                      *)

\* The inductive invariant holds of every run.
THEOREM TeacherInductive == TeacherSpec => []TeacherIInv
  BY TeacherIInvInit, TeacherIInvStep, PTL DEF TeacherSpec

\* The fields of both teachers keep their types; only the parallel candidate
\* hovers and the scripted teacher has no escapes.
THEOREM TeacherTypeCorrect == TeacherSpec => []TeacherTypeOK
<1>1. TeacherIInv => TeacherTypeOK
  BY DEF TeacherIInv
<1> QED BY <1>1, TeacherInductive, PTL

\* The loop of _advance() returns a target in at most as many iterations as
\* there are stages, from references of this episode: none of its assertions
\* fails, whatever was observed.
THEOREM NoAssertionFails == TeacherSpec => []DecisionReturns
<1>1. TeacherIInv => DecisionReturns
  <2> SUFFICES ASSUME TeacherIInv, pc = "advance"
               PROVE  (\A name \in Needs(phase) : captured[name] = episode) /\ iteration < LoopRange
    BY DEF DecisionReturns, CapturesPresent
  <2> USE TenStages, Places
  <2>1. Place(phase) \in 1..10
    BY DEF TeacherIInv, TeacherTypeOK, StageNames
  <2>2. iteration < LoopRange
    BY <2>1 DEF TeacherIInv, TeacherTypeOK, Progress
  <2>3. ASSUME NEW name \in Needs(phase) PROVE captured[name] = episode
    <3> USE <2>3 DEF TeacherIInv, Ledger, From, Frozen
    <3>1. CASE phase = "open"
      BY <3>1 DEF Needs
    <3>2. CASE phase \in {"approach", "descend", "grasp"}
      BY <3>2 DEF Needs
    <3>3. CASE phase = "orient"
      BY <3>3 DEF Needs
    <3>4. CASE phase = "transport"
      BY <3>4 DEF Needs
    <3>5. CASE phase \in {"socket_approach", "align", "insert", "complete"}
      <4>1. Needs(phase) = Frozen
        BY <3>5 DEF Needs
      <4> QED BY <3>5, <4>1
    <3> QED BY <3>1, <3>2, <3>3, <3>4, <3>5 DEF TeacherTypeOK, StageNames
  <2> QED BY <2>2, <2>3
<1> QED BY <1>1, TeacherInductive, PTL

\* No reference is captured twice in an episode, but for the socket in its
\* cage, which a stall of the alignment captures again.
THEOREM CapturedOnce == TeacherSpec => []ReferencesFrozen
<1>1. TeacherIInv => ReferencesFrozen
  BY DEF TeacherIInv
<1> QED BY <1>1, TeacherInductive, PTL

\* The escapes of the geometric teacher rest on a full window of decisions in
\* their own stage; the decision that enters the transport is the exception.
THEOREM EscapesRestOnWindow == TeacherSpec => EscapesOwnWindow
<1> DEFINE Own ==
      episode' = episode =>
        /\ <<alignEscape, insertPress>>' # <<alignEscape, insertPress>> => inPhase' = Window
        /\ unlock' # unlock =>
             \/ unlock' = [decisions |-> Window, stage |-> "transport"]
             \/ unlock'.decisions = 0 /\ unlock'.stage # "transport"
<1>1. TeacherIInv /\ [TeacherNext]_teacherVars => [Own]_teacherVars
  <2> SUFFICES ASSUME TeacherIInv, TeacherNext, episode' = episode PROVE Own
    OBVIOUS
  <2> USE DEF captures, escapes, past, Keep
  <2>1. CASE Observe
    <3>1. unlock' = unlock
      BY <2>1 DEF Observe
    <3>2. ASSUME <<alignEscape, insertPress>>' # <<alignEscape, insertPress>>
          PROVE inPhase' = Window
      <4>1. PICK touching \in BOOLEAN : Engage(Recorded(stallHistory), still', touching)
        BY <2>1, <3>2 DEF Observe
      <4>2. Recorded(stallHistory) = Window
        BY <3>2, <4>1 DEF Engage, Stalled, TeacherIInv, TeacherTypeOK
      <4>3. stallPhase = phase /\ stallHistory >= Window - 1
        BY <4>2, TeacherAssumption DEF Recorded, TeacherIInv, TeacherTypeOK
      <4> QED BY <2>1, <4>3, TeacherAssumption DEF Observe, TeacherIInv, TeacherTypeOK, Windows
    <3> QED BY <3>1, <3>2
  <2>2. CASE Transport
    <3>1. <<alignEscape, insertPress>>' = <<alignEscape, insertPress>>
      BY <2>2 DEF Transport, GoTo
    <3>2. ASSUME unlock' # unlock
          PROVE \/ unlock' = [decisions |-> Window, stage |-> "transport"]
                \/ unlock'.decisions = 0 /\ unlock'.stage # "transport"
      <4>1. Unlocks /\ unlock' = [decisions |-> inPhase, stage |-> stallPhase]
        BY <2>2, <3>2 DEF Transport
      <4>2. CASE stallPhase = "transport"
        BY <2>2, <4>1, <4>2, TeacherAssumption
           DEF Transport, In, Unlocks, Stalled, TeacherIInv, TeacherTypeOK, Windows
      <4>3. CASE stallPhase # "transport"
        BY <2>2, <4>1, <4>3 DEF Transport, In, Unlocks, TeacherIInv, Windows
      <4> QED BY <4>2, <4>3
    <3> QED BY <3>1, <3>2
  <2>3. CASE Reset
    BY <2>3 DEF Reset, TeacherIInv, TeacherTypeOK
  <2>4. CASE ~ Observe /\ ~ Transport /\ ~ Reset
    BY <2>4 DEF TeacherNext, CaptureHome, Return, Open, Approach, Orient, Descend, Grasp,
                SocketApproach, Align, Insert, Command, GoTo
  <2> QED BY <2>1, <2>2, <2>3, <2>4
<1> QED BY <1>1, TeacherInductive, PTL DEF TeacherSpec, EscapesOwnWindow
=============================================================================
