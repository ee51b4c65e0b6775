----------------------------- MODULE TeacherGate -----------------------------
(***************************************************************************)
(* The staged teacher gate of scripts/run_teacher_gate.py.                 *)
(*                                                                         *)
(* A candidate is registered, then taken through g0, g1 and g2; every      *)
(* stage run writes one numbered JSON report and a stage opens only on     *)
(* passing reports of the earlier ones; g5 audits the reports.  Commands   *)
(* are separate processes over one directory: they may overlap, be killed  *)
(* while they write, and the workspace may be edited under them.           *)
(* g3 and g4 are in the order of stages but their commands always raise.   *)
(***************************************************************************)
EXTENDS Naturals, Sequences, FiniteSets, FiniteSetsExt

CONSTANTS
  Runners,      \* gate commands that may run at the same time
  Codes,        \* code identities of the workspace
  MaxAttempts,  \* bound on the reports of a stage
  MaxAudits,    \* bound on the reports of g5
  MaxEdits      \* bound on the edits of the workspace

Attempts == 1..MaxAttempts

ASSUME GateAssumption ==
  /\ MaxAttempts \in Nat \ {0}
  /\ MaxAudits \in Attempts
  /\ MaxEdits \in Nat
  /\ Codes # {}

StageOrder == <<"g0", "g1", "g2", "g3", "g4">>
Rollouts == {"g1", "g2"}
Kinds == {"register", "g0", "g1", "g2", "g5"}
Bound(s) == IF s = "g5" THEN MaxAudits ELSE MaxAttempts

Earlier(s) ==
  {StageOrder[i] : i \in {j \in 1..Len(StageOrder) :
     \E m \in 1..Len(StageOrder) : j < m /\ StageOrder[m] = s}}

VARIABLES
  code,    \* workspace_code_identity() of the moment
  edits,   \* how often the workspace was edited
  file,    \* the JSON files, by kind and attempt
  runner   \* the running commands

vars == <<code, edits, file, runner>>

\* A file is absent, torn (opened for writing, not yet written) or whole.
\* ok is "passed" of a report and "simulator_execution" of the registration.
Absent == [state |-> "absent", ok |-> FALSE, code |-> "", findings |-> {}]
Torn   == [Absent EXCEPT !.state = "torn"]

Idle == [pc |-> "idle", stage |-> "", ok |-> FALSE, attempt |-> 0, claim |-> "",
         position |-> 0, findings |-> {}]

Written(s) == {n \in Attempts : file[s][n].state # "absent"}

\* Wrong on purpose: the next command finds what the last one left.
EndsKeeping(r) == runner' = [runner EXCEPT ![r].pc = "idle"]

\* Every command that raises or is killed leaves only its files behind.
Ends(r) == runner' = [runner EXCEPT ![r] = Idle]

-----------------------------------------------------------------------------
\* Wrong on purpose: one earlier stage is enough.
OpensOnAny(s) ==
  \E e \in Earlier(s) : \E n \in Attempts :
     file[e][n].state = "whole" /\ file[e][n].ok

\* _stage_guard(): of every earlier stage some report passed; the reports are
\* read in order up to the first that did, and a torn one raises.
Opens(s) ==
  \A e \in Earlier(s) : \E n \in Attempts :
     /\ file[e][n].state = "whole" /\ file[e][n].ok
     /\ \A m \in 1..(n-1) : file[e][m].state # "torn"

\* cmd_register(): the registration has one path and no number.
Register(r) ==
  /\ runner[r].pc = "idle"
  /\ \E capable \in BOOLEAN :
       runner' = [runner EXCEPT ![r] =
         [Idle EXCEPT !.pc = "claim", !.stage = "register", !.ok = capable,
                      !.attempt = 1]]
  /\ UNCHANGED <<code, edits, file>>

\* cmd_g0(): a readable registration, then the conformance probe.
StartProbe(r) ==
  /\ runner[r].pc = "idle"
  /\ file["register"][1].state = "whole"
  /\ runner' = [runner EXCEPT ![r] = [Idle EXCEPT !.pc = "work", !.stage = "g0"]]
  /\ UNCHANGED <<code, edits, file>>

\* cmd_g1(), cmd_g2(): the capability and the guard before the rollout.
StartRollout(r, s) ==
  /\ runner[r].pc = "idle"
  /\ file["register"][1].state = "whole"
  /\ file["register"][1].ok
  /\ Opens(s)
  /\ runner' = [runner EXCEPT ![r] = [Idle EXCEPT !.pc = "work", !.stage = s]]
  /\ UNCHANGED <<code, edits, file>>

\* The probe or the rollout judged by the criteria of its stage; or raised.
Work(r) ==
  /\ runner[r].pc = "work"
  /\ \/ \E passed \in BOOLEAN :
          runner' = [runner EXCEPT ![r].pc = "number", ![r].ok = passed]
     \/ Ends(r)
  /\ UNCHANGED <<code, edits, file>>

StartAudit(r) ==
  /\ runner[r].pc = "idle"
  /\ runner' = [runner EXCEPT ![r] =
       [Idle EXCEPT !.pc = "audit", !.stage = "g5", !.position = 1]]
  /\ UNCHANGED <<code, edits, file>>

\* cmd_g5() reads the reports of one stage after the other and compares the
\* code identity of each with the workspace as it is then.
Findings(s) ==
  IF s \notin Kinds THEN {}
  ELSE {[stage |-> s, passed |-> file[s][n].ok,
         matches |-> file[s][n].code = code] : n \in Written(s)}

AuditStage(r) ==
  /\ runner[r].pc = "audit" /\ runner[r].position <= Len(StageOrder)
  /\ LET s == StageOrder[runner[r].position]
     IN  IF \E n \in Attempts : s \in Kinds /\ file[s][n].state = "torn"
         THEN Ends(r)
         ELSE runner' = [runner EXCEPT ![r].position = @ + 1,
                                       ![r].findings = @ \cup Findings(s)]
  /\ UNCHANGED <<code, edits, file>>

AuditVerdict(r) ==
  /\ runner[r].pc = "audit" /\ runner[r].position > Len(StageOrder)
  /\ runner' = [runner EXCEPT
       ![r].pc = "number",
       ![r].ok = /\ runner[r].findings # {}
                 /\ \A f \in runner[r].findings : f.matches]
  /\ UNCHANGED <<code, edits, file>>

-----------------------------------------------------------------------------
(* Writing a report: _next_attempt() and _write_evidence().                *)

Number(r) ==
  /\ runner[r].pc = "number"
  /\ LET last == IF Written(runner[r].stage) = {} THEN 0
                 ELSE Max(Written(runner[r].stage))
     IN  /\ last < Bound(runner[r].stage)
         /\ runner' = [runner EXCEPT ![r].pc = "claim", ![r].attempt = last + 1]
  /\ UNCHANGED <<code, edits, file>>

\* code_identity of the report is taken now, after the work.
Claim(r) ==
  /\ runner[r].pc = "claim"
  /\ runner' = [runner EXCEPT ![r].pc = "check", ![r].claim = code]
  /\ UNCHANGED <<code, edits, file>>

\* Wrong on purpose: no test at all.
VacantAlways(s, n) == TRUE

\* _write_evidence() refuses a path that exists.
Vacant(s, n) == file[s][n].state = "absent"

Check(r) ==
  /\ runner[r].pc = "check"
  /\ IF Vacant(runner[r].stage, runner[r].attempt)
     THEN runner' = [runner EXCEPT ![r].pc = "create"]
     ELSE Ends(r)
  /\ UNCHANGED <<code, edits, file>>

\* write_text() opens the path for writing, which empties it, then fills it.
Create(r) ==
  /\ runner[r].pc = "create"
  /\ file' = [file EXCEPT ![runner[r].stage][runner[r].attempt] = Torn]
  /\ runner' = [runner EXCEPT ![r].pc = "fill"]
  /\ UNCHANGED <<code, edits>>

Fill(r) ==
  /\ runner[r].pc = "fill"
  /\ file' = [file EXCEPT ![runner[r].stage][runner[r].attempt] =
       [state |-> "whole", ok |-> runner[r].ok, code |-> runner[r].claim,
        findings |-> runner[r].findings]]
  /\ Ends(r)
  /\ UNCHANGED <<code, edits>>

-----------------------------------------------------------------------------
Edit ==
  /\ edits < MaxEdits
  /\ edits' = edits + 1
  /\ code' \in Codes \ {code}
  /\ UNCHANGED <<file, runner>>

Kill(r) ==
  /\ runner[r].pc # "idle"
  /\ Ends(r)
  /\ UNCHANGED <<code, edits, file>>

Init ==
  /\ code \in Codes
  /\ edits = 0
  /\ file = [s \in Kinds |-> [n \in Attempts |-> Absent]]
  /\ runner = [r \in Runners |-> Idle]

Next ==
  \/ \E r \in Runners :
       \/ Register(r) \/ StartProbe(r) \/ StartAudit(r)
       \/ \E s \in Rollouts : StartRollout(r, s)
       \/ Work(r) \/ AuditStage(r) \/ AuditVerdict(r)
       \/ Number(r) \/ Claim(r) \/ Check(r) \/ Create(r) \/ Fill(r)
       \/ Kill(r)
  \/ Edit

Spec == Init /\ [][Next]_vars

-----------------------------------------------------------------------------
Whole(s, n) == file[s][n].state = "whole"
Passing(s) == \E n \in Attempts : Whole(s, n) /\ file[s][n].ok

FindingSet == [stage : Kinds, passed : BOOLEAN, matches : BOOLEAN]

\* The values of the files and of the commands; exactly a command that is
\* about to write has the number of its report.
TypeOK ==
  /\ code \in Codes /\ edits \in 0..MaxEdits
  /\ DOMAIN file = Kinds
  /\ \A s \in Kinds : file[s] \in
       [Attempts -> [state : {"absent", "torn", "whole"}, ok : BOOLEAN,
                     code : Codes \cup {""}, findings : SUBSET FindingSet]]
  /\ runner \in [Runners ->
       [pc : {"idle", "work", "audit", "number", "claim", "check", "create",
              "fill"},
        stage : Kinds \cup {""}, ok : BOOLEAN, attempt : 0..MaxAttempts,
        claim : Codes \cup {""}, position : 0..(Len(StageOrder) + 1),
        findings : SUBSET FindingSet]]
  /\ \A r \in Runners : runner[r].attempt # 0 <=>
       runner[r].pc \in {"claim", "check", "create", "fill"}

\* A rollout report rests on a registration that declares the simulator and on
\* a passing report of every earlier stage.
RolloutsRest ==
  \A s \in Rollouts : \A n \in Attempts : Whole(s, n) =>
     /\ Whole("register", 1) /\ file["register"][1].ok
     /\ \A e \in Earlier(s) : Passing(e)

\* A command killed while it wrote the first report of a stage closes the gate:
\* what it left behind is never read as a failed or absent report.
TornCloses ==
  \A s \in Rollouts : \A e \in Earlier(s) :
     file[e][1].state = "torn" => Written(s) = {}

\* The note of cmd_g5: a passing audit has verified the chain's ordering, so
\* its findings hold passing evidence of whatever a finding builds on.
AuditInOrder ==
  \A n \in Attempts : Whole("g5", n) /\ file["g5"][n].ok =>
     \A f \in file["g5"][n].findings : \A e \in Earlier(f.stage) :
        \E g \in file["g5"][n].findings : g.stage = e /\ g.passed

\* The order of the chain, with one command at a time, kills and edits included,
\* in the reports and in the audit that vouches for them: the three above.
ChainIsOrdered == RolloutsRest /\ TornCloses /\ AuditInOrder

\* A whole report is never written again (tests/test_teacher_gate.py:
\* "Attempts increment create-only; prior evidence is never overwritten"):
\* true of one command at a time, killed or not.
EvidenceKept ==
  [][\A s \in Kinds : \A n \in Attempts :
       Whole(s, n) => file'[s][n] = file[s][n]]_vars

\* The same of the numbered reports alone, which is what that test names: the
\* attempts of a stage, each under the number that _next_attempt() gave it.
AttemptsKept ==
  [][\A s \in Kinds \ {"register"} : \A n \in Attempts :
       Whole(s, n) => file'[s][n] = file[s][n]]_vars

=============================================================================
