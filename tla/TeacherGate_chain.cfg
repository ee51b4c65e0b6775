\* One command at a time, killed anywhere, with edits of the workspace.
SPECIFICATION Spec
CONSTANTS
  Runners = {r1}
  Codes = {"code1", "code2"}
  MaxAttempts = 2
  MaxAudits = 1
  MaxEdits = 1
INVARIANTS TypeOK ChainIsOrdered
PROPERTY EvidenceKept
\* A stage may use up its bounded number of reports.
CHECK_DEADLOCK FALSE
