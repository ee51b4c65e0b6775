\* Two runs of one stage overlap.
SPECIFICATION Spec
CONSTANTS
  Runners = {r1, r2}
  Codes = {"code1", "code2"}
  MaxAttempts = 1
  MaxAudits = 1
  MaxEdits = 0
PROPERTY AttemptsKept
\* A stage may use up its bounded number of reports.
CHECK_DEADLOCK FALSE
