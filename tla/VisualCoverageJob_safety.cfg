\* Four stages, two wrapped ones in the middle; either process may be killed.
SPECIFICATION Spec
CONSTANTS
  NStages = 4
  Heavy = {2, 3}
  Gates = {2, 4}
  Long = {3}
  Deadline = 3
  Crashable = {"supervisor", "worker"}
INVARIANTS TypeOK FilesAgree
PROPERTIES BothEnd ImplementsCampaign
\* The instance goes off, or both processes have ended.
CHECK_DEADLOCK FALSE
