\* Windows of three decisions, two episodes with one teacher.
SPECIFICATION TeacherSpec
CONSTANTS
  Window = 3
  MaxEpisodes = 2
INVARIANTS TeacherTypeOK DecisionReturns ReferencesFrozen
PROPERTY EscapesOwnWindow
