\* Saves, deletions and loads of two applications.
CONSTANTS
  Apps = {A, B}
  Concurrent = 2
  Drawings <- MCDrawings
  Lists <- MCLists
  EnabledAgents <- MCEnabledAgents
  Watched <- MCWatched
  TemplateNames <- MCWatched
  Templates <- MCTemplates
  None = None
  MaxRequests = 3
SPECIFICATION Spec
INVARIANTS RoundTrip
CHECK_DEADLOCK FALSE
