SPECIFICATION Spec
CONSTANTS
  Convs = {c}
  None = None
  MaxSaves = 5
  MaxFailures = 1
  MaxMigrations = 1
INVARIANTS
  SavedSurvives
  NewestIsTaken
  HistoryKept
  DestroyedIsBackedUp
