CONSTANTS
  Rows <- MCRows
  UsedRows = {6, 7}
  Columns = {0, 1, 2}
  Durations = {1, 2}
  Velocities = {126, 127}
  PoolSize = 8
  Width = 2
  TicksPerColumn = 96
  ListRows = {0, 1}
  NumNodes = 5
SPECIFICATION MCSpec
INVARIANTS GridSound QueryAnswersForNotes WindowShowsNotes TrackRestoresGrid ListsSound
PROPERTIES ImplementsNoteGrid ImplementsRowLists FreeingEnds
