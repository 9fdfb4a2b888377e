SPECIFICATION Spec
CONSTANTS
  Videos = {v1, v2}
  Episodes = {e1}
  NoEpisode = NoEpisode
  Actors = {a1, a2}
  NoActor = NoActor
  MaxRows = 3
  CrossDrive = TRUE
  Trouble = 2
SYMMETRY Symmetry
INVARIANTS
  TypeOK
  NeverSplit
PROPERTIES
  NoVideoLost
  NoFileForgotten
