SPECIFICATION ViewerSpec
CONSTANTS
  Viewers = {"ui", "mui"}
  LoadedAtMount = {TRUE, FALSE}
  CheckInSpots = {"gate", "tower"}
  MaxCommits = 3
PROPERTIES
  CompletionIsNews
CHECK_DEADLOCK FALSE
