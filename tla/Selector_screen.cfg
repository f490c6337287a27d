SPECIFICATION Spec
CONSTANTS
  Lengths <- MCLengths
  MountStates = {TRUE, FALSE}
  Heights <- MCHeights
  NoFallback = TRUE
INVARIANTS TypeOK CursorInList ActionsAsToggled
PROPERTIES KeysKeepCursorVisible KeysFillWindow SpaceAlternates
