SPECIFICATION Spec
CONSTANTS
  Lengths <- MCLengths
  MountStates = {FALSE}
  Heights <- MCHeights
  NoFallback = TRUE
INVARIANT CursorVisible
