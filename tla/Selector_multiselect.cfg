SPECIFICATION Spec
CONSTANTS
  Lengths <- MCLengths
  MountStates = {TRUE}
  Heights <- MCHeights
  NoFallback = FALSE
INVARIANT ReturnsTicked
