SPECIFICATION Spec
CONSTANTS
  Files <- MCFiles
  Parameters <- MCParameters
  Inputs <- MCInputs
  Held <- MCHeld
  EnumSize = 4
  Doubts = 1
INVARIANT TypeOK HeldInRange SetsWhatWasTyped NeverPanics
PROPERTY GetShowsWhatSetShowed
