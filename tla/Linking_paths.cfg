SPECIFICATION LinkSpec
CONSTANTS
  Designs <- Applications
  MaxLinks = 2
INVARIANT PathsGoOn
CHECK_DEADLOCK FALSE
