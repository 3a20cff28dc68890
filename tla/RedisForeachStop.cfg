SPECIFICATION FSpec
CONSTANTS
  MaxMembers = 4
  PageSizes = {0, 1, 2, 3}
PROPERTY
  StopLoopStops
