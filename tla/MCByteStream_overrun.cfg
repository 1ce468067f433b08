\* The mode with a size and a terminator.
CONSTANTS
  Fixed <- Numbers
  String <- Strings
  Modes = {"GIVEN_SIZE_NULL_TERM"}
  AutoResize = {TRUE}
  StartSizes = {0, 1, 6}
  MaxFields = 2
SPECIFICATION Spec
CHECK_DEADLOCK FALSE
INVARIANT InBounds
