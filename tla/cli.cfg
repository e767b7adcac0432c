SPECIFICATION Spec
CONSTANTS
  MaxNodes = 1
  MaxCommands = 3
  MaxSearches = 2
  MaxLines = 2
  Hasty = {"leave"}
INVARIANTS SourceStays SearchTabsTail LinesInOrder  FollowedOnce
PROPERTIES FocusReturns RangeKept
VIEW View
CHECK_DEADLOCK FALSE
