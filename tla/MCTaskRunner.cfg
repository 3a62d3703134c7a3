SPECIFICATION FairSpec
CONSTANTS
  flat = flat
  inner = inner
  empty = empty
  middle = middle
  outer = outer
  Gen = {flat, inner, empty, middle, outer}
  Code <- Handlers
INVARIANTS
  TypeOK
  RunsInlinedHandler
  YieldsGetTheirValues
  StopsWithinOneStep
  EndedIsNotCancelled
PROPERTY
  RunEnds
CHECK_DEADLOCK FALSE
