\* Two descendants, cursors that can form a cycle within the page limit, and
\* messages of up to two bytes.
SPECIFICATION Spec
CONSTANTS
  MaxKids = 2
  Pages <- MCPages
  Cursors = {"c1", "c2"}
  MaxPages = 4
  MaxTools = 2
  MsgLimit = 2
INVARIANTS CloseLeavesNothing NoPageTwice
PROPERTY ProcessEnds
CHECK_DEADLOCK FALSE
