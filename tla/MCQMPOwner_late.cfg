CONSTANTS
  Callers = {c1, c2}
  NoCaller = NoCaller
  MaxCommands = 3
  MaxEvents = 0
SPECIFICATION Spec
INVARIANT StaleReplyNotMistaken
CHECK_DEADLOCK FALSE
