SPECIFICATION FairSpec
CONSTANTS
  r1 = r1
  r2 = r2
  Calls = {r1, r2}
  Sub = sub
  Senders = {s1, s2}
  Starts <- MCStarts
  Greetings <- MCGreetings
  Events = 1
  None = None
INVARIANTS OwnReply DaemonUnderstands
PROPERTY CallEnds
CHECK_DEADLOCK FALSE
