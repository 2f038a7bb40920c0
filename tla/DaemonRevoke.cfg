SPECIFICATION DaemonSpec
CONSTANTS
  q1 = q1
  q2 = q2
  q3 = q3
  q4 = q4
  pp = pp
  Me = Me
  Offered = {q1, q2, q3, q4}
  Peer = {pp}
  Sender <- MCSender
  File <- MCFile
  Mail = {q2}
  Locked = {q2}
  Asker = {c1}
  MaxSends = 0
  MaxTurns = 0
  Sealed = {s1}
  Linked = {l1}
  Folders = {s1, l1}
  Board = TRUE
  MaxMade = 1
  MaxStops = 1
INVARIANT RevokedIsWithdrawn
CHECK_DEADLOCK FALSE
