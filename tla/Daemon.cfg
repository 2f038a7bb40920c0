SPECIFICATION DaemonSpec
CONSTANTS
  q1 = q1
  q2 = q2
  q3 = q3
  q4 = q4
  pp = pp
  Me = Me
  Offered = {q1, q2, q3, q4}
  Peer = {pp}
  Sender <- MCSender
  File <- MCFile
  Mail = {q2}
  Locked = {q2}
  Asker = {c1}
  MaxTurns = 1
  MaxSends = 2
  Sealed = {s1}
  Linked = {l1}
  Folders = {s1, l1}
  Board = TRUE
  MaxMade = 1
  MaxStops = 2
INVARIANTS  ReceiptsAreKept
 
CHECK_DEADLOCK FALSE
