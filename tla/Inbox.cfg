SPECIFICATION FairSpec
CONSTANTS
  Offer = {o1}
  Device = {d1}
  Notify = {n1, n2}
  None = None
  PerSlot = 1
  MaxRows = 1
  MaxPosts = 1
INVARIANTS WaitersReachable NoLostWakeup
PROPERTIES AnswersAreSound NewsArrives
