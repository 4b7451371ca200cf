\* One chat request at a time, nobody disconnects: the plainest traffic.
SPECIFICATION Spec
CONSTANTS
  FailureThreshold = 1
  HalfOpenMax = 1
  Chats = {c1}
  Battles = {}
  MaxAborts = 0
PROPERTIES ClosesAfterOutage
