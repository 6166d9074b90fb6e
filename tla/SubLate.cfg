SPECIFICATION SyncPubSpec
CONSTANTS
  Subscriber = {s1, s2}
PROPERTIES
  AllSubscribersReady
CHECK_DEADLOCK FALSE
