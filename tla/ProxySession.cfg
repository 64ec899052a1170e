SPECIFICATION FairSpec
CONSTANT MaxDials = 4
INVARIANTS
  HandlerAgrees
  NoStrayBackend
  ForwardsCurrentWorld
  FallbackInTurn
PROPERTIES
  ClientLeavesEndsSession
  RoutingResumes
  LostBackendReplaced
