SPECIFICATION PathSpec
CONSTANTS
  None = None
  Resolver <- MCResolver
  StreamOffers <- MCStreamOffers
  ViewerOffers <- MCViewerOffers
  PlainOffers <- MCPlainOffers
  StreamerDraw <- MCStreamerDraw
  ViewerDraw <- MCViewerDraw
INVARIANTS MediaPasswordsMatch
CHECK_DEADLOCK FALSE
