SPECIFICATION PathSpec
CONSTANTS
  None = None
  Resolver <- MCResolver
  StreamOffers <- MCStreamOffers
  ViewerOffers <- MCViewerOffers
  PlainOffers <- MCPlainOffers
  StreamerDraw <- MCStreamerDraw
  ViewerDraw <- MCViewerDraw
INVARIANTS MeaningKept SsrcAdvertised AnswersFit AnswersReadable CapableViewersAccepted OnlyVideoExtracted
CHECK_DEADLOCK FALSE
