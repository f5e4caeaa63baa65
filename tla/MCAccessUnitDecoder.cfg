SPECIFICATION DecoderSpec
CONSTANTS
  None = None
  Streams <- MCStreams
  Length = 4
  FirstSeq = 10
  SeqModulus = 14
  Window = 3
INVARIANTS UnitsWhole HeadersSuffice Recovers
CHECK_DEADLOCK FALSE
