SPECIFICATION LoopSpec
CONSTANTS
  None = None
  Bearer = Bearer
  streamer = streamer
  events = events
  second = second
  third = third
  Connection = {streamer, events, second, third}
  Traffic <- MCTraffic
  Workers = 3
  ChannelBound = 2
INVARIANTS StatusAsNamed
