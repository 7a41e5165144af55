CONSTANTS
  Requests = {r1, r2}
  Streaming = {r1}
  MaxBody = 1
  MaxEvent = 3
  MaxTotal = 10
  Streams <- MCStreams
SPECIFICATION TransportSpec
INVARIANTS
  PeersAsTrusted
  BodiesAreWhole
  EventsAsSent
PROPERTIES
  RequestsEnd
CHECK_DEADLOCK FALSE
