CONSTANTS
  Byte = {0, 1}
  MaxChunk = 2
  RemoteFrames <- MCRemoteFrames
  Lengths <- MCLengths
SPECIFICATION Spec
INVARIANTS
  HeadersRoundTrip
  BufferedWithinPermit
  OneOutstandingRequest
PROPERTIES
  MessageHasRequestedSize
