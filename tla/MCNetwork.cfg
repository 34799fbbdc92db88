\* Two web connections and two Telnet sessions over three connection blocks, which
\* hold two units in flight: responses that fit and that do not.
CONSTANTS
  Pcbs = {p1, p2, p3}
  NULL = null
  HTTP_MAX_CONNECTIONS = 2
  SND_BUF = 2
  Lengths = {1, 3}
  Paths = {"status", "log"}
  MaxKeepalives = 2
  TELNET_MAX_CONNECTIONS = 2
SYMMETRY Interchangeable
SPECIFICATION Spec
INVARIANTS SlotsMatchPcbs StreamsAreLive WaitersAreWoken
