SPECIFICATION AllSpec
CONSTANTS
  Calls = {"c1", "c2"}
  Ops <- MCOps
  Offered <- MCOffered
  Supported = {"aes", "camellia"}
  Preferred <- MCPreferred
  SPAKEGroups = {"ed"}
  Canonicalize = FALSE
  ClockSkew = 1
  MethodDatas <- MCMethodDatas
  DefaultSalt = "default"
  KDCSalt = "odd"
INVARIANTS ASCallSound ChainOfTickets TicketAsRequested OneDeadline Located
PROPERTY ClientCallsReturn
CHECK_DEADLOCK FALSE
