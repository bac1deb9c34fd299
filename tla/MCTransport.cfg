CONSTANTS
  r1 = r1
  r2 = r2
  Requests <- MCRequests
  N = 3
  RequestTimeout = 2
  Deadline <- MCDeadline

SPECIFICATION TransportSpec
INVARIANTS OneGoodEndpointIsEnough
