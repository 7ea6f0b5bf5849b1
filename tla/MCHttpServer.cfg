\* Three clients and two threads, which connections without a request can hold.
CONSTANTS
  Workers = {w1, w2}
  Requests = {"command", "q"}
  MaxConns = 3
SPECIFICATION HttpSpec
INVARIANTS ServedOnce
PROPERTIES RequestsEnd StopEndsListen
\* The server stops, and the clients with it.
CHECK_DEADLOCK FALSE
