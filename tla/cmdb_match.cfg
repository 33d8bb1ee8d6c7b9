SPECIFICATION Spec
CONSTANTS
  h1 = h1
  h2 = h2
  h3 = h3
  lo = lo
  wrk = wrk
  curl = curl
  nginx = nginx
  httpd = httpd
  redis = redis
  http = http
  resp = resp
  Unknown = Unknown
  NoRow = NoRow
  Loopback = {lo}
  Conn <- Pair
  Agent = {h1, h2}
  Anonymous = {}
  MaxFlows = 2
INVARIANT
  MatchedOnceBothReported
