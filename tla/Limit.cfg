\* Two requests in flight, entries forgotten and made again.
SPECIFICATION Spec
CONSTANTS
  x = x
  y = y
  r1 = r1
  r2 = r2
  Ips = {x, y}
  Requests = {r1, r2}
  NoIp = NoIp
  Burst = 2
  Cost = 2
  Expire = 4
  MaxElapsed = 8
INVARIANTS TypeOK WindowBound
PROPERTY IsTokenBucket
