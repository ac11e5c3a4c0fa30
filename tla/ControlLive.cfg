CONSTANTS
  s1 = s1
  c1 = c1
  c2 = c2
  user = user
  Callers = {c1}
  RequestOf <- ShortOnly
  Requests <- MCRequests
  Shots = {s1}
  NoShot = NoShot
  Spoken = {s1}
  Lasting = {s1}
  Actors = {user, Recovery}
  Recovery = Recovery
  Lost <- MCLost
  Fragile <- MCFragile
  Fits <- MCFits
  MaxRoutes = 1
  x1 = x1
  x2 = x2
  g1 = g1
  g2 = g2
SPECIFICATION LoopsSpec
PROPERTIES
  RunSettles
  ExportEnds
CHECK_DEADLOCK FALSE
