CONSTANTS
  s1 = s1
  c1 = c1
  c2 = c2
  user = user
  Callers = {c1}
  RequestOf <- FilmOnly
  Requests <- MCRequests
  Shots = {s1}
  NoShot = NoShot
  Spoken = {s1}
  Lasting = {s1}
  Actors = {user, Recovery}
  Recovery = Recovery
  Lost = {}
  Fragile <- MCFragile
  Fits <- MCFits
  MaxRoutes = 0
SPECIFICATION FairSpec
PROPERTIES
  FailureStopsRun
CHECK_DEADLOCK FALSE
