CONSTANTS
  Editors = {e1, e2}
  Jobs = {j1}
  Profiles = {p1, p2}
  Skills = {skill}
  Prompts = {prompt}
  Packs = {pack}
  Policies = {policy}
  Nodes = {n1}
  NodeOf <- MCNodeOf
  NoVersion = NoVersion
  MaxVersions = 3
  p1 = p1
  p2 = p2
  skill = skill
  prompt = prompt
  pack = pack
  policy = policy
  n1 = n1
  Users = {u1, u2}
  Founder = u1
  Tokens = {t1, t2, t3}
  Calls = {r1, r2}
  NoUser = NoUser
  Exports = {x1, x2}
  Tasks = {g1, g2, g3}
  RenderSlots = 2
  MaxFaults = 2
  MaxSlow = 1
  s1 = s1
  c1 = c1
  c2 = c2
  user = user
  Callers = {c1, c2}
  RequestOf <- MCRequestOf
  Requests <- MCRequests
  Shots = {s1}
  NoShot = NoShot
  Spoken = {s1}
  Lasting = {s1}
  Actors = {user, Recovery}
  Recovery = Recovery
  Lost = {}
  Fragile <- FragileFilm
  Fits <- MCFits
  MaxRoutes = 1
SPECIFICATION PartSpec
INVARIANTS
  NoLostUpdate
  Resolved
  OneRunPerKey
  StagesInOrder
PROPERTIES
  EndIsFinal
  OwnersRule
  LastClaimEnds
CHECK_DEADLOCK FALSE
