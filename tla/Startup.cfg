\* Two processes of two builds that open one store and register agents in one file.
CONSTANTS
  p1 = p1
  p2 = p2
  k1 = k1
  k2 = k2
  u1 = u1
  u2 = u2
  u3 = u3
  Procs = {p1, p2}
  Keys = {k1, k2}
  Uuids = {u1, u2, u3}
  Nobody = nobody
  Torn = torn
  Build <- MCBuild
SPECIFICATION StartupSpec
INVARIANTS OpenMatches GivenIsFound NeverPartial
