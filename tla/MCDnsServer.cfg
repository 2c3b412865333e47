SPECIFICATION Spec
CONSTANTS
  Endpoints = {e1, e2}
  Domains = {"listed", "remote"}
  Listed = {"listed", "remote"}
  Remote = {"remote"}
  QTypes = {"A", "other"}
  Addrs = {a1, a2}
  MaxTtl = 3
  Ttls = {1, 2}
  MaxTime = 1
  MaxQueries = 3
  MaxAnswers = 2
INVARIANTS
  AnswersFit
  StaysProxied
PROPERTIES
  NoLeak
SYMMETRY Symmetry
CHECK_DEADLOCK FALSE
