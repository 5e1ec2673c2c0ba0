SPECIFICATION MCSpec
CONSTANTS
  None = None
  Mail = {m1, m2}
  MaxMailFaults = 3
  RecUser = {u1}
  CountRecs = 1
  MaxEvents = 4
  MaxBatch = 2
  MaxRecFaults = 1
  Path = {p1, p2}
  Author = {a1, a2}
  Visitor = {v1, v2}
  MaxVisits = 3
  MaxLinkFaults = 1
  Order = {o1, o2}
  MaxTries = 3
  MaxMetrics = 4
  BatchSize = 2
  MaxMetricFaults = 2
  NumFilms = 2
  PageSize = 1
  MarkLife = 2
  MaxEtlTime = 3
  MaxEdits = 2
  MaxEtlFaults = 1
  Call = {c1, c2, c3}
  Limit = 1
  Window = 3
  LeakInterval = 2
  MaxClock = 4
  MaxRedisFaults = 1
  Film = {f1, f2}
  FilmsCacheLife = 2
  MaxCatTime = 4
  MaxChanges = 1
  MaxKeys = 1
CHECK_DEADLOCK FALSE
INVARIANTS
  MailedBounded
  MailReported
  RecsBounded
  EventsKept
  LinksAgree
  OneOrderOneMailing
  MetricsLoaded
  NotForgotten
  LimitsHold
  ShownIsAllowed
  RestrictionTakesHold
