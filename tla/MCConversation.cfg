SPECIFICATION ConversationSpec
CONSTANTS
  Requests = {r1, r2, r3}
  Items = {r1, r2, r3}
  Channels = {c1, c2}
  Domains = {c1, c2}
  Limit = 2
  Factors = {2, 4, 8}
  Honest = {4}
  Early = {c1}
  Workloads <- MCWorkloads
  MaxClock = 2
  MaxLives = 2
INVARIANTS CleanMeansSaved OwnNeverDropped
PROPERTIES FlushedStaysFiltered MeterFollowsHonest
SYMMETRY Symmetric
CHECK_DEADLOCK FALSE
