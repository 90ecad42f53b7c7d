SPECIFICATION FairSpec
CONSTANTS
  base = base
  api = api
  flag = flag
  window = window
  u = u
  v = v
  local = local
  yes = yes
  no = no
  learned = learned
  revised = revised
  Absent = Absent
  Torn = Torn
  Unplanned = Unplanned
  Field = {base, api, flag, window}
  Route = {base, api}
  Base = base
  Fill = {window}
  Optional = {}
  Value <- MCValue
  LocalRoute = local
  Lent <- MCLent
  Typed <- MCTyped
  MaxEvents = 3
INVARIANTS
  StableRecoverable
  NoRouteCaptured
PROPERTIES
  RecordClears
