SPECIFICATION RSpec
CONSTANTS
  t1 = t1  t2 = t2  u1 = u1  x = x  y = y  p = p  q = q  stage = stage  l1 = l1
  Host = host
  SubOwner <- Subscribers
  Deps <- AllDeps
  Services = {x, y}
  Staged = {stage}
  Owners = {p, q}
  View <- Views
  Listeners = {l1}
  Threads = {t1, t2}
  Users = {u1}
  MaxGen = 3
SYMMETRY AnyThread
INVARIANTS
  RegistryInv ChangesAreAnnounced
PROPERTIES
  CommitIsFaithful StaleStaysStale
CHECK_DEADLOCK FALSE
