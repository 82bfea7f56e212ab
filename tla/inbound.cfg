SPECIFICATION Spec
CONSTANTS
  e1 = e1
  e2 = e2
  e3 = e3
  m1 = m1
  m2 = m2
  i1 = i1
  i2 = i2
  Webhooks = {e1, e2}
  Messages = {m1, m2}
  Kinds = {"text", "media", "unsupported"}
  Inboxes = {i1, i2}
  NoInbox = NoInbox
  g1 = g1
  Instances = {g1}
  NoInstance = NoInstance
  MaxContacts = 2
  MaxConvs = 2
  Faults = TRUE
SYMMETRY Symmetry
INVARIANTS
  TypeOK
  MarkedIsSettled
  DuplicateNeedsOverlap
  RoutedInbox
CHECK_DEADLOCK FALSE
