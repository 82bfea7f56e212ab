SPECIFICATION ReplySpec
CONSTANTS
  e1 = e1
  e2 = e2
  m1 = m1
  m2 = m2
  i1 = i1
  g1 = g1
  g2 = g2
  r1 = r1
  Webhooks = {e1, e2}
  Messages = {m1, m2}
  Kinds = {"text"}
  Instances = {g1, g2}
  NoInstance = NoInstance
  Inboxes = {i1}
  NoInbox = NoInbox
  MaxContacts = 1
  MaxConvs = 2
  Faults = FALSE
  Replies = {r1}
  Default = g1
SYMMETRY Symmetry
INVARIANTS
  ReplyTypeOK
  AnsweredWhereAsked
CHECK_DEADLOCK FALSE
