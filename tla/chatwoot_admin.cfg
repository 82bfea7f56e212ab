SPECIFICATION Spec
CONSTANTS
  r1 = r1
  r2 = r2
  r3 = r3
  created = created
  typing = typing
  other = other
  profile = profile
  Requests = {r1, r2}
  Events = {created, typing, other}
  Widget = {created, typing}
  Attributes = {profile}
  NoHook = NoHook
  MaxUsers = 2
  MaxHooks = 2
SYMMETRY Symmetry
INVARIANTS
  TypeOK
  NoOrphanUser
  ConfirmedAgentSpared
  SyncSubscribes
PROPERTY
  MigrationOnlyAdds
CHECK_DEADLOCK FALSE
