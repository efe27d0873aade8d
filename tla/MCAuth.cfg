SPECIFICATION Spec
CONSTANTS
  Emails = {ann, bob}
  Passwords = {secret}
  Fullnames = {name}
  Empty = Empty
  None = None
  Slots = {s1, s2}
SYMMETRY AnyEmailAndSlot
INVARIANTS
  TypeOK
  HomeNeedsUser
  NoEmptyCredentials
  ProfileBelongsToAccount
