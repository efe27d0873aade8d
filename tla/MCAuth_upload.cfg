SPECIFICATION Spec
CONSTANTS
  Emails = {ann}
  Passwords = {secret}
  Fullnames = {name}
  Empty = Empty
  None = None
  Slots = {s1, s2}
INVARIANT UploadMessageIsTrue
