CONSTANTS
  Sockets = {c1, c2}
  Publishers = {p1}
  None = None
  UserOf <- MCUserOf
SPECIFICATION DeadlineSpec
INVARIANT KeptAlive
