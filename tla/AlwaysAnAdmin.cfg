CONSTANTS
  Requests = {r1, r2}
  Tokens = {t1, t2}
  Names = {n1, n2}
  NoName = NoName
  MaxUsers = 2
  TTL = 1
SPECIFICATION AccountsSpec
PROPERTY AlwaysAnAdmin
