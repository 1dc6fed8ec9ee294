CONSTANTS
  Requests = {r1, r2}
  Tokens = {t1, t2}
  Names = {p1, p2}
  NoName = NoName
  MaxUsers = 3
  TTL = 1
  Attempts = {r1, r2}
  Users = {u1, u2}
  Ips = {i1}
  Intentos = 2
  Bloqueo = 1
  BloqueoMaximo = 3
  Memoria = 1
  MaxRegistros = 1
  Intervalo = 2
  MaxLate = 1
  FallosCap = 4
  QuietCap = 4
  People = {p1, p2}
  Monitored = {m1, m2}
  Groups = {g1}
  NoGroup = NoGroup
  NoOne = NoOne
  Calls = {c1}
  Owners = {p1, p2}
  Mons = {m1, m2}
  Chans = {t1, t2}
  Nobody = NoOne
  Edits = {e1}
  Sites = {s1}
  Interval = 1
  MaxDelay = 1
  Keep = 3
  Hour = 2
  Blocks = 2
  Limit = 2
  MaxRows = 4
SPECIFICATION MCSpec
SYMMETRY MCSymmetry
INVARIANTS OneFounder SessionsHaveUsers RequestKeepsItsUser
INVARIANTS BlockMatchesFailures
INVARIANTS NoDanglingAccess ViewersAgree UngroupedIsPrivate
INVARIANTS NoDanglingChannel NoForeignChannel
INVARIANTS HeartbeatsTypeOK HistoryIsRecent GapsAreCuts
PROPERTIES AdminLossIsARace
PROPERTIES BlocksHold FailuresRemembered
PROPERTIES ManualAccessKeepsEditors
PROPERTIES PruneIsInvisible
\* Every user may have been deleted.
CHECK_DEADLOCK FALSE
