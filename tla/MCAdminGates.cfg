\* What a tab offers its user, against what the API lets the user do.
SPECIFICATION Spec
CONSTANTS
  Parts = {"auth"}
  Users = {u1, u2}
  NoUser = NoUser
  Authorities <- MCAuthorities
  Tokens = {t1, t2}
  NoToken = NoToken
  Calls = {c1, c2}
  Langs = {zh, en}
  Queries = {q1, q2}
  Perms = {p1, p2}
  Saves = {s1}
  Rows = {r1}
  NoRow = NoRow
  Texts = {a, b}
  Empty = Empty
  RecordCalls = {d1, d2}
  Files = {f1, f2}
  Uploads = {x1, x2}
  Tabs = {y1, y2}
  PermOrder <- MCPermOrder
  OperatorOrder <- MCOperatorOrder
INVARIANT OfferedIsAllowed
CHECK_DEADLOCK FALSE
