SPECIFICATION Spec
CONSTANTS
  Tabs = {b1}
  Reqs = {r1}
  Sessions = {s1}
  Tokens = {t1, t2, t3}
  NoTab = NoTab
  NoSession = NoSession
  NoToken = NoToken
  Kinds = {"login", "call", "logout", "expire"}
INVARIANT LogoutEndsSession
