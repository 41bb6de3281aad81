SPECIFICATION Spec
CONSTANTS
  Tabs = {b1, b2}
  Reqs = {r1, r2}
  Sessions = {s1, s2}
  Tokens = {t1, t2, t3}
  NoTab = NoTab
  NoSession = NoSession
  NoToken = NoToken
  Kinds = {"call", "logout", "login", "badLogin", "expire", "lose", "reload", "revoke"}
INVARIANTS TypeOK RefreshesAreExclusive StoredTokenIsLive ATabNeverBeatsItself
SYMMETRY Symmetry
VIEW View
