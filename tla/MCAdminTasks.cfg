\* Each part with the smallest sets that let two of its actors meet.
SPECIFICATION Spec
CONSTANTS
  Parts = {"auth", "translations", "grants", "records", "upload", "twoFactor", "seed"}
  Users = {u1, u2}
  NoUser = NoUser
  Authorities <- MCAuthorities
  Tokens = {t1, t2}
  NoToken = NoToken
  Calls = {c1, c2}
  Langs = {zh, en}
  Queries = {q1, q2}
  Perms = {p1, p2}
  Saves = {s1}
  Rows = {r1}
  NoRow = NoRow
  Texts = {a, b}
  Empty = Empty
  RecordCalls = {d1, d2}
  Files = {f1, f2}
  Uploads = {x1, x2}
  Tabs = {y1, y2}
  PermOrder <- MCPermOrder
  OperatorOrder <- MCOperatorOrder
INVARIANTS TypeOK ShownPermissionsAreTheirs OffersWereAllowed MixedTableIsExplained
  StalePackageIsExplained MembershipComesLast CompletedSeedsAreWhole
PROPERTIES SpinnerEnds EditsSendWhatWasTyped SavedMeansAsChecked UntypedTextOnlyReverts EnabledIsUsable
CHECK_DEADLOCK FALSE
