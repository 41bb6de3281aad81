\* Three requests in all, to any of the services.
SPECIFICATION Spec
CONSTANTS
  Reqs = {q1, q2, q3}
  Keys = {k1}
  Rows = {a1, a2}
  Drafts = {a1}
  Retries = 1
  NoRow = NoRow
  Miss = Miss
SYMMETRY Symmetry
INVARIANTS TypeOK StaleRowsAreExplained StaleListIsExplained EditsAreBounded ChangesAreAudited RecordsTellTheTruth
PROPERTY FlagsOnlyLag
CHECK_DEADLOCK FALSE
