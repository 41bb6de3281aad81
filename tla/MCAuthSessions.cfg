\* One user, two requests in flight, three tokens, every operation: rotations race each
\* other, revocations complete or cut short, 2FA set-up, deletion, time and failures.
SPECIFICATION Spec
CONSTANTS
  Users = {u1}
  Tokens = {t1, t2, t3}
  Reqs = {r1, r2}
  NoUser = NoUser
  NoToken = NoToken
  Kinds = {"login", "refresh", "logout", "setup2FA", "enable2FA", "verify2FA", "resetPassword", "setStatus", "remove", "expire", "fail"}
  MaxGen = 1
  MaxSecret = 1
SYMMETRY Symmetry
CONSTRAINT ExpiryAlone
VIEW View
INVARIANTS TypeOK OneTokenPerSession OldPasswordSessionsEnd InactiveUsersHaveNoSession EnabledUsersHaveASecret
PROPERTY ImplementsSessionRegister
CHECK_DEADLOCK FALSE
