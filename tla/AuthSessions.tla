---------------------------- MODULE AuthSessions ----------------------------
(***************************************************************************)
(* Refresh-token sessions of the ops back end: AuthService (login, refresh,*)
(* logout, 2FA) and the operations of OpsUsersService that revoke tokens.  *)
(*                                                                         *)
(* Every handler is a Node coroutine: between two awaits nothing else of   *)
(* the same process runs, at an await any other request, of this or of     *)
(* another instance, may.  A slot of Reqs is one request in flight; an     *)
(* action is what a handler does from one database statement to just       *)
(* before the next.  A request that is rejected changes nothing: it is the *)
(* guard of the action that would have gone on.                            *)
(***************************************************************************)
EXTENDS Naturals, FiniteSets

CONSTANTS Users,      \* ids of OpsUser rows (an id is never reused)
          Tokens,     \* refresh-token values; only their hashes are stored
          Reqs,       \* slots for requests in flight
          NoUser, NoToken,
          Kinds,      \* the operations a run lets clients and clock perform
          MaxGen,     \* bound: password resets per user
          MaxSecret   \* bound: 2FA set-ups per user

AllKinds == {"login", "refresh", "logout", "setup2FA", "enable2FA", "verify2FA",
             "resetPassword", "setStatus", "remove", "expire", "fail"}

ASSUME NoneAssumption == NoUser \notin Users /\ NoToken \notin Tokens
ASSUME BoundAssumption == MaxGen \in Nat /\ MaxSecret \in Nat
ASSUME KindsAssumption == Kinds \subseteq AllKinds

VARIABLES
  \* the ops_users table
  status,        \* UserStatus; "INACTIVE" stands for SUSPENDED too, "GONE" for no row
  passwordHash,  \* which password the stored hash is of: the first is 1, a reset adds one
  twoFASecret,   \* the number of the stored secret, 0 for null
  twoFAEnabled,
  \* held by clients: the passwords a { requires2FA } answer was given for, per user
  passed,
  \* the refresh_tokens table
  tstate,        \* "FREE" no such row yet, "DELETED" row cascaded away
  owner,         \* opsUserId
  expired,       \* tokens whose expiresAt has passed
  \* requests in flight
  job,           \* what each slot has read and where it is
  \* history, read by no action: what the properties need to remember
  origin,        \* how each token's session came about
  cut            \* users one of whose mass revocations died before its updateMany

userVars == <<status, passwordHash, twoFASecret, twoFAEnabled, passed>>
tokenVars == <<tstate, owner, expired, origin>>
vars == <<userVars, tokenVars, job, cut>>

(***************************************************************************)
(* origin: root is the first token of the session (NoToken: none yet), gen *)
(* the password that was checked for it (0: none), since the one that was  *)
(* current when the request that opened it read the user, totp that this   *)
(* was the second step of a login, spared that a revocation of all the     *)
(* user's tokens ran while a request held the session in memory, where     *)
(* updateMany cannot reach it.                                             *)
(***************************************************************************)
Origin == [root : Tokens \cup {NoToken}, gen : Nat, since : Nat, totp : BOOLEAN, spared : BOOLEAN]
NoOrigin == [root |-> NoToken, gen |-> 0, since |-> 0, totp |-> FALSE, spared |-> FALSE]
\* A session about to be opened for u, resting on a check of password g.
Opening(u, g, byTotp) ==
  [root |-> NoToken, gen |-> g, since |-> passwordHash[u], totp |-> byTotp, spared |-> FALSE]
Rooted(o, t) == [o EXCEPT !.root = t]
Spared(o) == [o EXCEPT !.spared = TRUE]

PCs == {"idle", "rotate", "reload", "issue", "enable", "revoke"}
Job == [pc : PCs, user : Users \cup {NoUser}, token : Tokens \cup {NoToken},
        origin : Origin]
\* A request of user u at pc, holding session o; a rotation also holds the token it was
\* presented.
Holding(pc, u, o) == [pc |-> pc, user |-> u, token |-> NoToken, origin |-> o]
NoJob == Holding("idle", NoUser, NoOrigin)

Statuses == {"ACTIVE", "INACTIVE", "GONE"}
TokenStates == {"FREE", "LIVE", "REVOKED", "DELETED"}

TypeOK ==
  /\ status \in [Users -> Statuses]
  /\ passwordHash \in [Users -> Nat]
  /\ twoFASecret \in [Users -> Nat]
  /\ twoFAEnabled \in [Users -> BOOLEAN]
  /\ passed \in [Users -> SUBSET Nat]
  /\ tstate \in [Tokens -> TokenStates]
  /\ owner \in [Tokens -> Users \cup {NoUser}]
  /\ expired \in SUBSET Tokens
  /\ job \in [Reqs -> Job]
  /\ origin \in [Tokens -> Origin]
  /\ cut \in SUBSET Users

Init ==
  /\ status = [u \in Users |-> "ACTIVE"]
  /\ passwordHash = [u \in Users |-> 1]
  /\ twoFASecret = [u \in Users |-> 0]
  /\ twoFAEnabled = [u \in Users |-> FALSE]
  /\ passed = [u \in Users |-> {}]
  /\ tstate = [t \in Tokens |-> "FREE"]
  /\ owner = [t \in Tokens |-> NoUser]
  /\ expired = {}
  /\ job = [r \in Reqs |-> NoJob]
  /\ origin = [t \in Tokens |-> NoOrigin]
  /\ cut = {}

Live(t) == tstate[t] = "LIVE"
At(r, pc) == job[r].pc = pc
Exists(u) == status[u] # "GONE"

\* Slot r, free, takes up a request of this kind.
Accept(r, kind) == kind \in Kinds /\ At(r, "idle")
Enter(r, j) == job' = [job EXCEPT ![r] = j]
Leave(r) == Enter(r, NoJob)
-----------------------------------------------------------------------------
(* Logging in. *)

\* validateUser and login: the row is read once, argon2 and every check work on
\* that copy; a right password is the one whose hash was read.
LoginRead(r, u) ==
  /\ Accept(r, "login")
  /\ status[u] = "ACTIVE"
  /\ ~twoFAEnabled[u]
  /\ Enter(r, Holding("issue", u, Opening(u, passwordHash[u], FALSE)))
  /\ UNCHANGED <<userVars, tokenVars, cut>>

\* login of a 2FA user: the same checks, but the answer is { requires2FA } and the server
\* keeps nothing.  That the password was right is known to the client alone, for good.
LoginAsks2FA(u) ==
  /\ "login" \in Kinds
  /\ status[u] = "ACTIVE"
  /\ twoFAEnabled[u]
  /\ passed' = [passed EXCEPT ![u] = @ \cup {passwordHash[u]}]
  /\ UNCHANGED <<status, passwordHash, twoFASecret, twoFAEnabled, tokenVars, job, cut>>

\* verify2FA: a TOTP code of the stored secret.  Neither password nor status is read, and
\* no trace of the first step is asked for: the client has some earlier answer or none.
Verify2FARead(r, u) ==
  /\ Accept(r, "verify2FA")
  /\ Exists(u)
  /\ twoFASecret[u] # 0
  /\ twoFAEnabled[u]
  /\ \E g \in passed[u] \cup {0} : Enter(r, Holding("issue", u, Opening(u, g, TRUE)))
  /\ UNCHANGED <<userVars, tokenVars, cut>>

\* Mutant: a rotation starts a session of its own instead of continuing one.
IssueAnew(r, t) ==
  /\ At(r, "issue")
  /\ Exists(job[r].user)
  /\ tstate[t] = "FREE"
  /\ tstate' = [tstate EXCEPT ![t] = "LIVE"]
  /\ owner' = [owner EXCEPT ![t] = job[r].user]
  /\ origin' = [origin EXCEPT ![t] = Rooted(job[r].origin, t)]
  /\ Leave(r)
  /\ UNCHANGED <<userVars, expired, cut>>

\* issueTokens: insert a row for a fresh random value.  A login starts a session, a
\* refresh continues the one it took.
Issue(r, t) ==
  LET o == job[r].origin IN
  /\ At(r, "issue")
  /\ Exists(job[r].user)
  /\ tstate[t] = "FREE"
  /\ tstate' = [tstate EXCEPT ![t] = "LIVE"]
  /\ owner' = [owner EXCEPT ![t] = job[r].user]
  /\ origin' = [origin EXCEPT ![t] = IF o.root = NoToken THEN Rooted(o, t) ELSE o]
  /\ Leave(r)
  /\ UNCHANGED <<userVars, expired, cut>>

\* The foreign key of refresh_tokens refuses a row for a deleted user.
IssueRefused(r) ==
  /\ At(r, "issue")
  /\ ~Exists(job[r].user)
  /\ Leave(r)
  /\ UNCHANGED <<userVars, tokenVars, cut>>
-----------------------------------------------------------------------------
(* Rotating and revoking one token. *)

\* Mutant: the id of the token is taken for the id of its user.
RefreshReadSwapped(r, t) ==
  /\ Accept(r, "refresh")
  /\ Live(t)
  /\ t \notin expired
  /\ Enter(r, [pc |-> "rotate", user |-> t, token |-> t, origin |-> NoOrigin])
  /\ UNCHANGED <<userVars, tokenVars, cut>>

\* refresh, first await: the row of the presented token passes the three checks.
RefreshRead(r, t) ==
  /\ Accept(r, "refresh")
  /\ Live(t)
  /\ t \notin expired
  /\ Enter(r, [pc |-> "rotate", user |-> owner[t], token |-> t, origin |-> NoOrigin])
  /\ UNCHANGED <<userVars, tokenVars, cut>>

\* Mutant: the count of revoked rows is not looked at.
RefreshRotateUncounted(r) ==
  LET t == job[r].token IN
  /\ At(r, "rotate")
  /\ tstate' = [tstate EXCEPT ![t] = IF Live(t) THEN "REVOKED" ELSE @]
  /\ Enter(r, Holding("reload", job[r].user, origin[t]))
  /\ UNCHANGED <<userVars, owner, expired, origin, cut>>

\* updateMany where revoked: false matched the row: this request has consumed it.
RefreshRotate(r) ==
  LET t == job[r].token IN
  /\ At(r, "rotate")
  /\ Live(t)
  /\ tstate' = [tstate EXCEPT ![t] = "REVOKED"]
  /\ Enter(r, Holding("reload", job[r].user, origin[t]))
  /\ UNCHANGED <<userVars, owner, expired, origin, cut>>

\* count # 1: someone else revoked it since the read.
RefreshBeaten(r) ==
  /\ At(r, "rotate")
  /\ ~Live(job[r].token)
  /\ Leave(r)
  /\ UNCHANGED <<userVars, tokenVars, cut>>

\* The user is read again and must be ACTIVE.
RefreshReload(r) ==
  /\ At(r, "reload")
  /\ status[job[r].user] = "ACTIVE"
  /\ Enter(r, Holding("issue", job[r].user, job[r].origin))
  /\ UNCHANGED <<userVars, tokenVars, cut>>

RefreshDenied(r) ==
  /\ At(r, "reload")
  /\ status[job[r].user] # "ACTIVE"
  /\ Leave(r)
  /\ UNCHANGED <<userVars, tokenVars, cut>>

\* logout: one statement; an unknown or revoked token matches no row.
Logout(t) ==
  /\ "logout" \in Kinds
  /\ Live(t)
  /\ tstate' = [tstate EXCEPT ![t] = "REVOKED"]
  /\ UNCHANGED <<userVars, owner, expired, origin, job, cut>>
-----------------------------------------------------------------------------
(* Two-factor set-up. *)

\* setup2FA: a new secret replaces the stored one, whatever the 2FA state.  The
\* preceding read only checks that the user exists, which the update does too.
Setup2FA(u) ==
  /\ "setup2FA" \in Kinds
  /\ Exists(u)
  /\ twoFASecret[u] < MaxSecret
  /\ twoFASecret' = [twoFASecret EXCEPT ![u] = @ + 1]
  /\ UNCHANGED <<status, passwordHash, twoFAEnabled, passed, tokenVars, job, cut>>

\* Mutant: enable2FA does not ask for a secret to have been set up.
Enable2FAReadUnset(r, u) ==
  /\ Accept(r, "enable2FA")
  /\ Exists(u)
  /\ Enter(r, Holding("enable", u, NoOrigin))
  /\ UNCHANGED <<userVars, tokenVars, cut>>

\* enable2FA: the submitted code is checked against the secret read here, which a
\* set-up may replace before the flag is written ...
Enable2FARead(r, u) ==
  /\ Accept(r, "enable2FA")
  /\ Exists(u)
  /\ twoFASecret[u] # 0
  /\ Enter(r, Holding("enable", u, NoOrigin))
  /\ UNCHANGED <<userVars, tokenVars, cut>>

\* ... and the flag is set by id alone (an update of a deleted row throws).
Enable2FAWrite(r) ==
  LET u == job[r].user IN
  /\ At(r, "enable")
  /\ twoFAEnabled' = IF Exists(u) THEN [twoFAEnabled EXCEPT ![u] = TRUE] ELSE twoFAEnabled
  /\ Leave(r)
  /\ UNCHANGED <<status, passwordHash, twoFASecret, passed, tokenVars, cut>>
-----------------------------------------------------------------------------
(* Administering users: the update comes first, the revocation after it. *)

AskRevoke(r, u) == Enter(r, Holding("revoke", u, NoOrigin))

\* Mutants: the update without the revocation after it.
ResetPasswordOnly(r, u) ==
  /\ Accept(r, "resetPassword")
  /\ Exists(u)
  /\ passwordHash[u] <= MaxGen
  /\ passwordHash' = [passwordHash EXCEPT ![u] = @ + 1]
  /\ UNCHANGED <<status, twoFASecret, twoFAEnabled, passed, tokenVars, job, cut>>
SetStatusOnly(r, u, s) ==
  /\ Accept(r, "setStatus")
  /\ Exists(u)
  /\ status' = [status EXCEPT ![u] = s]
  /\ UNCHANGED <<passwordHash, twoFASecret, twoFAEnabled, passed, tokenVars, job, cut>>

ResetPasswordUpdate(r, u) ==
  /\ Accept(r, "resetPassword")
  /\ Exists(u)
  /\ passwordHash[u] <= MaxGen
  /\ passwordHash' = [passwordHash EXCEPT ![u] = @ + 1]
  /\ AskRevoke(r, u)
  /\ UNCHANGED <<status, twoFASecret, twoFAEnabled, passed, tokenVars, cut>>

SetStatusUpdate(r, u, s) ==
  /\ Accept(r, "setStatus")
  /\ Exists(u)
  /\ status' = [status EXCEPT ![u] = s]
  /\ IF s # "ACTIVE" THEN AskRevoke(r, u) ELSE UNCHANGED job
  /\ UNCHANGED <<passwordHash, twoFASecret, twoFAEnabled, passed, tokenVars, cut>>

\* What a mass revocation of u's tokens cannot see: sessions that are between a
\* revoked or not yet inserted row and the next one.
InMemory(q, u) == job[q].user = u /\ job[q].pc \in {"reload", "issue"}

\* updateMany where opsUserId = u and revoked: false.
RevokeAll(r) ==
  LET u == job[r].user IN
  /\ At(r, "revoke")
  /\ tstate' = [t \in Tokens |->
       IF Live(t) /\ owner[t] = u THEN "REVOKED" ELSE tstate[t]]
  /\ job' = [q \in Reqs |->
       IF q = r THEN NoJob
       ELSE IF InMemory(q, u) THEN Holding(job[q].pc, u, Spared(job[q].origin))
       ELSE job[q]]
  /\ cut' = cut \ {u}
  /\ UNCHANGED <<userVars, owner, expired, origin>>

\* remove: the row goes, onDelete: Cascade takes its refresh tokens.
RemoveUser(u) ==
  /\ "remove" \in Kinds
  /\ Exists(u)
  /\ status' = [status EXCEPT ![u] = "GONE"]
  /\ tstate' = [t \in Tokens |-> IF owner[t] = u THEN "DELETED" ELSE tstate[t]]
  /\ UNCHANGED <<passwordHash, twoFASecret, twoFAEnabled, passed, owner, expired, origin, job, cut>>
-----------------------------------------------------------------------------
(* Time and failure. *)

Expire(t) ==
  /\ "expire" \in Kinds
  /\ Live(t)
  /\ expired' = expired \cup {t}
  /\ UNCHANGED <<userVars, tstate, owner, origin, job, cut>>

\* A statement throws or the instance dies: the request ends where it is, what it
\* already wrote stays.  No handler uses a transaction.
Fail(r) ==
  /\ "fail" \in Kinds
  /\ ~At(r, "idle")
  /\ cut' = IF At(r, "revoke") THEN cut \cup {job[r].user} ELSE cut
  /\ Leave(r)
  /\ UNCHANGED <<userVars, tokenVars>>

Next ==
  \/ \E r \in Reqs, u \in Users : \/ LoginRead(r, u) \/ Verify2FARead(r, u)
                                  \/ Enable2FARead(r, u) \/ ResetPasswordUpdate(r, u)
  \/ \E r \in Reqs, u \in Users, s \in Statuses \ {"GONE"} : SetStatusUpdate(r, u, s)
  \/ \E r \in Reqs, t \in Tokens : RefreshRead(r, t) \/ Issue(r, t)
  \/ \E r \in Reqs : \/ IssueRefused(r) \/ RefreshRotate(r) \/ RefreshBeaten(r)
                     \/ RefreshReload(r) \/ RefreshDenied(r) \/ Enable2FAWrite(r)
                     \/ RevokeAll(r) \/ Fail(r)
  \/ \E t \in Tokens : Logout(t) \/ Expire(t)
  \/ \E u \in Users : LoginAsks2FA(u) \/ Setup2FA(u) \/ RemoveUser(u)

Spec == Init /\ [][Next]_vars
-----------------------------------------------------------------------------
(* Properties. *)

\* A request between consuming a token and inserting its successor carries the
\* session of the consumed token.
Carries(r, s) == job[r].pc \in {"reload", "issue"} /\ job[r].origin.root = s

\* Whatever refreshes race on it, a session never forks: it has at most one live
\* refresh token, none while a request is rotating it, and at most one such request.
OneTokenPerSession ==
  /\ \A t1, t2 \in Tokens :
       Live(t1) /\ Live(t2) /\ origin[t1].root = origin[t2].root => t1 = t2
  /\ \A r \in Reqs, t \in Tokens : Live(t) => ~Carries(r, origin[t].root)
  /\ \A r1, r2 \in Reqs : \A s \in Tokens : Carries(r1, s) /\ Carries(r2, s) => r1 = r2

\* A mass revocation of u's tokens is under way, or one was cut short and none has
\* been completed since.
RevocationOwed(u) ==
  \/ u \in cut
  \/ \E r \in Reqs : At(r, "revoke") /\ job[r].user = u

\* The second step of a login whose first step, if any, was taken before the last reset:
\* no revocation knows of it, and verify2FA does not ask which password it rests on.
SecondStepSince(t) == origin[t].totp /\ origin[t].since = passwordHash[owner[t]]

\* Once resetPassword's revocation has run, a session that rests on an older password,
\* or on none, is one that a login, a verify2FA or a rotation held in memory at that
\* moment, or one that verify2FA opened afterwards.  Those it opened before have ended.
OldPasswordSessionsEnd ==
  \A t \in Tokens :
    Live(t) /\ origin[t].gen < passwordHash[owner[t]] =>
      origin[t].spared \/ RevocationOwed(owner[t]) \/ SecondStepSince(t)

\* Once setStatus's revocation has run, a user who is not ACTIVE has no session, save
\* one held in memory at that moment, or opened by verify2FA, which reads no status.
InactiveUsersHaveNoSession ==
  \A t \in Tokens :
    Live(t) /\ status[owner[t]] # "ACTIVE" =>
      origin[t].spared \/ origin[t].totp \/ RevocationOwed(owner[t])

\* Login never sends a user to the second step without a secret to check a code with,
\* however set-up, confirmation and failures interleave.
EnabledUsersHaveASecret == \A u \in Users : twoFAEnabled[u] => twoFASecret[u] # 0

(* The sessions the tables and the requests in flight amount to. *)
LiveOf(s) == {t \in Tokens : Live(t) /\ origin[t].root = s}
AbsPhase == [s \in Tokens |->
  IF LiveOf(s) # {} THEN "open"
  ELSE IF \E r \in Reqs : Carries(r, s) THEN "rotating"
  ELSE IF origin[s].root = s THEN "closed" ELSE "unopened"]
AbsCurrent == [s \in Tokens |->
  IF LiveOf(s) = {} THEN NoToken ELSE CHOOSE t \in LiveOf(s) : TRUE]
AbsIssued == {t \in Tokens : tstate[t] # "FREE"}

Register == INSTANCE SessionRegister WITH
  Sessions <- Tokens, phase <- AbsPhase, current <- AbsCurrent, issued <- AbsIssued

\* Tokens, requests and their races amount to a register of sessions that open once,
\* rotate one token at a time and never reopen.
ImplementsSessionRegister == Register!Spec
=============================================================================
