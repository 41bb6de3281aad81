---------------------------- MODULE AuthContext ----------------------------
(***************************************************************************)
(* What one tab of admin web knows of its user: the access token, and the  *)
(* permissions that GET /auth/me brings after every new token.  The axios  *)
(* interceptors, which AdminSession has in detail, replace the token       *)
(* behind it; other tabs replace the stored one without a word.            *)
(***************************************************************************)
EXTENDS Gates, FiniteSets

CONSTANTS Users, NoUser,
          Authorities,      \* what a user may be allowed to do: the cases of a run
          Tokens, NoToken,  \* access tokens, each with its refresh token
          Calls             \* slots for calls of /auth/me

VARIABLES authority,   \* what the API would let each user do now
          owner,       \* whom a token was issued to
          claims,      \* roles in the payload of a token: whether they name superadmin
          stored,      \* the token in localStorage
          ctx,         \* the state of AuthProvider
          me,          \* calls of /auth/me
          login,       \* the request of the log-in page
          seen,        \* history: what the user of ctx.token was allowed since it was adopted
          crossed,     \* history: an older answer was on its way at that time
          failed       \* history: the last call that ended did so with an error

vars == <<authority, owner, claims, stored, ctx, me, login, seen, crossed, failed>>

NoneAssumption == NoUser \notin Users /\ NoToken \notin Tokens

\* permissions: those me answered with; super: superAdmin, from the token or from me.
Ctx == [token : Tokens \cup {NoToken}, permissions : SUBSET UNION Authorities,
        super : BOOLEAN, loaded : BOOLEAN]
\* waiting: for the refresh of the interceptor, after a 401.
Call == [pc : {"none", "sent", "waiting", "served"}, token : Tokens \cup {NoToken},
         got : SUBSET UNION Authorities]
NoCall == [pc |-> "none", token |-> NoToken, got |-> {}]
Login == [pc : {"none", "sent", "served"}, user : Users \cup {NoUser}]
NoLogin == [pc |-> "none", user |-> NoUser]

TypeOK ==
  /\ authority \in [Users -> Authorities]
  /\ owner \in [Tokens -> Users \cup {NoUser}] /\ claims \in [Tokens -> BOOLEAN]
  /\ stored \in Tokens \cup {NoToken}
  /\ ctx \in Ctx /\ me \in [Calls -> Call] /\ login \in Login
  /\ seen \in SUBSET Authorities /\ crossed \in BOOLEAN /\ failed \in BOOLEAN
  /\ ctx.token # NoToken => owner[ctx.token] # NoUser

\* Mutant: the permissions of a new token count as known.
StateFromTokenAtOnce(t, super) ==
  [token |-> t, permissions |-> {}, super |-> t # NoToken /\ super, loaded |-> TRUE]

StateFromToken(t, super) ==
  [token |-> t, permissions |-> {}, super |-> t # NoToken /\ super, loaded |-> t = NoToken]

Init ==
  /\ authority \in [Users -> Authorities]
  /\ owner = [t \in Tokens |-> NoUser] /\ claims = [t \in Tokens |-> FALSE]
  /\ stored = NoToken
  /\ ctx = StateFromToken(NoToken, FALSE)
  /\ me = [c \in Calls |-> NoCall] /\ login = NoLogin
  /\ seen = {} /\ crossed = FALSE /\ failed = FALSE

At(c, pc) == me[c].pc = pc
Unissued == {t \in Tokens : owner[t] = NoUser}
\* Which unused token is issued makes no difference.
Fresh == CHOOSE t \in Unissued : TRUE
Issued(t, u) ==
  /\ owner' = [owner EXCEPT ![t] = u]
  /\ claims' = [claims EXCEPT ![t] = Superadmin \in authority[u]]

\* Some answer to a call in calls will tell of another user, or of earlier.
Older(calls, u) ==
  \E c \in Calls : calls[c].pc = "served" \/ (calls[c].pc # "none" /\ owner'[calls[c].token] # u)

\* The provider takes over a token: nothing is known of its permissions, and a call asks.
\* Bound: a slot must be left.
Adopt(t, u, super, calls) ==
  \E c \in Calls :
    /\ calls[c].pc = "none"
    /\ me' = [calls EXCEPT ![c] = [NoCall EXCEPT !.pc = "sent", !.token = t]]
    /\ ctx' = StateFromToken(t, super)
    /\ seen' = {authority[u]} /\ crossed' = Older(calls, u) /\ failed' = FALSE

\* No token: the log-in page.
Forget(calls) ==
  /\ me' = calls
  /\ ctx' = StateFromToken(NoToken, FALSE)
  /\ seen' = {} /\ crossed' = FALSE /\ failed' = FALSE
-----------------------------------------------------------------------------
\* LoginPage, with or without its second step.
SendLogin(u) ==
  /\ ctx.token = NoToken /\ login = NoLogin
  /\ login' = [pc |-> "sent", user |-> u]
  /\ UNCHANGED <<authority, owner, claims, stored, ctx, me, seen, crossed, failed>>

\* The answer sets the tokens.  Bound: one must be left, or the log-in fails.
LoginArrives ==
  LET t == Fresh u == login.user IN
  /\ login.pc = "sent" /\ Unissued # {}
  /\ Issued(t, u)
  /\ stored' = t
  /\ Adopt(t, u, Superadmin \in authority[u], me)
  /\ login' = NoLogin
  /\ UNCHANGED authority

LoginFails ==
  /\ login.pc = "sent"
  /\ login' = NoLogin
  /\ UNCHANGED <<authority, owner, claims, stored, ctx, me, seen, crossed, failed>>

\* handleLogout, or the token turns out to be worthless.
ClearAuth ==
  /\ ctx.token # NoToken
  /\ stored' = NoToken
  /\ Forget(me)
  /\ UNCHANGED <<authority, owner, claims, login>>
-----------------------------------------------------------------------------
(* GET /auth/me. *)

Serve(c) ==
  /\ At(c, "sent")
  /\ me' = [me EXCEPT ![c].pc = "served", ![c].got = authority[owner[me[c].token]]]
  /\ UNCHANGED <<authority, owner, claims, stored, ctx, login, seen, crossed, failed>>

\* The access token has expired: the interceptor refreshes.
Expired(c) ==
  /\ At(c, "sent")
  /\ me' = [me EXCEPT ![c].pc = "waiting"]
  /\ UNCHANGED <<authority, owner, claims, stored, ctx, login, seen, crossed, failed>>

\* Whatever token it was asked for, the answer is what the tab shows from now on.
Arrive(c) ==
  /\ At(c, "served")
  /\ ctx' = [ctx EXCEPT !.permissions = me[c].got, !.super = Superadmin \in me[c].got, !.loaded = TRUE]
  /\ failed' = FALSE
  /\ me' = [me EXCEPT ![c] = NoCall]
  /\ UNCHANGED <<authority, owner, claims, stored, login, seen, crossed>>

\* Mutant: only an answer ends the waiting.
FailQuietly(c) ==
  /\ At(c, "sent") \/ At(c, "served")
  /\ failed' = TRUE
  /\ me' = [me EXCEPT ![c] = NoCall]
  /\ UNCHANGED <<authority, owner, claims, stored, ctx, login, seen, crossed>>

\* 5xx, or no answer within the timeout.
Fail(c) ==
  /\ At(c, "sent") \/ At(c, "served")
  /\ ctx' = [ctx EXCEPT !.loaded = TRUE]
  /\ failed' = TRUE
  /\ me' = [me EXCEPT ![c] = NoCall]
  /\ UNCHANGED <<authority, owner, claims, stored, login, seen, crossed>>
-----------------------------------------------------------------------------
(* The interceptor, on behalf of any request of the tab. *)

\* Calls that waited for the refresh are sent again.
Retried(t) == [c \in Calls |-> IF At(c, "waiting") THEN [me[c] EXCEPT !.pc = "sent", !.token = t] ELSE me[c]]

\* A new token of whoever is logged in in localStorage: setAccess tells the provider.
Renewed ==
  LET t == Fresh u == owner[stored] IN
  /\ ctx.token # NoToken /\ stored # NoToken /\ Unissued # {}
  /\ Issued(t, u)
  /\ stored' = t
  /\ Adopt(t, u, Superadmin \in authority[u], Retried(t))
  /\ UNCHANGED <<authority, login>>

\* storage.clear, and the document goes.
RenewalFails ==
  /\ ctx.token # NoToken
  /\ stored' = NoToken
  /\ Forget([c \in Calls |-> NoCall])
  /\ login' = NoLogin
  /\ UNCHANGED <<authority, owner, claims>>

\* The user loads the page anew: the provider starts with what is stored.
Reload ==
  /\ ctx.token # NoToken
  /\ IF stored = NoToken THEN Forget([c \in Calls |-> NoCall])
     ELSE Adopt(stored, owner[stored], claims[stored], [c \in Calls |-> NoCall])
  /\ UNCHANGED <<authority, owner, claims, stored, login>>
-----------------------------------------------------------------------------
(* Others. *)

\* Another tab logs out, or logs in as anyone: no event reaches this tab.
OtherTab(u) ==
  /\ ctx.token # NoToken
  /\ IF u = NoUser THEN stored' = NoToken /\ UNCHANGED <<owner, claims>>
     ELSE Unissued # {} /\ Issued(Fresh, u) /\ stored' = Fresh
  /\ UNCHANGED <<authority, ctx, me, login, seen, crossed, failed>>

\* An administrator changes what a user may do.
ChangeAuthority(u, a) ==
  /\ a # authority[u]
  /\ authority' = [authority EXCEPT ![u] = a]
  /\ seen' = IF ctx.token # NoToken /\ owner[ctx.token] = u THEN seen \cup {a} ELSE seen
  /\ UNCHANGED <<owner, claims, stored, ctx, me, login, crossed, failed>>

FinishRefresh == (\E c \in Calls : At(c, "waiting")) /\ (Renewed \/ RenewalFails)

Next ==
  \/ \E u \in Users : SendLogin(u)
  \/ LoginArrives \/ LoginFails \/ ClearAuth
  \/ \E c \in Calls : Serve(c) \/ Expired(c) \/ Arrive(c) \/ Fail(c)
  \/ Renewed \/ RenewalFails \/ Reload
  \/ \E u \in Users \cup {NoUser} : OtherTab(u)
  \/ \E u \in Users, a \in Authorities : ChangeAuthority(u, a)

\* A call is answered or given up, the http client has a timeout; that the refresh behind
\* it is answered too is assumed, plain axios has none.
Fairness == (\A c \in Calls : WF_vars(Serve(c)) /\ WF_vars(Arrive(c) \/ Fail(c))) /\ WF_vars(FinishRefresh)
-----------------------------------------------------------------------------
Shown == IF ctx.super THEN ctx.permissions \cup {Superadmin} ELSE ctx.permissions
\* What this tab's requests are allowed to do.
Allowed == IF stored = NoToken THEN {} ELSE authority[owner[stored]]

\* Once they count as loaded, the permissions of a tab are those its user has, or has had
\* since the tab got its token.  What can show anything else is named: the last call
\* failed, or the answer to an older one was still under way when the token came.
ShownPermissionsAreTheirs ==
  ctx.token # NoToken /\ ctx.loaded => crossed \/ failed \/ Shown \in seen

\* The controls that OfferedIsAllowed is about: three of the operators, four of the translations.
Drifted == {c \in Controls : \/ c.route = "opsUsers" /\ c.name \in {"create", "edit", "role"}
                             \/ c.route = "i18n" /\ c.name \in {"create", "edit", "import", "export"}}

\* All that a tab offers its user at a time, the API would at some time have let the user do,
\* since the tab got its token: each menu item leads to a page that is shown and filled, each
\* control but those named sends requests that pass their guards.  What can offer anything else
\* is named with ShownPermissionsAreTheirs.
OffersWereAllowed ==
  ctx.token # NoToken /\ ctx.loaded /\ ~crossed /\ ~failed =>
    \E a \in seen :
      /\ \A route \in Routes : SeesItem(Shown, route) => SeesPage(Shown, route) /\ HasAll(a, ListNeeds[route])
      /\ \A c \in Controls \ Drifted : SeesControl(Shown, c) => HasAll(a, c.needs)

\* The spinner of RequirePermission goes away, unless its user loads the page again and again:
\* provided that calls, and the refresh that plain axios posts for them, end some day.
SpinnerEnds == (~ctx.loaded ~> ctx.loaded) \/ []<><<Reload>>_vars

\* utils/permissions.ts: "Centralized here so frontend gating cannot drift from backend
\* enforcement".  So a control on show is one the API lets its user use.
OfferedIsAllowed ==
  ctx.loaded /\ Shown = Allowed => \A c \in Controls : SeesControl(Shown, c) => HasAll(Allowed, c.needs)
=============================================================================
