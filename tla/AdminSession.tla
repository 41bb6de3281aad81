---------------------------- MODULE AdminSession ----------------------------
(***************************************************************************)
(* The admin web app and the session it holds: the axios interceptors of   *)
(* api/http.ts, which refresh an expired access token once and let the     *)
(* other requests of the tab wait for it, the log-out of MainLayout and    *)
(* the log-in page.  Tabs share localStorage and nothing else.  The server *)
(* is the abstract SessionRegister, which AuthSessions implements.         *)
(***************************************************************************)
EXTENDS Naturals, FiniteSets

CONSTANTS Tabs, Reqs,         \* browser tabs; slots for requests in flight
          Sessions, Tokens,   \* a token stands for an access and a refresh token issued together
          NoTab, NoSession, NoToken,
          Kinds               \* the requests and mishaps of a run

ASSUME NoneAssumption == NoTab \notin Tabs /\ NoSession \notin Sessions /\ NoToken \notin Tokens
ASSUME SupplyAssumption == IsFiniteSet(Tokens) /\ IsFiniteSet(Reqs)
ASSUME KindsAssumption ==
  Kinds \subseteq {"call", "logout", "login", "badLogin", "expire", "revoke", "lose", "reload"}

VARIABLES phase, current, issued,   \* the server's register
          stale,      \* pairs whose access token has expired
          store,      \* the pair in localStorage
          page,       \* what each tab shows; "leaving": window.location.href was set
          refreshing, \* isRefreshing of each tab
          req,        \* requests in flight
          owner,      \* history: the session a token was issued to
          taker,      \* history: the tab whose refresh consumed a token
          lost        \* history: tokens of refreshes whose answer nobody waits for

server == <<phase, current, issued, owner>>
browser == <<store, page, refreshing>>
history == <<taker, lost>>
vars == <<server, stale, browser, req, history>>

Server == INSTANCE SessionRegister

\* sent: at the server; ok, unauth: its answer under way; queued: waiting for the tab's refresh; posted, rotating, granted,
\* refused: its refresh, at the server and on its way back.
PCs == {"idle", "sent", "ok", "unauth", "queued",
        "posted", "rotating", "granted", "refused"}
AtServer == {"sent", "posted", "rotating"}
Refreshing == {"posted", "rotating", "granted", "refused"}
\* access: while sent, the pair of the token in the Authorization header; body: the refresh
\* token a logout names; token: the one a refresh presents; got: the pair an answer brings.
Req == [pc : PCs, tab : Tabs \cup {NoTab}, kind : {"call", "logout", "login"},
        access : Tokens \cup {NoToken}, body : Tokens \cup {NoToken},
        token : Tokens \cup {NoToken}, got : Tokens \cup {NoToken}, retried : BOOLEAN]
NoReq == [pc |-> "idle", tab |-> NoTab, kind |-> "call", access |-> NoToken,
          body |-> NoToken, token |-> NoToken, got |-> NoToken, retried |-> FALSE]

TypeOK ==
  /\ Server!TypeOK
  /\ stale \in SUBSET Tokens
  /\ store \in Tokens \cup {NoToken}
  /\ page \in [Tabs -> {"login", "app", "leaving"}]
  /\ refreshing \in [Tabs -> BOOLEAN]
  /\ req \in [Reqs -> Req]
  /\ \A r \in Reqs : req[r].pc \in Refreshing => req[r].token \in issued
  /\ owner \in [Tokens -> Sessions \cup {NoSession}]
  /\ taker \in [Tokens -> Tabs \cup {NoTab}]
  /\ lost \in SUBSET Tokens

Init ==
  /\ Server!Init
  /\ stale = {}
  /\ store = NoToken
  /\ page = [b \in Tabs |-> "login"]
  /\ refreshing = [b \in Tabs |-> FALSE]
  /\ req = [r \in Reqs |-> NoReq]
  /\ owner = [t \in Tokens |-> NoSession]
  /\ taker = [t \in Tokens |-> NoTab]
  /\ lost = {}

At(r, pc) == req[r].pc = pc
Enter(r, q) == req' = [req EXCEPT ![r] = q]
\* The answer to an aborted request reaches nobody.
Goto(r, pc) == Enter(r, IF req[r].tab = NoTab /\ pc \notin AtServer THEN NoReq
                        ELSE [req[r] EXCEPT !.pc = pc, !.access = NoToken])
\* A page that is being left is not shown anything any more.
Show(b, p) == page' = [page EXCEPT ![b] = IF @ = "leaving" THEN @ ELSE p]
IsCurrent(t) == t # NoToken /\ \E s \in Sessions : current[s] = t
\* Tokens are random: which unused one the server picks makes no difference.
Fresh == CHOOSE t \in Tokens : t \notin issued
\* Bound: new trouble starts only while the supply of tokens covers one refresh by every
\* request in flight.
Supply == Cardinality(issued) + Cardinality(Reqs) <= Cardinality(Tokens)
-----------------------------------------------------------------------------
(* What the user does. *)

\* The request interceptor attaches the access token that is stored now, if any is.
Sent(b, kind) == [NoReq EXCEPT !.pc = "sent", !.tab = b, !.kind = kind, !.access = store]

Call(r, b) ==
  /\ "call" \in Kinds /\ At(r, "idle") /\ page[b] = "app"
  /\ Enter(r, Sent(b, "call"))
  /\ UNCHANGED <<server, stale, browser, history>>

\* LoginPage; its second factor goes the same way.
Login(r, b) ==
  /\ "login" \in Kinds /\ At(r, "idle") /\ page[b] = "login"
  /\ Enter(r, Sent(b, "login"))
  /\ UNCHANGED <<server, stale, browser, history>>

\* A tab on the log-in page is sent to a route of the app; RequireAuth lets it in.
Return(b) ==
  /\ page[b] = "login" /\ store # NoToken
  /\ Show(b, "app")
  /\ UNCHANGED <<server, stale, store, refreshing, req, history>>

\* handleLogout names the refresh token stored at the click; without one it just clears.
Logout(r, b) ==
  /\ "logout" \in Kinds /\ At(r, "idle") /\ page[b] = "app"
  /\ IF store = NoToken
     THEN Show(b, "login") /\ UNCHANGED req
     ELSE /\ Enter(r, [Sent(b, "logout") EXCEPT !.body = store])
          /\ UNCHANGED page
  /\ UNCHANGED <<server, stale, store, refreshing, history>>

\* The document of tab b goes: its requests are aborted, but what the server has of them
\* it goes on with.
Matters(q) == q.pc \in AtServer /\ ~(q.pc = "sent" /\ q.kind = "call")

Unloaded(b) ==
  /\ refreshing' = [refreshing EXCEPT ![b] = FALSE]
  /\ req' = [r \in Reqs |-> IF req[r].tab # b THEN req[r]
                            ELSE IF Matters(req[r]) THEN [req[r] EXCEPT !.tab = NoTab]
                            ELSE NoReq]
  /\ lost' = lost \cup {req[r].token : r \in {x \in Reqs :
               req[x].tab = b /\ req[x].pc \in Refreshing}}
  /\ UNCHANGED <<server, stale, store, taker>>

\* window.location.href = '/login' takes effect.
Unload(b) ==
  /\ page[b] = "leaving"
  /\ page' = [page EXCEPT ![b] = "login"]
  /\ Unloaded(b)

\* The user reloads a page of the app.
Reload(b) ==
  /\ "reload" \in Kinds /\ page[b] = "app"
  /\ Show(b, IF store = NoToken THEN "login" ELSE "app")
  /\ Unloaded(b)
-----------------------------------------------------------------------------
(* Requests and their answers. *)

Valid(t) == t \in issued \ stale

\* JwtAuthGuard, then the handler; what a call is answered changes nothing here.
ServeCall(r) ==
  /\ At(r, "sent") /\ req[r].kind = "call"
  /\ IF Valid(req[r].access) THEN Enter(r, NoReq) ELSE Goto(r, "unauth")
  /\ UNCHANGED <<server, stale, browser, history>>

ServeLogout(r) ==
  LET t == req[r].body IN
  /\ At(r, "sent") /\ req[r].kind = "logout"
  /\ Goto(r, IF Valid(req[r].access) THEN "ok" ELSE "unauth")
  /\ IF Valid(req[r].access) /\ IsCurrent(t) THEN Server!Close({owner[t]}) ELSE UNCHANGED <<phase, current, issued>>
  /\ UNCHANGED <<owner, stale, browser, history>>

\* Bound: a session and tokens must be left.
CanOpen == Supply /\ \E s \in Sessions : phase[s] = "unopened"

ServeLogin(r) ==
  LET s == CHOOSE x \in Sessions : phase[x] = "unopened" IN
  /\ At(r, "sent") /\ req[r].kind = "login" /\ CanOpen
  /\ Server!Open(s, Fresh)
  /\ owner' = [owner EXCEPT ![Fresh] = s]
  /\ Enter(r, IF req[r].tab = NoTab THEN NoReq ELSE [req[r] EXCEPT !.pc = "ok", !.access = NoToken, !.got = Fresh])
  /\ UNCHANGED <<stale, browser, history>>

\* A wrong password is a 401 too.
RefuseLogin(r) ==
  /\ At(r, "sent") /\ req[r].kind = "login"
  /\ "badLogin" \in Kinds \/ ~CanOpen
  /\ Goto(r, "unauth")
  /\ UNCHANGED <<server, stale, browser, history>>

\* The promise of r is settled; handleLogout then clears, whatever the answer.
Settle(r) ==
  /\ Enter(r, NoReq)
  /\ IF req[r].kind = "logout" /\ req[r].tab # NoTab
     THEN store' = NoToken /\ Show(req[r].tab, "login")
     ELSE UNCHANGED <<store, page>>

Answered(r) ==
  /\ At(r, "ok")
  /\ IF req[r].kind = "login"
     THEN store' = req[r].got /\ Show(req[r].tab, "app") /\ Enter(r, NoReq)
     ELSE Settle(r)
  /\ UNCHANGED <<server, stale, refreshing, history>>

\* The network fails, or the client's timeout is over: before or after the server's part.
LoseCall(r) ==
  /\ "lose" \in Kinds
  /\ At(r, "sent") \/ At(r, "ok")
  /\ Settle(r)
  /\ UNCHANGED <<server, stale, refreshing, history>>
-----------------------------------------------------------------------------
(* 401: the response interceptor. *)

\* Mutant: isRefreshing is not looked at.
UnauthorizedUnguarded(r) ==
  LET b == req[r].tab IN
  /\ At(r, "unauth") /\ ~req[r].retried /\ store # NoToken
  /\ Enter(r, [req[r] EXCEPT !.pc = "posted", !.token = store, !.retried = TRUE])
  /\ refreshing' = [refreshing EXCEPT ![b] = TRUE]
  /\ UNCHANGED <<server, stale, store, page, history>>

\* Mutant: an empty store is not noticed.
UnauthorizedUnchecked(r) ==
  LET b == req[r].tab IN
  /\ At(r, "unauth") /\ ~req[r].retried
  /\ IF refreshing[b]
     THEN Goto(r, "queued") /\ UNCHANGED refreshing
     ELSE /\ Enter(r, [req[r] EXCEPT !.pc = "posted", !.token = store, !.retried = TRUE])
          /\ refreshing' = [refreshing EXCEPT ![b] = TRUE]
  /\ UNCHANGED <<server, stale, store, page, history>>

\* Nobody has tried yet: this request refreshes, later ones of the tab queue up.
Unauthorized(r) ==
  LET b == req[r].tab IN
  /\ At(r, "unauth") /\ ~req[r].retried /\ store # NoToken
  /\ IF refreshing[b]
     THEN Goto(r, "queued") /\ UNCHANGED refreshing
     ELSE /\ Enter(r, [req[r] EXCEPT !.pc = "posted", !.token = store, !.retried = TRUE])
          /\ refreshing' = [refreshing EXCEPT ![b] = TRUE]
  /\ UNCHANGED <<server, stale, store, page, history>>

\* No refresh token is stored: the tab leaves for the log-in page.  The promise is
\* rejected all the same, which matters to handleLogout only by another clear.
Unauthenticated(r) ==
  LET b == req[r].tab IN
  /\ At(r, "unauth") /\ ~req[r].retried /\ store = NoToken
  /\ Enter(r, NoReq)
  /\ Show(b, "leaving")
  /\ UNCHANGED <<server, stale, store, refreshing, history>>

\* A second 401 of the same request is final.
GiveUp(r) ==
  /\ At(r, "unauth") /\ req[r].retried
  /\ Settle(r)
  /\ UNCHANGED <<server, stale, refreshing, history>>
-----------------------------------------------------------------------------
(* POST /auth/refresh, by plain axios. *)

TakeToken(r) ==
  LET t == req[r].token IN
  /\ At(r, "posted") /\ IsCurrent(t)
  /\ Server!BeginRotation(owner[t])
  /\ Goto(r, "rotating")
  /\ taker' = [taker EXCEPT ![t] = req[r].tab]
  /\ UNCHANGED <<owner, stale, browser, lost>>

RefuseToken(r) ==
  /\ At(r, "posted") /\ ~IsCurrent(req[r].token)
  /\ Goto(r, "refused")
  /\ UNCHANGED <<server, stale, browser, history>>

\* AuthService.refresh has found the old row revoked by itself and inserts the next.
GiveToken(r) ==
  LET s == owner[req[r].token] IN
  /\ At(r, "rotating") /\ issued # Tokens
  /\ Server!FinishRotation(s, Fresh)
  /\ owner' = [owner EXCEPT ![Fresh] = s]
  /\ Enter(r, IF req[r].tab = NoTab THEN NoReq ELSE [req[r] EXCEPT !.pc = "granted", !.got = Fresh])
  /\ UNCHANGED <<stale, browser, history>>

\* The user is gone or inactive, or the insert fails.
\* Bound: with no token value left every rotation ends like this.
DenyToken(r) ==
  LET s == owner[req[r].token] IN
  /\ At(r, "rotating")
  /\ "revoke" \in Kinds \/ issued = Tokens \/ phase[s] = "closed"
  /\ IF phase[s] = "closed" THEN UNCHANGED <<phase, current, issued>> ELSE Server!Close({s})
  /\ Goto(r, "refused")
  /\ UNCHANGED <<owner, stale, browser, history>>

\* The request or its answer gets lost.
LoseRefresh(r) ==
  /\ "lose" \in Kinds
  /\ At(r, "posted") \/ At(r, "granted")
  /\ Goto(r, "refused")
  /\ lost' = IF At(r, "granted") THEN lost \cup {req[r].token} ELSE lost
  /\ UNCHANGED <<server, stale, browser, taker>>

\* Whom processQueue calls.
Waiting(b) == {r \in Reqs : At(r, "queued") /\ req[r].tab = b}

\* Mutant: the new refresh token is not stored.
RefreshDoneHalfStored(r) ==
  LET b == req[r].tab
      Again(q) == [q EXCEPT !.pc = "sent", !.access = req[r].got, !.token = NoToken, !.got = NoToken] IN
  /\ At(r, "granted")
  /\ refreshing' = [refreshing EXCEPT ![b] = FALSE]
  /\ req' = [x \in Reqs |-> IF x = r \/ x \in Waiting(b) THEN Again(req[x]) ELSE req[x]]
  /\ UNCHANGED <<server, stale, store, page, history>>

\* Store the new pair, and send the request and those that waited once more.
RefreshDone(r) ==
  LET b == req[r].tab
      Again(q) == [q EXCEPT !.pc = "sent", !.access = req[r].got, !.token = NoToken, !.got = NoToken] IN
  /\ At(r, "granted")
  /\ store' = req[r].got
  /\ refreshing' = [refreshing EXCEPT ![b] = FALSE]
  /\ req' = [x \in Reqs |-> IF x = r \/ x \in Waiting(b) THEN Again(req[x]) ELSE req[x]]
  /\ UNCHANGED <<server, stale, page, history>>

\* Mutant: processQueue is called after success only.
RefreshFailedSilently(r) ==
  LET b == req[r].tab IN
  /\ At(r, "refused")
  /\ store' = NoToken
  /\ Show(b, "leaving")
  /\ refreshing' = [refreshing EXCEPT ![b] = FALSE]
  /\ Enter(r, NoReq)
  /\ UNCHANGED <<server, stale, history>>

\* The request and those that waited are rejected, the store is cleared, whoever wrote it.
RefreshFailed(r) ==
  LET b == req[r].tab IN
  /\ At(r, "refused")
  /\ store' = NoToken
  /\ Show(b, "leaving")
  /\ refreshing' = [refreshing EXCEPT ![b] = FALSE]
  /\ req' = [x \in Reqs |-> IF x = r \/ x \in Waiting(b) THEN NoReq ELSE req[x]]
  /\ UNCHANGED <<server, stale, history>>

-----------------------------------------------------------------------------
(* Time and other people. *)

\* Fifteen minutes pass.
Expire ==
  /\ "expire" \in Kinds /\ Supply
  /\ stale # issued /\ stale' = issued
  /\ UNCHANGED <<server, browser, req, history>>

\* An administrator resets the password or deactivates the account.
Revoke(s) ==
  /\ "revoke" \in Kinds
  /\ Server!Close({s})
  /\ UNCHANGED <<owner, stale, browser, req, history>>
-----------------------------------------------------------------------------
User(r, b) == Call(r, b) \/ Login(r, b) \/ Logout(r, b)
Serve(r) == ServeCall(r) \/ ServeLogout(r) \/ ServeLogin(r) \/ RefuseLogin(r)
            \/ TakeToken(r) \/ RefuseToken(r) \/ GiveToken(r) \/ DenyToken(r)
Script(r) == Answered(r) \/ Unauthorized(r) \/ Unauthenticated(r) \/ GiveUp(r)
             \/ RefreshDone(r) \/ RefreshFailed(r)
Lose(r) == LoseCall(r) \/ LoseRefresh(r)

Next ==
  \/ \E r \in Reqs, b \in Tabs : User(r, b)
  \/ \E r \in Reqs : Serve(r) \/ Script(r) \/ Lose(r)
  \/ \E b \in Tabs : Return(b) \/ Unload(b) \/ Reload(b)
  \/ Expire
  \/ \E s \in Sessions : Revoke(s)

Spec == Init /\ [][Next]_vars
-----------------------------------------------------------------------------
Refreshes(b) == {r \in Reqs : req[r].tab = b /\ req[r].pc \in Refreshing}

\* isRefreshing says what it says: a tab has one refresh under way while the flag is set
\* and none while it is not, and a request waits only while there is an answer to wait for:
\* the queue behind a refresh never hangs.
RefreshesAreExclusive ==
  \A b \in Tabs :
    /\ Cardinality(Refreshes(b)) = IF refreshing[b] THEN 1 ELSE 0
    /\ Waiting(b) # {} => refreshing[b]

Ended(t) == phase[owner[t]] = "closed"

\* The refresh token in localStorage can be used, or it is known why not: its session was
\* ended at the server, a tab is just replacing it, or the answer that would have replaced
\* it never reached a page.  So no interleaving of tabs leaves a used token behind.
StoredTokenIsLive ==
  store # NoToken =>
    \/ IsCurrent(store) \/ Ended(store) \/ store \in lost
    \/ \E r \in Reqs : req[r].tab # NoTab /\ req[r].token = store /\ req[r].pc \in {"rotating", "granted"}

\* A refresh fails, and throws the operator out, only when the session was ended at the
\* server, the network failed, or another tab was quicker: the requests of one tab never
\* use up each other's token.
ATabNeverBeatsItself ==
  \A r \in Reqs : At(r, "refused") /\ req[r].tab # NoTab =>
    LET t == req[r].token IN
    IsCurrent(t) \/ Ended(t) \/ t \in lost \/ taker[t] # req[r].tab

\* What the auth controller says of logout, "Revoke refresh token": when it has answered,
\* the session that was logged out of is over.
LogoutEndsSession ==
  \A r \in Reqs : At(r, "ok") /\ req[r].kind = "logout" => Ended(req[r].body)

\* What it does do: the token it named is useless, and its session over too, unless a refresh
\* was quicker, be it of a tab or of a page that is gone, and carries the session on.
LogoutRevokesToken ==
  \A r \in Reqs : At(r, "ok") /\ req[r].kind = "logout" =>
    LET t == req[r].body IN
    ~IsCurrent(t) /\ (Ended(t) \/ taker[t] # NoTab \/ t \in lost)
=============================================================================
