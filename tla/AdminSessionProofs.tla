------------------------- MODULE AdminSessionProofs -------------------------
(***************************************************************************)
(* What holds of the session of admin web for any tabs, requests in        *)
(* flight, sessions and tokens, and any mishaps.                           *)
(***************************************************************************)
EXTENDS AdminSession, FiniteSetTheorems, TLAPS

\* The token can be used, or its session is over.
Fine(t) == IsCurrent(t) \/ Ended(t)

\* An answer that brings a pair of tokens.
Held(q) == q.pc = "granted" \/ (q.pc = "ok" /\ q.kind = "login")

\* The server hands out tokens once, each to one session, whose only current one it is
\* while the session is open.
ServerIsSound ==
  /\ \A s \in Sessions : current[s] # NoToken =>
       current[s] \in issued /\ owner[current[s]] = s /\ phase[s] = "open"
  /\ \A t \in issued : owner[t] \in Sessions
  /\ store # NoToken => store \in issued

\* A request is at the server, or belongs to a tab; its tokens have been issued.
ReqIsSound(q) ==
  /\ q.pc = "idle" => q = NoReq
  /\ q.pc \notin AtServer \cup {"idle"} => q.tab \in Tabs
  /\ q.pc \in Refreshing => q.token \in issued
  /\ Held(q) => q.got \in issued /\ Fine(q.got)

\* What has become of the token a refresh presents.
TraceIsKnown(q) ==
  /\ q.pc \in {"posted", "rotating"} /\ q.tab = NoTab => q.token \in lost
  /\ q.pc \in {"rotating", "granted"} => ~IsCurrent(q.token)
  /\ q.pc \in {"rotating", "granted"} /\ q.tab # NoTab => taker[q.token] = q.tab
  /\ q.pc \in {"posted", "refused"} /\ q.tab # NoTab =>
       Fine(q.token) \/ q.token \in lost \/ taker[q.token] # q.tab

\* A pair on its way to a page is known to nobody else.
PairsAreSecret ==
  \A r \in Reqs : Held(req[r]) =>
    /\ req[r].got # store
    /\ \A x \in Reqs : req[x].pc \in Refreshing => req[x].token # req[r].got
    /\ \A x \in Reqs \ {r} : Held(req[x]) => req[x].got # req[r].got

\* isRefreshing is set while exactly one refresh of the tab is under way, and while
\* anybody waits for it.
OneRefresh ==
  /\ \A r \in Reqs : req[r].pc \in Refreshing /\ req[r].tab # NoTab => refreshing[req[r].tab]
  /\ \A r, x \in Reqs : req[r].pc \in Refreshing /\ req[x].pc \in Refreshing
                        /\ req[r].tab = req[x].tab /\ req[r].tab # NoTab => r = x
  /\ \A b \in Tabs : refreshing[b] => \E r \in Reqs : req[r].pc \in Refreshing /\ req[r].tab = b
  /\ \A r \in Reqs : req[r].pc = "queued" => refreshing[req[r].tab]

SessionInv ==
  /\ TypeOK /\ ServerIsSound /\ PairsAreSecret /\ OneRefresh /\ StoredTokenIsLive
  /\ \A r \in Reqs : ReqIsSound(req[r]) /\ TraceIsKnown(req[r])
-----------------------------------------------------------------------------
(* Slots of requests. *)

\* An empty slot.
LEMMA NoReqIs ==
  /\ NoReq \in Req /\ NoReq.pc = "idle" /\ NoReq.tab = NoTab /\ ~Held(NoReq)
  /\ NoReq.kind = "call" /\ NoReq.token = NoToken /\ NoReq.got = NoToken
  BY DEF NoReq, Req, PCs, Held

\* A slot takes something else, and the others keep what they have.
LEMMA Entered ==
  ASSUME TypeOK, NEW r \in Reqs, NEW q \in Req, Enter(r, q)
  PROVE  req' \in [Reqs -> Req] /\ req'[r] = q /\ \A x \in Reqs \ {r} : req'[x] = req[x]
  BY DEF Enter, TypeOK

\* A request gets to another point.
LEMMA Gone ==
  ASSUME TypeOK, NEW r \in Reqs, NEW pc \in PCs, Goto(r, pc), req[r].tab # NoTab \/ pc \in AtServer
  PROVE  /\ req' \in [Reqs -> Req] /\ (\A x \in Reqs \ {r} : req'[x] = req[x])
         /\ req'[r].pc = pc /\ req'[r].tab = req[r].tab /\ req'[r].kind = req[r].kind
         /\ req'[r].token = req[r].token /\ req'[r].got = req[r].got
         /\ req'[r].body = req[r].body /\ req'[r].retried = req[r].retried
  <1> DEFINE k == [req[r] EXCEPT !.pc = pc, !.access = NoToken]
  <1>1. req[r] \in Req
    BY DEF TypeOK
  <1>2. /\ k \in Req /\ k.pc = pc /\ k.tab = req[r].tab /\ k.kind = req[r].kind
        /\ k.token = req[r].token /\ k.got = req[r].got /\ k.body = req[r].body /\ k.retried = req[r].retried
    BY <1>1 DEF Req
  <1>3. Enter(r, k)
    BY DEF Goto
  <1> HIDE DEF k
  <1> QED BY <1>2, <1>3, Entered

\* What nobody waits for is dropped.
LEMMA Dropped ==
  ASSUME TypeOK, NEW r \in Reqs, Enter(r, NoReq)
  PROVE  req' \in [Reqs -> Req] /\ req'[r] = NoReq /\ \A x \in Reqs \ {r} : req'[x] = req[x]
  BY NoReqIs, Entered

\* The same when the answer finds no tab any more.
LEMMA GoneNowhere ==
  ASSUME TypeOK, NEW r \in Reqs, NEW pc \in PCs \ AtServer, Goto(r, pc), req[r].tab = NoTab
  PROVE  req' \in [Reqs -> Req] /\ req'[r] = NoReq /\ \A x \in Reqs \ {r} : req'[x] = req[x]
  BY Dropped DEF Goto

\* A page shows something of its own.
LEMMA Shown ==
  ASSUME TypeOK, NEW b \in Tabs, NEW p \in {"login", "app", "leaving"}, Show(b, p)
  PROVE  page' \in [Tabs -> {"login", "app", "leaving"}]
  BY DEF TypeOK, Show
-----------------------------------------------------------------------------
(* The server. *)

\* Sessions that are closed: what was current is ended, nothing else changes.
LEMMA Closing ==
  ASSUME TypeOK, ServerIsSound, NEW s \in Sessions, Server!Close({s}), UNCHANGED <<owner, store>>
  PROVE  /\ phase' \in [Sessions -> Server!Phases] /\ current' \in [Sessions -> Tokens \cup {NoToken}]
         /\ issued' = issued /\ ServerIsSound' /\ phase'[s] = "closed"
         /\ \A t \in issued : (Fine(t) => Fine(t)') /\ (Ended(t) => Ended(t)')
         /\ \A t \in issued : ~IsCurrent(t) => ~IsCurrent(t)'
  <1>1. /\ phase' = [x \in Sessions |-> IF x \in {s} THEN "closed" ELSE phase[x]]
        /\ current' = [x \in Sessions |-> IF x \in {s} THEN NoToken ELSE current[x]]
        /\ issued' = issued
    BY DEF Server!Close
  <1>2. phase' \in [Sessions -> Server!Phases] /\ current' \in [Sessions -> Tokens \cup {NoToken}]
    BY <1>1 DEF TypeOK, Server!TypeOK, Server!Phases
  <1>3. ServerIsSound'
    BY <1>1 DEF ServerIsSound
  <1>4. ASSUME NEW t \in issued PROVE /\ Fine(t) => Fine(t)'
                                      /\ Ended(t) => Ended(t)'
                                      /\ ~IsCurrent(t) => ~IsCurrent(t)'
    <2>1. owner[t] \in Sessions
      BY DEF ServerIsSound
    <2>2. Ended(t) => Ended(t)'
      BY <1>1, <2>1 DEF Ended
    <2>3. ~IsCurrent(t) => ~IsCurrent(t)'
      BY <1>1, NoneAssumption DEF IsCurrent
    <2>4. IsCurrent(t) => Fine(t)'
      <3> SUFFICES ASSUME IsCurrent(t) PROVE Fine(t)'
        OBVIOUS
      <3>1. PICK x \in Sessions : current[x] = t /\ t # NoToken
        BY DEF IsCurrent
      <3>2. owner[t] = x
        BY <3>1 DEF ServerIsSound
      <3>3. CASE x = s
        BY <1>1, <3>2, <3>3 DEF Fine, Ended
      <3>4. CASE x # s
        BY <1>1, <3>1, <3>4 DEF Fine, IsCurrent
      <3> QED BY <3>3, <3>4
    <2> QED BY <2>2, <2>3, <2>4 DEF Fine
  <1> QED BY <1>1, <1>2, <1>3, <1>4

\* A token that is taken is current no longer; the others stay what they are.
LEMMA Taking ==
  ASSUME TypeOK, ServerIsSound, NEW t, IsCurrent(t), Server!BeginRotation(owner[t]), UNCHANGED <<owner, store>>
  PROVE  /\ phase' \in [Sessions -> Server!Phases] /\ current' \in [Sessions -> Tokens \cup {NoToken}]
         /\ issued' = issued /\ ServerIsSound' /\ t \in issued /\ ~IsCurrent(t)'
         /\ \A u \in issued \ {t} : (Fine(u) => Fine(u)') /\ (Ended(u) => Ended(u)')
         /\ \A u \in issued : ~IsCurrent(u) => ~IsCurrent(u)'
  <1>1. PICK s \in Sessions : current[s] = t /\ t # NoToken
    BY DEF IsCurrent
  <1>2. t \in issued /\ owner[t] = s /\ phase[s] = "open"
    BY <1>1 DEF ServerIsSound
  <1>3. /\ phase' = [phase EXCEPT ![s] = "rotating"] /\ current' = [current EXCEPT ![s] = NoToken]
        /\ issued' = issued
    BY <1>2 DEF Server!BeginRotation
  <1>4. phase \in [Sessions -> Server!Phases] /\ current \in [Sessions -> Tokens \cup {NoToken}]
    BY DEF TypeOK, Server!TypeOK
  <1>5. phase' \in [Sessions -> Server!Phases] /\ current' \in [Sessions -> Tokens \cup {NoToken}]
    BY <1>3, <1>4 DEF Server!Phases
  <1>6. ServerIsSound'
    BY <1>3, <1>4 DEF ServerIsSound
  <1>7. ~IsCurrent(t)'
    BY <1>1, <1>2, <1>3, <1>4 DEF IsCurrent, ServerIsSound
  <1>8. ASSUME NEW u \in issued PROVE ~IsCurrent(u) => ~IsCurrent(u)'
    BY <1>3, <1>4 DEF IsCurrent
  <1>9. ASSUME NEW u \in issued \ {t} PROVE (Fine(u) => Fine(u)') /\ (Ended(u) => Ended(u)')
    <2>1. Ended(u) => Ended(u)'
      BY <1>2, <1>3, <1>4 DEF Ended, ServerIsSound
    <2>2. IsCurrent(u) => IsCurrent(u)'
      BY <1>1, <1>3, <1>4 DEF IsCurrent
    <2> QED BY <2>1, <2>2 DEF Fine
  <1> QED BY <1>2, <1>3, <1>5, <1>6, <1>7, <1>8, <1>9

\* A new token is current, of its session, and has been nobody's before.
LEMMA Handing ==
  ASSUME TypeOK, ServerIsSound, NEW s \in Sessions, issued # Tokens, phase[s] \in {"unopened", "rotating"},
         NEW f, f = Fresh, Server!Hand(s, f), owner' = [owner EXCEPT ![f] = s], UNCHANGED store
  PROVE  /\ phase' \in [Sessions -> Server!Phases] /\ current' \in [Sessions -> Tokens \cup {NoToken}]
         /\ owner' \in [Tokens -> Sessions \cup {NoSession}]
         /\ f \in Tokens /\ f \notin issued /\ issued' = issued \cup {f} /\ ServerIsSound'
         /\ Fine(f)'
         /\ \A u \in issued : (Fine(u) => Fine(u)') /\ (Ended(u) => Ended(u)')
         /\ \A u \in issued : ~IsCurrent(u) => ~IsCurrent(u)'
  <1>1. issued \subseteq Tokens /\ phase \in [Sessions -> Server!Phases] /\ current \in [Sessions -> Tokens \cup {NoToken}]
        /\ owner \in [Tokens -> Sessions \cup {NoSession}]
    BY DEF TypeOK, Server!TypeOK
  <1>2. f \in Tokens /\ f \notin issued
    <2>1. \E t \in Tokens : t \notin issued
      BY <1>1
    <2> QED BY <2>1 DEF Fresh
  <1>3. /\ phase' = [phase EXCEPT ![s] = "open"] /\ current' = [current EXCEPT ![s] = f]
        /\ issued' = issued \cup {f} /\ owner' = [owner EXCEPT ![f] = s]
    BY DEF Server!Hand
  <1>4. phase' \in [Sessions -> Server!Phases] /\ current' \in [Sessions -> Tokens \cup {NoToken}]
        /\ owner' \in [Tokens -> Sessions \cup {NoSession}]
    BY <1>1, <1>3, <1>2 DEF Server!Phases
  <1>5. ServerIsSound'
    BY <1>1, <1>3, <1>2 DEF ServerIsSound
  <1>6. IsCurrent(f)'
    BY <1>1, <1>3, <1>2, NoneAssumption DEF IsCurrent
  <1>7. ASSUME NEW u \in issued PROVE /\ Fine(u) => Fine(u)'
                                      /\ Ended(u) => Ended(u)'
                                      /\ ~IsCurrent(u) => ~IsCurrent(u)'
    <2>1. owner'[u] = owner[u] /\ owner[u] \in Sessions /\ u # f
      BY <1>1, <1>3, <1>2 DEF ServerIsSound
    <2>2. Ended(u) => Ended(u)'
      BY <1>1, <1>3, <2>1 DEF Ended
    <2>3. ~IsCurrent(u) => ~IsCurrent(u)'
      BY <1>1, <1>3, <2>1 DEF IsCurrent
    <2>4. current[s] = NoToken
      BY DEF ServerIsSound
    <2>5. IsCurrent(u) => IsCurrent(u)'
      BY <1>1, <1>3, <2>4 DEF IsCurrent
    <2> QED BY <2>2, <2>3, <2>5 DEF Fine
  <1>8. Fine(f)'
    BY <1>6 DEF Fine
  <1> QED BY <1>2, <1>3, <1>4, <1>5, <1>7, <1>8
-----------------------------------------------------------------------------
(* What a step leaves alone stays as it is. *)

\* The server takes back nothing it has said of a token.
ServerKeeps ==
  /\ ServerIsSound' /\ issued \subseteq issued'
  /\ \A t \in issued : (Fine(t) => Fine(t)') /\ (~IsCurrent(t) => ~IsCurrent(t)')

\* A request that a step leaves alone is as sound as before.
LEMMA KeptRequest ==
  ASSUME SessionInv, ServerKeeps, NEW x \in Reqs, req'[x] = req[x], lost \subseteq lost', taker' = taker
  PROVE  ReqIsSound(req[x])' /\ TraceIsKnown(req[x])'
  <1>1. ReqIsSound(req[x]) /\ TraceIsKnown(req[x])
    BY DEF SessionInv
  <1>2. ReqIsSound(req[x])'
    BY <1>1 DEF ReqIsSound, ServerKeeps, Held
  <1>3. TraceIsKnown(req[x])'
    BY <1>1 DEF ReqIsSound, ServerKeeps, TraceIsKnown, Refreshing
  <1> QED BY <1>2, <1>3

\* No new pair is on its way, and who presents a token did so before or takes the stored one.
LEMMA SecretsKept ==
  ASSUME SessionInv, store' \in {store, NoToken},
         \A x \in Reqs : Held(req[x])' => Held(req[x]) /\ req'[x].got = req[x].got,
         \A x \in Reqs : req'[x].pc \in Refreshing =>
           (req[x].pc \in Refreshing /\ req'[x].token = req[x].token) \/ req'[x].token = store
  PROVE  PairsAreSecret'
  <1>1. ASSUME NEW r \in Reqs, Held(req[r])
        PROVE  /\ req[r].got # store /\ req[r].got # NoToken
               /\ \A x \in Reqs : req[x].pc \in Refreshing => req[x].token # req[r].got
               /\ \A x \in Reqs \ {r} : Held(req[x]) => req[x].got # req[r].got
    <2>1. req[r].got \in Tokens
      BY <1>1 DEF SessionInv, ReqIsSound, TypeOK, Server!TypeOK
    <2> QED BY <1>1, <2>1, NoneAssumption DEF SessionInv, PairsAreSecret
  <1>2. ASSUME NEW r \in Reqs, Held(req[r])'
        PROVE  /\ req'[r].got # store'
               /\ \A x \in Reqs : req'[x].pc \in Refreshing => req'[x].token # req'[r].got
               /\ \A x \in Reqs \ {r} : Held(req[x])' => req'[x].got # req'[r].got
    BY <1>1, <1>2
  <1> QED BY <1>2 DEF PairsAreSecret

\* Tabs refresh exactly as before.
LEMMA RefreshesKept ==
  ASSUME SessionInv, TypeOK', refreshing' = refreshing,
         \A b \in Tabs : Refreshes(b)' = Refreshes(b),
         \A x \in Reqs : req'[x].pc = "queued" => refreshing[req'[x].tab]
  PROVE  OneRefresh'
  <1>1. \A x \in Reqs : req'[x].tab # NoTab => req'[x].tab \in Tabs
    BY DEF TypeOK, Req
  <1>2. \A b \in Tabs, x \in Reqs :
          req'[x].tab = b /\ req'[x].pc \in Refreshing <=> req[x].tab = b /\ req[x].pc \in Refreshing
    BY DEF Refreshes
  <1>3. \A b \in Tabs : b # NoTab
    BY NoneAssumption
  <1> QED BY <1>1, <1>2, <1>3 DEF SessionInv, OneRefresh

\* The stored token is as live as before: who is replacing it goes on, or has lost it, or
\* the token can be used.
LEMMA StoreKept ==
  ASSUME SessionInv, ServerKeeps, store' \in {store, NoToken}, lost \subseteq lost',
         \A x \in Reqs, t \in Tokens :
           req[x].pc \in {"rotating", "granted"} /\ req[x].tab # NoTab /\ req[x].token = t =>
           \/ req'[x].pc \in {"rotating", "granted"} /\ req'[x].tab = req[x].tab /\ req'[x].token = t
           \/ t \in lost' \/ Fine(t)'
  PROVE  StoredTokenIsLive'
  <1> SUFFICES ASSUME NEW t, t = store, store' = store, t # NoToken
               PROVE  \/ Fine(t)' \/ t \in lost'
                      \/ \E x \in Reqs : req'[x].tab # NoTab /\ req'[x].token = t /\ req'[x].pc \in {"rotating", "granted"}
    BY DEF StoredTokenIsLive, Fine
  <1>1. t \in issued /\ t \in Tokens
    BY DEF SessionInv, ServerIsSound, TypeOK
  <1>2. Fine(t) => Fine(t)'
    BY <1>1 DEF ServerKeeps
  <1>3. CASE Fine(t) \/ t \in lost
    BY <1>2, <1>3
  <1>4. CASE \E x \in Reqs : req[x].tab # NoTab /\ req[x].token = t /\ req[x].pc \in {"rotating", "granted"}
    <2>1. PICK x \in Reqs : req[x].tab # NoTab /\ req[x].token = t /\ req[x].pc \in {"rotating", "granted"}
      BY <1>4
    <2> QED BY <1>1, <2>1
  <1> QED BY <1>3, <1>4 DEF SessionInv, StoredTokenIsLive, Fine

\* A step that touches no request.
LEMMA SameRequests ==
  ASSUME SessionInv, TypeOK', ServerKeeps, UNCHANGED <<req, refreshing, taker>>,
         lost \subseteq lost', store' \in {store, NoToken}
  PROVE  SessionInv'
  <1>1. \A x \in Reqs : ReqIsSound(req[x])' /\ TraceIsKnown(req[x])'
    BY KeptRequest
  <1>2. PairsAreSecret'
    BY SecretsKept DEF Held
  <1>3. OneRefresh'
    BY DEF SessionInv, OneRefresh
  <1>4. StoredTokenIsLive'
    BY StoreKept
  <1> QED BY <1>1, <1>2, <1>3, <1>4 DEF SessionInv, ServerKeeps

\* A step of a request that refreshes neither before nor after, and brings no new pair.
LEMMA PlainStep ==
  ASSUME SessionInv, TypeOK', ServerKeeps, NEW r \in Reqs, \A x \in Reqs \ {r} : req'[x] = req[x],
         UNCHANGED <<refreshing, taker>>, lost \subseteq lost', store' \in {store, NoToken},
         req[r].pc \notin Refreshing, req'[r].pc \notin Refreshing, ~Held(req[r])', ReqIsSound(req[r])',
         req'[r].pc = "queued" => refreshing[req'[r].tab]
  PROVE  SessionInv'
  <1>1. TraceIsKnown(req[r])'
    BY DEF TraceIsKnown, Refreshing
  <1>2. \A x \in Reqs : ReqIsSound(req[x])' /\ TraceIsKnown(req[x])'
    BY <1>1, KeptRequest
  <1>3. PairsAreSecret'
    <2>1. \A x \in Reqs \ {r} : Held(req[x])' => Held(req[x]) /\ req'[x].got = req[x].got
      BY DEF Held
    <2> QED BY <2>1, SecretsKept
  <1>4. OneRefresh'
    <2>1. \A b \in Tabs : Refreshes(b)' = Refreshes(b)
      BY DEF Refreshes
    <2>2. \A x \in Reqs : req'[x].pc = "queued" => refreshing[req'[x].tab]
      BY DEF SessionInv, OneRefresh
    <2> QED BY <2>1, <2>2, RefreshesKept
  <1>5. StoredTokenIsLive'
    BY StoreKept DEF Refreshing
  <1> QED BY <1>2, <1>3, <1>4, <1>5 DEF SessionInv, ServerKeeps
-----------------------------------------------------------------------------
(* Steps that do not touch the server's register. *)

\* The server's part while it rests.
LEMMA SameServer ==
  ASSUME SessionInv, UNCHANGED server, store' \in issued \cup {NoToken}
  PROVE  /\ ServerKeeps /\ Server!TypeOK' /\ owner' \in [Tokens -> Sessions \cup {NoSession}]
         /\ \A t : (Fine(t) <=> Fine(t)') /\ (IsCurrent(t) <=> IsCurrent(t)')
  BY DEF SessionInv, ServerKeeps, ServerIsSound, server, TypeOK, Server!TypeOK, Fine, Ended, IsCurrent

\* What the request interceptor makes.
LEMMA SentIs ==
  ASSUME TypeOK, NEW b \in Tabs, NEW kind \in {"call", "logout", "login"}, NEW t \in Tokens \cup {NoToken}
  PROVE  LET q == [Sent(b, kind) EXCEPT !.body = t] IN
         q \in Req /\ q.pc = "sent" /\ q.kind = kind /\ Sent(b, kind) \in Req /\ Sent(b, kind).pc = "sent"
  BY DEF Sent, NoReq, Req, PCs, TypeOK

\* The types of everything follow from those of the slots and of what a step changes.
LEMMA SlotsHaveTypes ==
  ASSUME SessionInv, Server!TypeOK', owner' \in [Tokens -> Sessions \cup {NoSession}], req' \in [Reqs -> Req],
         \A x \in Reqs : ReqIsSound(req[x])', store' \in Tokens \cup {NoToken},
         page' \in [Tabs -> {"login", "app", "leaving"}], refreshing' \in [Tabs -> BOOLEAN],
         stale' \in SUBSET Tokens, taker' \in [Tokens -> Tabs \cup {NoTab}], lost' \in SUBSET Tokens
  PROVE  TypeOK'
  BY DEF SessionInv, TypeOK, ReqIsSound

\* A step of a request that leaves the server and the refreshes of its tab alone.
LEMMA QuietStep ==
  ASSUME SessionInv, UNCHANGED <<server, stale, refreshing, history>>, NEW r \in Reqs,
         req' \in [Reqs -> Req], \A x \in Reqs \ {r} : req'[x] = req[x],
         page' \in [Tabs -> {"login", "app", "leaving"}], store' \in {store, NoToken},
         req[r].pc \notin Refreshing, req'[r].pc \notin Refreshing, ~Held(req[r])', ReqIsSound(req[r])',
         req'[r].pc = "queued" => refreshing[req'[r].tab]
  PROVE  SessionInv'
  <1>1. store' \in issued \cup {NoToken} /\ lost' = lost /\ taker' = taker
    BY DEF SessionInv, ServerIsSound, history
  <1>2. /\ ServerKeeps /\ Server!TypeOK' /\ owner' \in [Tokens -> Sessions \cup {NoSession}]
    BY <1>1, SameServer
  <1>3. \A x \in Reqs : ReqIsSound(req[x])'
    BY <1>1, <1>2, KeptRequest
  <1>4. TypeOK'
    BY <1>1, <1>2, <1>3, SlotsHaveTypes DEF SessionInv, TypeOK, Server!TypeOK
  <1> QED BY <1>1, <1>2, <1>4, PlainStep

\* Call, Login and Logout: a request is sent, or there is nothing to log out of.
LEMMA UserHolds ==
  ASSUME SessionInv, NEW r \in Reqs, NEW b \in Tabs, User(r, b)
  PROVE  SessionInv'
  <1>1. TypeOK /\ store \in Tokens \cup {NoToken}
    BY DEF SessionInv, TypeOK
  <1>2. CASE \E q \in Req : Enter(r, q) /\ At(r, "idle") /\ q.pc = "sent"
                            /\ UNCHANGED <<server, stale, store, page, refreshing, history>>
    <2>1. PICK q \in Req : Enter(r, q) /\ At(r, "idle") /\ q.pc = "sent"
                            /\ UNCHANGED <<server, stale, store, page, refreshing, history>>
      BY <1>2
    <2>2. req' \in [Reqs -> Req] /\ req'[r] = q /\ \A x \in Reqs \ {r} : req'[x] = req[x]
      BY <1>1, <2>1, Entered
    <2>3. ReqIsSound(req[r])' /\ ~Held(req[r])' /\ req'[r].pc = "sent"
      BY <2>1, <2>2 DEF ReqIsSound, Held, AtServer, Refreshing
    <2>4. page' \in [Tabs -> {"login", "app", "leaving"}]
      BY <1>1, <2>1 DEF TypeOK
    <2> QED BY <2>1, <2>2, <2>3, <2>4, QuietStep DEF At, Refreshing
  <1>3. CASE Show(b, "login") /\ UNCHANGED <<server, stale, store, refreshing, req, history>>
    <2>1. page' \in [Tabs -> {"login", "app", "leaving"}]
      BY <1>1, <1>3, Shown
    <2>2. ServerKeeps /\ Server!TypeOK' /\ owner' \in [Tokens -> Sessions \cup {NoSession}]
      BY <1>3, SameServer DEF SessionInv, ServerIsSound
    <2>3. TypeOK'
      BY <1>3, <2>1, <2>2 DEF SessionInv, TypeOK, Server!TypeOK, history, server
    <2> QED BY <1>3, <2>2, <2>3, SameRequests DEF history
  <1>4. CASE Call(r, b) \/ Login(r, b)
    BY <1>1, <1>2, <1>4, SentIs DEF Call, Login, browser
  <1>5. CASE Logout(r, b)
    BY <1>1, <1>2, <1>3, <1>5, SentIs DEF Logout
  <1> QED BY <1>4, <1>5 DEF User

\* Settle: whatever the request was, nothing of it is left.
LEMMA SettleHolds ==
  ASSUME SessionInv, NEW r \in Reqs, Settle(r), req[r].pc \notin Refreshing,
         UNCHANGED <<server, stale, refreshing, history>>
  PROVE  SessionInv'
  <1>1. TypeOK /\ req[r] \in Req
    BY DEF SessionInv, TypeOK
  <1>2. req' \in [Reqs -> Req] /\ req'[r] = NoReq /\ \A x \in Reqs \ {r} : req'[x] = req[x]
    BY <1>1, Dropped DEF Settle
  <1>3. page' \in [Tabs -> {"login", "app", "leaving"}] /\ store' \in {store, NoToken}
    <2>1. CASE req[r].kind = "logout" /\ req[r].tab # NoTab
      BY <1>1, <2>1, Shown DEF Settle, Req
    <2>2. CASE ~(req[r].kind = "logout" /\ req[r].tab # NoTab)
      BY <1>1, <2>2 DEF Settle, TypeOK
    <2> QED BY <2>1, <2>2
  <1>4. ReqIsSound(req[r])' /\ ~Held(req[r])' /\ req'[r].pc = "idle"
    BY <1>2, NoReqIs DEF ReqIsSound, Held, AtServer, Refreshing, NoReq
  <1> QED BY <1>2, <1>3, <1>4, QuietStep DEF Refreshing

\* A request gets to an answer that brings no pair, or into the queue.
LEMMA GoneQuietly ==
  ASSUME SessionInv, NEW r \in Reqs, NEW pc \in {"ok", "unauth", "queued"}, Goto(r, pc),
         pc = "ok" => req[r].kind # "login", pc = "queued" => req[r].tab # NoTab /\ refreshing[req[r].tab]
  PROVE  /\ req' \in [Reqs -> Req] /\ \A x \in Reqs \ {r} : req'[x] = req[x]
         /\ req'[r].pc \notin Refreshing /\ ~Held(req[r])' /\ ReqIsSound(req[r])'
         /\ req'[r].pc = "queued" => refreshing[req'[r].tab]
  <1>1. TypeOK /\ pc \in PCs \ AtServer /\ (req[r].tab # NoTab => req[r].tab \in Tabs)
    BY DEF SessionInv, TypeOK, Req, PCs, AtServer
  <1>2. CASE req[r].tab = NoTab
    <2>1. req' \in [Reqs -> Req] /\ req'[r] = NoReq /\ \A x \in Reqs \ {r} : req'[x] = req[x]
      BY <1>1, <1>2, GoneNowhere
    <2> QED BY <2>1, NoReqIs DEF Refreshing, Held, ReqIsSound, AtServer
  <1>3. CASE req[r].tab # NoTab
    <2>1. /\ req' \in [Reqs -> Req] /\ (\A x \in Reqs \ {r} : req'[x] = req[x])
          /\ req'[r].pc = pc /\ req'[r].tab = req[r].tab /\ req'[r].kind = req[r].kind
      BY <1>1, <1>3, Gone
    <2> QED BY <1>1, <1>3, <2>1 DEF Refreshing, Held, ReqIsSound, AtServer
  <1> QED BY <1>2, <1>3

\* What calls, refused log-ins and 401s with a refresh under way do.
LEMMA ServedQuietly ==
  ASSUME SessionInv, NEW r \in Reqs, NEW pc \in {"ok", "unauth", "queued"}, Goto(r, pc), req[r].pc \notin Refreshing,
         pc = "ok" => req[r].kind # "login", pc = "queued" => req[r].tab # NoTab /\ refreshing[req[r].tab],
         UNCHANGED <<server, stale, browser, history>>
  PROVE  SessionInv'
  <1>1. page' \in [Tabs -> {"login", "app", "leaving"}] /\ store' = store /\ refreshing' = refreshing
    BY DEF SessionInv, TypeOK, browser
  <1> QED BY <1>1, GoneQuietly, QuietStep

\* ServeCall and RefuseLogin.
LEMMA RefusalsHold ==
  ASSUME SessionInv, NEW r \in Reqs, ServeCall(r) \/ RefuseLogin(r)
  PROVE  SessionInv'
  <1>0. req[r].pc = "sent" /\ UNCHANGED <<server, stale, browser, history>>
    BY DEF ServeCall, RefuseLogin, At
  <1>1. CASE Enter(r, NoReq)
    <2>1. TypeOK /\ page' \in [Tabs -> {"login", "app", "leaving"}] /\ store' = store /\ refreshing' = refreshing
      BY <1>0 DEF SessionInv, TypeOK, browser
    <2>2. req' \in [Reqs -> Req] /\ req'[r] = NoReq /\ \A x \in Reqs \ {r} : req'[x] = req[x]
      BY <1>1, <2>1, Dropped
    <2>3. ReqIsSound(req[r])' /\ ~Held(req[r])' /\ req'[r].pc = "idle"
      BY <2>2, NoReqIs DEF ReqIsSound, Held, AtServer, Refreshing
    <2> QED BY <1>0, <2>1, <2>2, <2>3, QuietStep DEF Refreshing
  <1>2. CASE Goto(r, "unauth")
    BY <1>0, <1>2, ServedQuietly DEF Refreshing
  <1> QED BY <1>1, <1>2 DEF ServeCall, RefuseLogin

\* Answered, for calls and log-outs; LoseCall; GiveUp.
LEMMA SettlingHolds ==
  ASSUME SessionInv, NEW r \in Reqs, LoseCall(r) \/ GiveUp(r) \/ (Answered(r) /\ req[r].kind # "login")
  PROVE  SessionInv'
  <1>1. Settle(r) /\ req[r].pc \notin Refreshing /\ UNCHANGED <<server, stale, refreshing, history>>
    BY DEF LoseCall, GiveUp, Answered, At, Refreshing
  <1> QED BY <1>1, SettleHolds

\* Unauthenticated: nothing is stored that could be refreshed.
LEMMA UnauthenticatedHolds ==
  ASSUME SessionInv, NEW r \in Reqs, Unauthenticated(r)
  PROVE  SessionInv'
  <1>1. /\ TypeOK /\ req[r].pc = "unauth" /\ Enter(r, NoReq) /\ Show(req[r].tab, "leaving")
        /\ UNCHANGED <<server, stale, store, refreshing, history>>
    BY DEF Unauthenticated, At, SessionInv
  <1>2. req[r].tab \in Tabs
    BY <1>1 DEF SessionInv, ReqIsSound, AtServer
  <1>3. req' \in [Reqs -> Req] /\ req'[r] = NoReq /\ \A x \in Reqs \ {r} : req'[x] = req[x]
    BY <1>1, Dropped
  <1>4. page' \in [Tabs -> {"login", "app", "leaving"}]
    BY <1>1, <1>2, Shown
  <1>5. ReqIsSound(req[r])' /\ ~Held(req[r])' /\ req'[r].pc = "idle"
    BY <1>3, NoReqIs DEF ReqIsSound, Held, AtServer, Refreshing
  <1> QED BY <1>1, <1>3, <1>4, <1>5, QuietStep DEF Refreshing

\* Return and Expire touch no request.
LEMMA TimeHolds ==
  ASSUME SessionInv, (\E b \in Tabs : Return(b)) \/ Expire
  PROVE  SessionInv'
  <1>1. UNCHANGED <<server, store, refreshing, req, history>> /\ stale' \in {stale, issued}
    BY DEF Return, Expire, browser
  <1>2. page' \in [Tabs -> {"login", "app", "leaving"}]
    BY Shown DEF SessionInv, TypeOK, Return, Expire, browser
  <1>3. ServerKeeps /\ Server!TypeOK' /\ owner' \in [Tokens -> Sessions \cup {NoSession}]
    BY <1>1, SameServer DEF SessionInv, ServerIsSound
  <1>4. TypeOK'
    BY <1>1, <1>2, <1>3 DEF SessionInv, TypeOK, Server!TypeOK, history, server
  <1> QED BY <1>1, <1>3, <1>4, SameRequests DEF history
-----------------------------------------------------------------------------
(* Steps that close a session. *)

\* A session that is closed, or may be already.
LEMMA MaybeClosing ==
  ASSUME SessionInv, NEW s \in Sessions, Server!Close({s}) \/ UNCHANGED <<phase, current, issued>>, UNCHANGED <<owner, store>>
  PROVE  /\ ServerKeeps /\ Server!TypeOK' /\ owner' \in [Tokens -> Sessions \cup {NoSession}]
         /\ Server!Close({s}) \/ phase[s] = "closed" => phase'[s] = "closed"
         /\ issued' = issued
  <1>1. CASE Server!Close({s})
    BY <1>1, Closing DEF SessionInv, ServerKeeps, TypeOK, Server!TypeOK
  <1>2. CASE UNCHANGED <<phase, current, issued>> /\ ~Server!Close({s})
    BY <1>2, SameServer DEF server, SessionInv, ServerIsSound
  <1> QED BY <1>1, <1>2

\* Revoke.
LEMMA RevokeHolds ==
  ASSUME SessionInv, NEW s \in Sessions, Revoke(s)
  PROVE  SessionInv'
  <1>1. Server!Close({s}) /\ UNCHANGED <<owner, stale, store, page, refreshing, req, taker, lost>>
    BY DEF Revoke, browser, history
  <1>2. ServerKeeps /\ Server!TypeOK' /\ owner' \in [Tokens -> Sessions \cup {NoSession}] /\ issued' = issued
    BY <1>1, MaybeClosing
  <1>3. TypeOK'
    BY <1>1, <1>2 DEF SessionInv, TypeOK
  <1> QED BY <1>1, <1>2, <1>3, SameRequests

\* ServeLogout.
LEMMA LogoutHolds ==
  ASSUME SessionInv, NEW r \in Reqs, ServeLogout(r)
  PROVE  SessionInv'
  <1> DEFINE pc == IF Valid(req[r].access) THEN "ok" ELSE "unauth"
  <1>1. /\ TypeOK /\ req[r].pc = "sent" /\ req[r].kind = "logout" /\ Goto(r, pc)
        /\ UNCHANGED <<owner, stale, store, page, refreshing, taker, lost>>
    BY DEF ServeLogout, At, SessionInv, browser, history
  <1>2. \E s \in Sessions \cup {NoSession} :
           (s \in Sessions /\ Server!Close({s})) \/ UNCHANGED <<phase, current, issued>>
    <2>1. IsCurrent(req[r].body) => owner[req[r].body] \in Sessions
      BY DEF IsCurrent, SessionInv, ServerIsSound
    <2> QED BY <2>1 DEF ServeLogout
  <1>3. ServerKeeps /\ Server!TypeOK' /\ owner' \in [Tokens -> Sessions \cup {NoSession}] /\ issued' = issued
    <2>1. CASE UNCHANGED <<phase, current, issued>>
      BY <1>1, <2>1, SameServer DEF server, SessionInv, ServerIsSound
    <2>2. CASE \E s \in Sessions : Server!Close({s})
      BY <1>1, <2>2, MaybeClosing
    <2> QED BY <1>2, <2>1, <2>2
  <1> HIDE DEF pc
  <1>4. pc \in {"ok", "unauth"}
    BY DEF pc
  <1>5. /\ req' \in [Reqs -> Req] /\ \A x \in Reqs \ {r} : req'[x] = req[x]
        /\ req'[r].pc \notin Refreshing /\ ~Held(req[r])' /\ ReqIsSound(req[r])'
        /\ req'[r].pc = "queued" => refreshing[req'[r].tab]
    BY <1>1, <1>4, GoneQuietly
  <1>6. \A x \in Reqs : ReqIsSound(req[x])'
    BY <1>1, <1>3, <1>5, KeptRequest
  <1>7. TypeOK'
    BY <1>1, <1>3, <1>5, <1>6, SlotsHaveTypes DEF TypeOK
  <1> QED BY <1>1, <1>3, <1>5, <1>7, PlainStep DEF Refreshing
-----------------------------------------------------------------------------
(* Refreshes on their way. *)

\* A refresh goes on with its token; without a tab its answer is dropped.
LEMMA RefreshGoesOn ==
  ASSUME SessionInv, NEW r \in Reqs, NEW pc \in {"rotating", "refused"}, Goto(r, pc), req[r].pc \in Refreshing
  PROVE  /\ req' \in [Reqs -> Req] /\ \A x \in Reqs \ {r} : req'[x] = req[x]
         /\ ~Held(req[r])' /\ req'[r].pc # "queued"
         /\ \/ req[r].tab = NoTab /\ pc = "refused" /\ req'[r] = NoReq
            \/ /\ req[r].tab # NoTab \/ pc = "rotating"
               /\ req'[r].pc = pc /\ req'[r].tab = req[r].tab /\ req'[r].token = req[r].token
         /\ req[r].tab # NoTab => req'[r].pc = pc
         /\ pc = "rotating" => req'[r].pc = pc
         /\ req[r].tab # NoTab => req[r].tab \in Tabs
         /\ \A b \in Tabs : Refreshes(b)' = Refreshes(b)
  <1>1. TypeOK /\ pc \in PCs /\ pc \in Refreshing /\ (req[r].tab # NoTab => req[r].tab \in Tabs)
    BY DEF SessionInv, TypeOK, Req, PCs, Refreshing
  <1>2. CASE req[r].tab = NoTab /\ pc = "refused"
    <2>1. req' \in [Reqs -> Req] /\ req'[r] = NoReq /\ \A x \in Reqs \ {r} : req'[x] = req[x]
      BY <1>1, <1>2, GoneNowhere DEF AtServer
    <2>2. \A b \in Tabs : Refreshes(b)' = Refreshes(b)
      BY <2>1, <1>2, NoReqIs, NoneAssumption DEF Refreshes
    <2> QED BY <1>2, <2>1, <2>2, NoReqIs DEF Held
  <1>3. CASE req[r].tab # NoTab \/ pc = "rotating"
    <2>1. /\ req' \in [Reqs -> Req] /\ (\A x \in Reqs \ {r} : req'[x] = req[x])
          /\ req'[r].pc = pc /\ req'[r].tab = req[r].tab /\ req'[r].token = req[r].token
      BY <1>1, <1>3, Gone DEF AtServer
    <2>2. \A x \in Reqs : req'[x].tab = req[x].tab /\ (req'[x].pc \in Refreshing <=> req[x].pc \in Refreshing)
      BY <1>1, <2>1
    <2>3. \A b \in Tabs : Refreshes(b)' = Refreshes(b)
      BY <2>2 DEF Refreshes
    <2> QED BY <1>1, <1>3, <2>1, <2>3 DEF Held
  <1> QED BY <1>2, <1>3

\* A refresh that is refused or lost, for a reason that is known.
LEMMA RefusedStep ==
  ASSUME SessionInv, NEW r \in Reqs, Goto(r, "refused"), req[r].pc \in {"posted", "rotating", "granted"},
         ServerKeeps, Server!TypeOK', owner' \in [Tokens -> Sessions \cup {NoSession}],
         UNCHANGED <<stale, store, page, refreshing, taker>>, lost \subseteq lost', lost' \in SUBSET Tokens,
         NEW t, t = req[r].token,
         req[r].tab # NoTab => Fine(t)' \/ t \in lost' \/ (req[r].pc = "posted" /\ taker[t] # req[r].tab)
  PROVE  SessionInv'
  <1>1. /\ req' \in [Reqs -> Req] /\ \A x \in Reqs \ {r} : req'[x] = req[x]
        /\ ~Held(req[r])' /\ req'[r].pc # "queued"
        /\ \/ req[r].tab = NoTab /\ req'[r] = NoReq
           \/ req[r].tab # NoTab /\ req'[r].pc = "refused" /\ req'[r].tab = req[r].tab /\ req'[r].token = t
        /\ req[r].tab # NoTab => req'[r].pc = "refused" /\ req[r].tab \in Tabs
        /\ \A b \in Tabs : Refreshes(b)' = Refreshes(b)
    BY RefreshGoesOn DEF Refreshing
  <1>2. t \in issued'
    BY DEF SessionInv, ReqIsSound, Refreshing, ServerKeeps
  <1>3. ReqIsSound(req[r])' /\ TraceIsKnown(req[r])'
    <2>1. CASE req[r].tab = NoTab /\ req'[r] = NoReq
      BY <2>1, NoReqIs DEF ReqIsSound, TraceIsKnown, Held, Refreshing
    <2>2. CASE req[r].tab # NoTab /\ req'[r].pc = "refused" /\ req'[r].tab = req[r].tab /\ req'[r].token = t
      <3>1. ReqIsSound(req[r])'
        BY <1>1, <1>2, <2>2 DEF ReqIsSound, Held
      <3>2. Fine(t)' \/ t \in lost' \/ taker'[t] # req'[r].tab
        BY <2>2
      <3>3. TraceIsKnown(req[r])'
        BY <2>2, <3>2 DEF TraceIsKnown, Fine, Ended, IsCurrent
      <3> QED BY <3>1, <3>3
    <2> QED BY <1>1, <2>1, <2>2, NoReqIs
  <1>4. \A x \in Reqs : ReqIsSound(req[x])' /\ TraceIsKnown(req[x])'
    BY <1>1, <1>3, KeptRequest
  <1>5. TypeOK'
    BY <1>1, <1>4, SlotsHaveTypes DEF SessionInv, TypeOK
  <1>6. PairsAreSecret'
    <2>1. \A x \in Reqs : Held(req[x])' => Held(req[x]) /\ req'[x].got = req[x].got
      BY <1>1 DEF Held
    <2>2. \A x \in Reqs : req'[x].pc \in Refreshing => req[x].pc \in Refreshing /\ req'[x].token = req[x].token
      BY <1>1, NoReqIs DEF Refreshing
    <2> QED BY <2>1, <2>2, SecretsKept
  <1>7. OneRefresh'
    <2>1. \A x \in Reqs : req'[x].pc = "queued" => refreshing[req'[x].tab]
      BY <1>1 DEF SessionInv, OneRefresh
    <2> QED BY <1>1, <1>5, <2>1, RefreshesKept
  <1>8. StoredTokenIsLive'
    BY <1>1, StoreKept
  <1> QED BY <1>4, <1>5, <1>6, <1>7, <1>8 DEF SessionInv, ServerKeeps

\* RefuseToken and LoseRefresh.
LEMMA RefusedHolds ==
  ASSUME SessionInv, NEW r \in Reqs, RefuseToken(r) \/ LoseRefresh(r)
  PROVE  SessionInv'
  <1> DEFINE t == req[r].token
  <1>1. /\ Goto(r, "refused") /\ req[r].pc \in {"posted", "granted"}
        /\ UNCHANGED <<server, stale, store, page, refreshing, taker>>
        /\ lost' \in {lost, lost \cup {t}} /\ (req[r].pc = "granted" => t \in lost')
    BY DEF RefuseToken, LoseRefresh, At, browser, history
  <1>2. ServerKeeps /\ Server!TypeOK' /\ owner' \in [Tokens -> Sessions \cup {NoSession}] /\ (Fine(t) => \A u : u = t => Fine(u)')
    BY <1>1, SameServer DEF SessionInv, ServerIsSound
  <1>3. t \in Tokens /\ lost \in SUBSET Tokens
    BY <1>1 DEF SessionInv, ReqIsSound, Refreshing, TypeOK, Server!TypeOK
  <1>4. req[r].pc = "posted" /\ req[r].tab # NoTab => Fine(t) \/ t \in lost \/ taker[t] # req[r].tab
    BY DEF SessionInv, TraceIsKnown
  <1>5. PICK u : u = t
    OBVIOUS
  <1>6. req[r].tab # NoTab => Fine(u)' \/ u \in lost' \/ (req[r].pc = "posted" /\ taker[u] # req[r].tab)
    BY <1>1, <1>2, <1>4, <1>5
  <1>7. u = req[r].token /\ lost \subseteq lost' /\ lost' \in SUBSET Tokens
    BY <1>1, <1>3, <1>5
  <1> HIDE DEF t
  <1> QED BY <1>1, <1>2, <1>6, <1>7, RefusedStep

\* DenyToken: the session is closed, if it was not before.
LEMMA DeniedHolds ==
  ASSUME SessionInv, NEW r \in Reqs, DenyToken(r)
  PROVE  SessionInv'
  <1>1. PICK t, s : t = req[r].token /\ s = owner[t]
    OBVIOUS
  <1>2. /\ req[r].pc = "rotating" /\ Goto(r, "refused")
        /\ UNCHANGED <<owner, stale, store, page, refreshing, taker, lost>>
        /\ IF phase[s] = "closed" THEN UNCHANGED <<phase, current, issued>> ELSE Server!Close({s})
    BY <1>1 DEF DenyToken, At, browser, history
  <1>3. t \in issued /\ s \in Sessions
    BY <1>1, <1>2 DEF SessionInv, ReqIsSound, ServerIsSound, Refreshing
  <1>4. ServerKeeps /\ Server!TypeOK' /\ owner' \in [Tokens -> Sessions \cup {NoSession}] /\ phase'[s] = "closed"
    BY <1>2, <1>3, MaybeClosing
  <1>5. Fine(t)'
    BY <1>1, <1>2, <1>4 DEF Fine, Ended
  <1>6. lost \subseteq lost' /\ lost' \in SUBSET Tokens
    BY <1>2 DEF SessionInv, TypeOK
  <1> QED BY <1>1, <1>2, <1>4, <1>5, <1>6, RefusedStep

\* TakeToken: the only refresh of its tab presents the current token of its session.
LEMMA TakenHolds ==
  ASSUME SessionInv, NEW r \in Reqs, TakeToken(r)
  PROVE  SessionInv'
  <1>1. PICK t, b : t = req[r].token /\ b = req[r].tab
    OBVIOUS
  <1>2. /\ req[r].pc = "posted" /\ IsCurrent(t) /\ Goto(r, "rotating") /\ Server!BeginRotation(owner[t])
        /\ taker' = [taker EXCEPT ![t] = b] /\ UNCHANGED <<owner, stale, store, page, refreshing, lost>>
    BY <1>1 DEF TakeToken, At, browser
  <1>3. /\ t \in issued /\ t \in Tokens /\ b \in Tabs \cup {NoTab}
        /\ taker \in [Tokens -> Tabs \cup {NoTab}]
    BY <1>1, <1>2 DEF SessionInv, ReqIsSound, TypeOK, Server!TypeOK, Refreshing, Req
  <1>4. /\ phase' \in [Sessions -> Server!Phases] /\ current' \in [Sessions -> Tokens \cup {NoToken}]
        /\ issued' = issued /\ ServerIsSound' /\ ~IsCurrent(t)'
        /\ \A u \in issued \ {t} : Fine(u) => Fine(u)'
        /\ \A u \in issued : ~IsCurrent(u) => ~IsCurrent(u)'
    BY <1>2, Taking DEF SessionInv
  <1>5. /\ req' \in [Reqs -> Req] /\ \A x \in Reqs \ {r} : req'[x] = req[x]
        /\ ~Held(req[r])' /\ req'[r].pc = "rotating" /\ req'[r].tab = b /\ req'[r].token = t
        /\ \A c \in Tabs : Refreshes(c)' = Refreshes(c)
    BY <1>1, <1>2, NoReqIs, RefreshGoesOn DEF Refreshing
  <1>6. ASSUME NEW x \in Reqs PROVE ReqIsSound(req[x])'
    <2>1. CASE x = r
      BY <1>3, <1>4, <1>5, <2>1 DEF ReqIsSound, AtServer
    <2>2. CASE x # r
      <3>1. ReqIsSound(req[x]) /\ req'[x] = req[x]
        BY <1>5, <2>2 DEF SessionInv
      <3>2. Held(req[x]) => req[x].got # t
        BY <1>1, <1>2 DEF SessionInv, PairsAreSecret, Refreshing
      <3>3. \A u : u = req[x].got /\ Held(req[x]) => Fine(u)'
        BY <1>4, <3>1, <3>2 DEF ReqIsSound
      <3> QED BY <1>4, <3>1, <3>3 DEF ReqIsSound, Held
    <2> QED BY <2>1, <2>2
  <1>7. ASSUME NEW x \in Reqs PROVE TraceIsKnown(req[x])'
    <2>1. taker'[t] = b
      BY <1>2, <1>3
    <2>2. CASE x = r
      <3>1. b = NoTab => t \in lost
        BY <1>1, <1>2 DEF SessionInv, TraceIsKnown
      <3>2. ~IsCurrent(req[r].token)'
        BY <1>4, <1>5 DEF IsCurrent
      <3> QED BY <1>2, <1>5, <2>1, <2>2, <3>1, <3>2 DEF TraceIsKnown
    <2>3. CASE x # r /\ req[x].pc \in Refreshing
      <3>1. PICK u : u = req[x].token
        OBVIOUS
      <3>2. TraceIsKnown(req[x]) /\ req'[x] = req[x] /\ u \in issued /\ u \in Tokens
        BY <1>5, <2>3, <3>1 DEF SessionInv, ReqIsSound, TypeOK, Server!TypeOK
      <3>3. req[x].pc \in {"rotating", "granted"} => ~IsCurrent(u)' /\ u # t
        BY <1>2, <1>4, <3>1, <3>2 DEF TraceIsKnown
      <3>4. req[x].tab # NoTab => req[x].tab # b
        BY <1>1, <1>2, <2>3 DEF SessionInv, OneRefresh, Refreshing
      <3>5. u # t => (Fine(u) => Fine(u)') /\ taker'[u] = taker[u]
        BY <1>2, <1>3, <1>4, <3>2
      <3>6. req[x].pc \in {"posted", "refused"} /\ req[x].tab # NoTab => Fine(u)' \/ u \in lost \/ taker'[u] # req[x].tab
        BY <2>1, <3>1, <3>2, <3>4, <3>5 DEF TraceIsKnown
      <3>7. req[x].pc \in {"rotating", "granted"} /\ req[x].tab # NoTab => taker'[u] = req[x].tab
        BY <3>1, <3>2, <3>3, <3>5 DEF TraceIsKnown
      <3>8. req[x].pc \in {"posted", "rotating"} /\ req[x].tab = NoTab => u \in lost
        BY <3>1, <3>2 DEF TraceIsKnown
      <3>9. req'[x].token = u /\ req'[x].pc = req[x].pc /\ req'[x].tab = req[x].tab /\ lost' = lost
        BY <1>2, <3>1, <3>2
      <3> QED BY <3>3, <3>6, <3>7, <3>8, <3>9 DEF TraceIsKnown, Fine, IsCurrent, Ended
    <2>4. CASE x # r /\ req[x].pc \notin Refreshing
      BY <1>5, <2>4 DEF TraceIsKnown, Refreshing
    <2> QED BY <2>2, <2>3, <2>4
  <1>8. TypeOK'
    <2>1. taker' \in [Tokens -> Tabs \cup {NoTab}]
      BY <1>2, <1>3
    <2>2. Server!TypeOK'
      BY <1>4 DEF SessionInv, TypeOK, Server!TypeOK
    <2> QED BY <1>2, <1>5, <1>6, <2>1, <2>2, SlotsHaveTypes DEF SessionInv, TypeOK
  <1>9. PairsAreSecret'
    <2>1. \A x \in Reqs : Held(req[x])' => Held(req[x]) /\ req'[x].got = req[x].got
      BY <1>5 DEF Held
    <2>2. \A x \in Reqs : req'[x].pc \in Refreshing => req[x].pc \in Refreshing /\ req'[x].token = req[x].token
      BY <1>1, <1>2, <1>5 DEF Refreshing
    <2> QED BY <1>2, <2>1, <2>2, SecretsKept
  <1>10. OneRefresh'
    <2>1. \A x \in Reqs : req'[x].pc = "queued" => refreshing[req'[x].tab]
      BY <1>5 DEF SessionInv, OneRefresh
    <2> QED BY <1>2, <1>5, <1>8, <2>1, RefreshesKept
  <1>11. StoredTokenIsLive'
    <2> SUFFICES ASSUME NEW u, u = store, u # NoToken
                 PROVE  \/ Fine(u)' \/ u \in lost'
                        \/ \E x \in Reqs : req'[x].tab # NoTab /\ req'[x].token = u /\ req'[x].pc \in {"rotating", "granted"}
      BY <1>2 DEF StoredTokenIsLive, Fine
    <2>1. CASE u = t
      <3>1. CASE b = NoTab
        BY <1>1, <1>2, <2>1, <3>1 DEF SessionInv, TraceIsKnown
      <3>2. CASE b # NoTab
        BY <1>5, <2>1, <3>2
      <3> QED BY <3>1, <3>2
    <2>2. CASE u # t
      <3>1. u \in issued
        BY DEF SessionInv, ServerIsSound
      <3>2. Fine(u) => Fine(u)'
        BY <1>4, <2>2, <3>1
      <3>3. \A x \in Reqs : req[x].pc \in {"rotating", "granted"} => req'[x] = req[x]
        BY <1>2, <1>5
      <3> QED BY <1>2, <3>2, <3>3 DEF SessionInv, StoredTokenIsLive, Fine
    <2> QED BY <2>1, <2>2
  <1> QED BY <1>4, <1>6, <1>7, <1>8, <1>9, <1>10, <1>11 DEF SessionInv

\* A pair nobody has had before is on its way.
LEMMA SecretsFresh ==
  ASSUME SessionInv, NEW r \in Reqs, NEW f \in Tokens, f \notin issued, store' = store,
         \A x \in Reqs \ {r} : req'[x] = req[x], req'[r].got = f,
         req'[r].pc \in Refreshing => req[r].pc \in Refreshing /\ req'[r].token = req[r].token
  PROVE  PairsAreSecret'
  <1>1. store # f /\ \A x \in Reqs : /\ req[x].pc \in Refreshing => req[x].token # f
                                     /\ Held(req[x]) => req[x].got # f
    BY NoneAssumption DEF SessionInv, ServerIsSound, ReqIsSound
  <1>2. \A x \in Reqs : req'[x].pc \in Refreshing => req[x].pc \in Refreshing /\ req'[x].token = req[x].token
    OBVIOUS
  <1>3. \A x \in Reqs \ {r} : Held(req[x])' => Held(req[x]) /\ req'[x].got = req[x].got
    BY DEF Held
  <1> QED BY <1>1, <1>2, <1>3 DEF SessionInv, PairsAreSecret

\* GiveToken: the rotation ends with a new pair, of the same session.
LEMMA GivenHolds ==
  ASSUME SessionInv, NEW r \in Reqs, GiveToken(r)
  PROVE  SessionInv'
  <1>1. PICK t, s, f : t = req[r].token /\ s = owner[t] /\ f = Fresh
    OBVIOUS
  <1> DEFINE k == [req[r] EXCEPT !.pc = "granted", !.got = f]
  <1>2. /\ req[r].pc = "rotating" /\ issued # Tokens /\ phase[s] = "rotating" /\ Server!Hand(s, f)
        /\ owner' = [owner EXCEPT ![f] = s] /\ Enter(r, IF req[r].tab = NoTab THEN NoReq ELSE k)
        /\ UNCHANGED <<stale, store, page, refreshing, taker, lost>>
    BY <1>1 DEF GiveToken, At, browser, history, Server!FinishRotation
  <1>3. /\ t \in issued /\ s \in Sessions /\ req[r] \in Req /\ TypeOK
        /\ (req[r].tab # NoTab => req[r].tab \in Tabs)
    BY <1>1, <1>2 DEF SessionInv, ReqIsSound, ServerIsSound, TypeOK, Refreshing, Req
  <1>4. /\ phase' \in [Sessions -> Server!Phases] /\ current' \in [Sessions -> Tokens \cup {NoToken}]
        /\ owner' \in [Tokens -> Sessions \cup {NoSession}]
        /\ f \in Tokens /\ f \notin issued /\ issued' = issued \cup {f} /\ Fine(f)' /\ ServerKeeps
    BY <1>1, <1>2, <1>3, Handing DEF SessionInv, ServerKeeps
  <1>5. k \in Req /\ k.pc = "granted" /\ k.tab = req[r].tab /\ k.token = t /\ k.got = f
    BY <1>1, <1>3, <1>4 DEF Req, PCs
  <1> HIDE DEF k
  <1>6. /\ req' \in [Reqs -> Req] /\ \A x \in Reqs \ {r} : req'[x] = req[x]
        /\ \/ req[r].tab = NoTab /\ req'[r] = NoReq
           \/ req[r].tab # NoTab /\ req'[r] = k
    BY <1>2, <1>3, <1>5, NoReqIs, Entered
  <1>7. ReqIsSound(req[r])'
    <2>1. CASE req'[r] = NoReq
      BY <2>1, NoReqIs DEF ReqIsSound, Refreshing, Held
    <2>2. CASE req[r].tab # NoTab /\ req'[r] = k
      <3>1. Fine(req[r].got)'
        BY <1>4, <1>5, <2>2 DEF Fine, IsCurrent, Ended
      <3> QED BY <1>3, <1>4, <1>5, <2>2, <3>1 DEF ReqIsSound
    <2> QED BY <1>6, <2>1, <2>2
  <1>8. TraceIsKnown(req[r])'
    <2>1. CASE req'[r] = NoReq
      BY <2>1, NoReqIs DEF TraceIsKnown
    <2>2. CASE req[r].tab # NoTab /\ req'[r] = k
      <3>1. ~IsCurrent(t) /\ taker[t] = req[r].tab
        BY <1>1, <1>2, <2>2 DEF SessionInv, TraceIsKnown
      <3>2. ~IsCurrent(t)'
        BY <1>3, <1>4, <3>1 DEF ServerKeeps
      <3> QED BY <1>2, <1>5, <2>2, <3>1, <3>2 DEF TraceIsKnown, IsCurrent
    <2> QED BY <1>6, <2>1, <2>2
  <1>9. \A x \in Reqs : ReqIsSound(req[x])' /\ TraceIsKnown(req[x])'
    BY <1>2, <1>4, <1>6, <1>7, <1>8, KeptRequest
  <1>10. TypeOK'
    <2>1. Server!TypeOK'
      BY <1>3, <1>4 DEF TypeOK, Server!TypeOK
    <2> QED BY <1>2, <1>3, <1>4, <1>6, <1>9, <2>1, SlotsHaveTypes DEF TypeOK
  <1>11. PairsAreSecret'
    <2>1. CASE req'[r] = NoReq
      <3>1. \A x \in Reqs : Held(req[x])' => Held(req[x]) /\ req'[x].got = req[x].got
        BY <1>6, <2>1, NoReqIs DEF Held
      <3>2. \A x \in Reqs : req'[x].pc \in Refreshing => req[x].pc \in Refreshing /\ req'[x].token = req[x].token
        BY <1>6, <2>1, NoReqIs DEF Refreshing
      <3> QED BY <1>2, <3>1, <3>2, SecretsKept
    <2>2. CASE req'[r] = k
      BY <1>1, <1>2, <1>4, <1>5, <1>6, <2>2, SecretsFresh DEF Refreshing
    <2> QED BY <1>6, <2>1, <2>2
  <1>12. OneRefresh'
    <2>1. \A x \in Reqs : req'[x].pc = "queued" => refreshing[req'[x].tab]
      BY <1>5, <1>6, NoReqIs DEF SessionInv, OneRefresh
    <2>2. \A b \in Tabs, x \in Reqs :
            req'[x].tab = b /\ req'[x].pc \in Refreshing <=> req[x].tab = b /\ req[x].pc \in Refreshing
      BY <1>2, <1>5, <1>6, NoReqIs, NoneAssumption DEF Refreshing
    <2>3. \A b \in Tabs : Refreshes(b)' = Refreshes(b)
      BY <2>2 DEF Refreshes
    <2> QED BY <1>2, <1>10, <2>1, <2>3, RefreshesKept
  <1>13. StoredTokenIsLive'
    BY <1>1, <1>2, <1>4, <1>5, <1>6, StoreKept
  <1> QED BY <1>4, <1>9, <1>10, <1>11, <1>12, <1>13 DEF SessionInv, ServerKeeps
-----------------------------------------------------------------------------
(* Logging in. *)

\* Tokens are left when a session may be opened.
LEMMA TokensAreLeft ==
  ASSUME TypeOK, NEW r \in Reqs, Supply
  PROVE  issued # Tokens
  <1>1. IsFiniteSet(Reqs) /\ IsFiniteSet(Tokens) /\ Reqs # {}
    BY SupplyAssumption
  <1>2. Cardinality(Reqs) \in Nat /\ Cardinality(Tokens) \in Nat
    BY <1>1, FS_CardinalityType
  <1>3. Cardinality(Reqs) # 0
    BY <1>1, FS_EmptySet
  <1> QED BY <1>2, <1>3 DEF Supply

\* ServeLogin: a session is opened with a new pair.
LEMMA LoginHolds ==
  ASSUME SessionInv, NEW r \in Reqs, ServeLogin(r)
  PROVE  SessionInv'
  <1>1. PICK s, f : s = (CHOOSE x \in Sessions : phase[x] = "unopened") /\ f = Fresh
    OBVIOUS
  <1> DEFINE k == [req[r] EXCEPT !.pc = "ok", !.access = NoToken, !.got = f]
  <1>2. /\ req[r].pc = "sent" /\ req[r].kind = "login" /\ CanOpen /\ phase[s] = "unopened" /\ Server!Hand(s, f)
        /\ owner' = [owner EXCEPT ![f] = s] /\ Enter(r, IF req[r].tab = NoTab THEN NoReq ELSE k)
        /\ UNCHANGED <<stale, store, page, refreshing, taker, lost>>
    BY <1>1 DEF ServeLogin, At, browser, history, Server!Open
  <1>3. /\ s \in Sessions /\ issued # Tokens /\ req[r] \in Req /\ TypeOK
        /\ (req[r].tab # NoTab => req[r].tab \in Tabs)
    BY <1>1, <1>2, TokensAreLeft DEF CanOpen, SessionInv, TypeOK, Req
  <1>4. /\ phase' \in [Sessions -> Server!Phases] /\ current' \in [Sessions -> Tokens \cup {NoToken}]
        /\ owner' \in [Tokens -> Sessions \cup {NoSession}]
        /\ f \in Tokens /\ f \notin issued /\ issued' = issued \cup {f} /\ Fine(f)' /\ ServerKeeps
    BY <1>1, <1>2, <1>3, Handing DEF SessionInv, ServerKeeps
  <1>5. k \in Req /\ k.pc = "ok" /\ k.tab = req[r].tab /\ k.got = f
    BY <1>1, <1>3, <1>4 DEF Req, PCs
  <1> HIDE DEF k
  <1>6. /\ req' \in [Reqs -> Req] /\ \A x \in Reqs \ {r} : req'[x] = req[x]
        /\ \/ req[r].tab = NoTab /\ req'[r] = NoReq
           \/ req[r].tab # NoTab /\ req'[r] = k
    BY <1>2, <1>3, <1>5, NoReqIs, Entered
  <1>7. req'[r].pc \notin Refreshing /\ req'[r].pc # "queued" /\ req[r].pc \notin Refreshing
    BY <1>2, <1>5, <1>6, NoReqIs DEF Refreshing
  <1>8. ReqIsSound(req[r])' /\ TraceIsKnown(req[r])'
    <2>1. CASE req'[r] = NoReq
      BY <2>1, NoReqIs DEF ReqIsSound, TraceIsKnown, Refreshing, Held
    <2>2. CASE req[r].tab # NoTab /\ req'[r] = k
      <3>1. Fine(req[r].got)'
        BY <1>4, <1>5, <2>2 DEF Fine, IsCurrent, Ended
      <3>2. ReqIsSound(req[r])'
        BY <1>3, <1>4, <1>5, <1>7, <2>2, <3>1 DEF ReqIsSound
      <3> QED BY <1>5, <2>2, <3>2 DEF TraceIsKnown
    <2> QED BY <1>6, <2>1, <2>2
  <1>9. \A x \in Reqs : ReqIsSound(req[x])' /\ TraceIsKnown(req[x])'
    BY <1>2, <1>4, <1>6, <1>8, KeptRequest
  <1>10. TypeOK'
    <2>1. Server!TypeOK'
      BY <1>3, <1>4 DEF TypeOK, Server!TypeOK
    <2> QED BY <1>2, <1>3, <1>4, <1>6, <1>9, <2>1, SlotsHaveTypes DEF TypeOK
  <1>11. PairsAreSecret'
    <2>1. CASE req'[r] = NoReq
      <3>1. \A x \in Reqs : Held(req[x])' => Held(req[x]) /\ req'[x].got = req[x].got
        BY <1>6, <2>1, NoReqIs DEF Held
      <3>2. \A x \in Reqs : req'[x].pc \in Refreshing => req[x].pc \in Refreshing /\ req'[x].token = req[x].token
        BY <1>6, <1>7
      <3> QED BY <1>2, <3>1, <3>2, SecretsKept
    <2>2. CASE req'[r] = k
      BY <1>2, <1>4, <1>5, <1>6, <1>7, <2>2, SecretsFresh
    <2> QED BY <1>6, <2>1, <2>2
  <1>12. OneRefresh'
    <2>1. \A x \in Reqs : req'[x].pc = "queued" => refreshing[req'[x].tab]
      BY <1>6, <1>7 DEF SessionInv, OneRefresh
    <2>2. \A b \in Tabs, x \in Reqs :
            req'[x].tab = b /\ req'[x].pc \in Refreshing <=> req[x].tab = b /\ req[x].pc \in Refreshing
      BY <1>6, <1>7
    <2>3. \A b \in Tabs : Refreshes(b)' = Refreshes(b)
      BY <2>2 DEF Refreshes
    <2> QED BY <1>2, <1>10, <2>1, <2>3, RefreshesKept
  <1>13. StoredTokenIsLive'
    BY <1>2, <1>4, <1>6, StoreKept
  <1> QED BY <1>4, <1>9, <1>10, <1>11, <1>12, <1>13 DEF SessionInv, ServerKeeps

\* Answered, for a log-in: the pair gets from the answer into localStorage.
LEMMA LoggedInHolds ==
  ASSUME SessionInv, NEW r \in Reqs, Answered(r), req[r].kind = "login"
  PROVE  SessionInv'
  <1>1. PICK f : f = req[r].got
    OBVIOUS
  <1>2. /\ req[r].pc = "ok" /\ store' = f /\ Show(req[r].tab, "app") /\ Enter(r, NoReq)
        /\ UNCHANGED <<server, stale, refreshing, taker, lost>>
    BY <1>1 DEF Answered, At, history
  <1>3. TypeOK /\ Held(req[r]) /\ f \in issued /\ f \in Tokens /\ Fine(f) /\ req[r].tab \in Tabs
    BY <1>1, <1>2 DEF SessionInv, ReqIsSound, Held, TypeOK, Server!TypeOK, AtServer
  <1>4. ServerKeeps /\ Server!TypeOK' /\ owner' \in [Tokens -> Sessions \cup {NoSession}] /\ Fine(f)'
    BY <1>2, <1>3, SameServer
  <1>5. req' \in [Reqs -> Req] /\ req'[r] = NoReq /\ \A x \in Reqs \ {r} : req'[x] = req[x]
    BY <1>2, <1>3, Dropped
  <1>6. page' \in [Tabs -> {"login", "app", "leaving"}]
    BY <1>2, <1>3, Shown
  <1>7. ReqIsSound(req[r])' /\ TraceIsKnown(req[r])'
    BY <1>5, NoReqIs DEF ReqIsSound, TraceIsKnown, Refreshing, Held
  <1>8. \A x \in Reqs : ReqIsSound(req[x])' /\ TraceIsKnown(req[x])'
    BY <1>2, <1>4, <1>5, <1>7, KeptRequest
  <1>9. TypeOK'
    BY <1>2, <1>3, <1>4, <1>5, <1>6, <1>8, SlotsHaveTypes DEF TypeOK
  <1>10. PairsAreSecret'
    <2>1. ASSUME NEW x \in Reqs, Held(req[x])' PROVE x # r /\ Held(req[x]) /\ req'[x] = req[x] /\ req[x].got # f
      BY <1>1, <1>3, <1>5, <2>1, NoReqIs DEF SessionInv, PairsAreSecret, Held
    <2>2. \A x \in Reqs : req'[x].pc \in Refreshing => req[x].pc \in Refreshing /\ req'[x].token = req[x].token
      BY <1>5, NoReqIs DEF Refreshing
    <2> QED BY <1>2, <2>1, <2>2 DEF SessionInv, PairsAreSecret
  <1>11. OneRefresh'
    <2>1. \A x \in Reqs : req'[x].pc = "queued" => refreshing[req'[x].tab]
      BY <1>5, NoReqIs DEF SessionInv, OneRefresh
    <2>2. \A b \in Tabs, x \in Reqs :
            req'[x].tab = b /\ req'[x].pc \in Refreshing <=> req[x].tab = b /\ req[x].pc \in Refreshing
      BY <1>2, <1>5, NoReqIs DEF Refreshing
    <2>3. \A b \in Tabs : Refreshes(b)' = Refreshes(b)
      BY <2>2 DEF Refreshes
    <2> QED BY <1>2, <1>9, <2>1, <2>3, RefreshesKept
  <1>12. StoredTokenIsLive'
    BY <1>2, <1>4 DEF StoredTokenIsLive, Fine, IsCurrent, Ended
  <1> QED BY <1>4, <1>8, <1>9, <1>10, <1>11, <1>12 DEF SessionInv, ServerKeeps
-----------------------------------------------------------------------------
(* Refreshes that begin and end. *)

\* Unauthorized: the first 401 of a tab posts a refresh, the others queue up.
LEMMA UnauthorizedHolds ==
  ASSUME SessionInv, NEW r \in Reqs, Unauthorized(r)
  PROVE  SessionInv'
  <1>1. PICK t, b : t = store /\ b = req[r].tab
    OBVIOUS
  <1> DEFINE k == [req[r] EXCEPT !.pc = "posted", !.token = t, !.retried = TRUE]
  <1>2. /\ req[r].pc = "unauth" /\ t # NoToken /\ UNCHANGED <<server, stale, store, page, taker, lost>>
        /\ TypeOK /\ req[r] \in Req /\ b \in Tabs /\ b # NoTab
    BY <1>1, NoneAssumption DEF Unauthorized, At, history, SessionInv, ReqIsSound, AtServer, TypeOK
  <1>3. CASE refreshing[b]
    <2>1. Goto(r, "queued") /\ refreshing' = refreshing
      BY <1>1, <1>3 DEF Unauthorized
    <2> QED BY <1>1, <1>2, <1>3, <2>1, ServedQuietly DEF Refreshing, browser, history
  <1>4. CASE ~refreshing[b]
    <2>1. Enter(r, k) /\ refreshing' = [refreshing EXCEPT ![b] = TRUE]
      BY <1>1, <1>4 DEF Unauthorized
    <2>2. t \in issued /\ t \in Tokens
      BY <1>1, <1>2 DEF SessionInv, ServerIsSound, TypeOK
    <2>3. k \in Req /\ k.pc = "posted" /\ k.tab = b /\ k.token = t
      BY <1>1, <1>2, <2>2 DEF Req, PCs
    <2> HIDE DEF k
    <2>4. req' \in [Reqs -> Req] /\ req'[r] = k /\ \A x \in Reqs \ {r} : req'[x] = req[x]
      BY <1>2, <2>1, <2>3, Entered
    <2>5. ServerKeeps /\ Server!TypeOK' /\ owner' \in [Tokens -> Sessions \cup {NoSession}] /\ (Fine(t) => Fine(t)')
      BY <1>1, <1>2, <2>2, SameServer
    <2>6. \A x \in Reqs : req[x].pc \in Refreshing => req[x].tab # b
      BY <1>2, <1>4 DEF SessionInv, OneRefresh
    <2>7. Fine(t)' \/ t \in lost \/ taker[t] # b
      <3>1. CASE Fine(t) \/ t \in lost
        BY <2>5, <3>1
      <3>2. CASE \E x \in Reqs : req[x].tab # NoTab /\ req[x].token = t /\ req[x].pc \in {"rotating", "granted"}
        BY <2>6, <3>2 DEF SessionInv, TraceIsKnown, Refreshing
      <3> QED BY <1>1, <1>2, <3>1, <3>2 DEF SessionInv, StoredTokenIsLive, Fine
    <2>8. ReqIsSound(req[r])' /\ TraceIsKnown(req[r])'
      <3>1. ReqIsSound(req[r])'
        BY <1>2, <2>2, <2>3, <2>4, <2>5 DEF ReqIsSound, Held, ServerKeeps
      <3> QED BY <1>2, <2>3, <2>4, <2>7, <3>1 DEF TraceIsKnown, Fine, IsCurrent, Ended
    <2>9. \A x \in Reqs : ReqIsSound(req[x])' /\ TraceIsKnown(req[x])'
      BY <1>2, <2>4, <2>5, <2>8, KeptRequest
    <2>10. TypeOK'
      BY <1>2, <2>1, <2>4, <2>5, <2>9, SlotsHaveTypes DEF TypeOK
    <2>11. PairsAreSecret'
      <3>1. \A x \in Reqs : Held(req[x])' => Held(req[x]) /\ req'[x].got = req[x].got
        BY <2>3, <2>4 DEF Held
      <3>2. \A x \in Reqs : req'[x].pc \in Refreshing =>
              (req[x].pc \in Refreshing /\ req'[x].token = req[x].token) \/ req'[x].token = store
        BY <1>1, <2>3, <2>4
      <3> QED BY <1>2, <3>1, <3>2, SecretsKept
    <2>12. OneRefresh'
      <3>1. refreshing'[b] /\ \A c \in Tabs \ {b} : refreshing'[c] = refreshing[c]
        BY <1>2, <2>1 DEF TypeOK
      <3>2. \A x \in Reqs : req'[x].pc \in Refreshing \cup {"queued"} /\ x # r =>
              req[x].pc = req'[x].pc /\ req[x].tab = req'[x].tab
        BY <2>4
      <3>3. \A x \in Reqs \ {r} : req'[x].tab \in Tabs \cup {NoTab}
        BY <2>4 DEF Req
      <3>4. req'[r].pc \in Refreshing /\ req'[r].tab = b /\ req'[r].pc # "queued"
        BY <2>3, <2>4 DEF Refreshing
      <3>5. \A x \in Reqs : req'[x].pc \in Refreshing /\ req'[x].tab # NoTab => refreshing'[req'[x].tab]
        BY <1>2, <3>1, <3>2, <3>3, <3>4 DEF SessionInv, OneRefresh
      <3>6. \A x, y \in Reqs : req'[x].pc \in Refreshing /\ req'[y].pc \in Refreshing
                               /\ req'[x].tab = req'[y].tab /\ req'[x].tab # NoTab => x = y
        BY <2>6, <3>2, <3>4 DEF SessionInv, OneRefresh
      <3>7. \A c \in Tabs : refreshing'[c] => \E x \in Reqs : req'[x].pc \in Refreshing /\ req'[x].tab = c
        <4>1. \A c \in Tabs \ {b} : refreshing[c] => \E x \in Reqs \ {r} : req[x].pc \in Refreshing /\ req[x].tab = c
          BY <1>1 DEF SessionInv, OneRefresh
        <4> QED BY <2>4, <3>1, <3>4, <4>1
      <3>8. \A x \in Reqs : req'[x].pc = "queued" => refreshing'[req'[x].tab]
        <4>1. \A x \in Reqs : req[x].pc = "queued" => refreshing[req[x].tab] /\ req[x].tab \in Tabs
          BY DEF SessionInv, OneRefresh, ReqIsSound, AtServer
        <4> QED BY <2>4, <3>1, <3>4, <4>1
      <3> QED BY <3>5, <3>6, <3>7, <3>8 DEF OneRefresh
    <2>13. StoredTokenIsLive'
      BY <1>2, <2>4, <2>5, StoreKept
    <2> QED BY <2>5, <2>9, <2>10, <2>11, <2>12, <2>13 DEF SessionInv, ServerKeeps
  <1> QED BY <1>3, <1>4

\* isRefreshing of a tab is cleared when none of its requests refreshes or waits any more.
LEMMA FlagCleared ==
  ASSUME SessionInv, NEW b \in Tabs, refreshing' = [refreshing EXCEPT ![b] = FALSE],
         \A x \in Reqs : req[x].tab \in Tabs \ {b} => req'[x] = req[x],
         \A x \in Reqs : req'[x].pc \in Refreshing /\ req'[x].tab # NoTab =>
           req'[x].tab \in Tabs \ {b} /\ req'[x] = req[x],
         \A x \in Reqs : req'[x].pc = "queued" => req'[x].tab \in Tabs \ {b} /\ req'[x] = req[x]
  PROVE  OneRefresh'
  <1>1. ~refreshing'[b] /\ \A c \in Tabs \ {b} : refreshing'[c] = refreshing[c]
    BY DEF SessionInv, TypeOK
  <1>2. \A x \in Reqs : req'[x].pc \in Refreshing /\ req'[x].tab # NoTab => refreshing'[req'[x].tab]
    BY <1>1, NoneAssumption DEF SessionInv, OneRefresh
  <1>3. \A x, y \in Reqs : req'[x].pc \in Refreshing /\ req'[y].pc \in Refreshing
                           /\ req'[x].tab = req'[y].tab /\ req'[x].tab # NoTab => x = y
    BY DEF SessionInv, OneRefresh
  <1>4. ASSUME NEW c \in Tabs, refreshing'[c] PROVE \E x \in Reqs : req'[x].pc \in Refreshing /\ req'[x].tab = c
    <2>1. c # b /\ refreshing[c]
      BY <1>1, <1>4
    <2>2. PICK x \in Reqs : req[x].pc \in Refreshing /\ req[x].tab = c
      BY <2>1 DEF SessionInv, OneRefresh
    <2> QED BY <2>1, <2>2
  <1>5. \A x \in Reqs : req'[x].pc = "queued" => refreshing'[req'[x].tab]
    BY <1>1 DEF SessionInv, OneRefresh
  <1> QED BY <1>2, <1>3, <1>4, <1>5 DEF OneRefresh

\* RefreshDone: the pair is stored, and whoever waited for it is sent once more.
LEMMA DoneHolds ==
  ASSUME SessionInv, NEW r \in Reqs, RefreshDone(r)
  PROVE  SessionInv'
  <1>1. PICK f, b : f = req[r].got /\ b = req[r].tab
    OBVIOUS
  <1> DEFINE Again(q) == [q EXCEPT !.pc = "sent", !.access = f, !.token = NoToken, !.got = NoToken]
  <1>2. /\ req[r].pc = "granted" /\ store' = f /\ refreshing' = [refreshing EXCEPT ![b] = FALSE]
        /\ req' = [x \in Reqs |-> IF x = r \/ x \in Waiting(b) THEN Again(req[x]) ELSE req[x]]
        /\ UNCHANGED <<server, stale, page, taker, lost>>
    BY <1>1 DEF RefreshDone, At, history
  <1>3. /\ TypeOK /\ Held(req[r]) /\ f \in issued /\ f \in Tokens /\ Fine(f) /\ b \in Tabs /\ b # NoTab
    BY <1>1, <1>2, NoneAssumption DEF SessionInv, ReqIsSound, Held, TypeOK, Server!TypeOK, AtServer
  <1>4. ServerKeeps /\ Server!TypeOK' /\ owner' \in [Tokens -> Sessions \cup {NoSession}] /\ Fine(f)'
    BY <1>2, <1>3, SameServer
  <1>5. \A x \in Reqs : Again(req[x]) \in Req /\ Again(req[x]).pc = "sent"
    <2> SUFFICES ASSUME NEW q \in Req PROVE Again(q) \in Req /\ Again(q).pc = "sent"
      BY <1>3 DEF TypeOK
    <2> QED BY <1>3 DEF Req, PCs
  <1> HIDE DEF Again
  <1>6. \A x \in Reqs : /\ x = r \/ x \in Waiting(b) => req'[x] = Again(req[x])
                        /\ ~(x = r \/ x \in Waiting(b)) => req'[x] = req[x]
    BY <1>2
  <1>7. req' \in [Reqs -> Req]
    BY <1>2, <1>3, <1>5 DEF TypeOK
  <1>8. ASSUME NEW x \in Reqs PROVE ReqIsSound(req[x])' /\ TraceIsKnown(req[x])'
    <2>1. CASE req'[x] = req[x]
      BY <1>2, <1>4, <2>1, KeptRequest
    <2>2. CASE req'[x].pc = "sent"
      BY <2>2 DEF ReqIsSound, TraceIsKnown, Refreshing, Held, AtServer
    <2> QED BY <1>5, <1>6, <2>1, <2>2
  <1>9. TypeOK'
    <2>1. refreshing' \in [Tabs -> BOOLEAN]
      BY <1>2, <1>3 DEF TypeOK
    <2> QED BY <1>2, <1>3, <1>4, <1>7, <1>8, <2>1, SlotsHaveTypes DEF TypeOK
  <1>10. \A x \in Reqs : req'[x].pc # "sent" => req'[x] = req[x] /\ x # r /\ x \notin Waiting(b)
    BY <1>5, <1>6
  <1>11. PairsAreSecret'
    <2>1. ASSUME NEW x \in Reqs, Held(req[x])' PROVE x # r /\ Held(req[x]) /\ req'[x] = req[x] /\ req[x].got # f
      BY <1>1, <1>3, <1>10, <2>1 DEF SessionInv, PairsAreSecret, Held
    <2>2. \A x \in Reqs : req'[x].pc \in Refreshing => req[x].pc \in Refreshing /\ req'[x].token = req[x].token
      BY <1>10 DEF Refreshing
    <2> QED BY <1>2, <2>1, <2>2 DEF SessionInv, PairsAreSecret
  <1>12. OneRefresh'
    <2>1. \A x \in Reqs : req[x].tab \in Tabs \ {b} => req'[x] = req[x]
      BY <1>1, <1>6 DEF Waiting
    <2>2. ASSUME NEW x \in Reqs, req'[x].pc \in Refreshing, req'[x].tab # NoTab
          PROVE  req'[x].tab \in Tabs \ {b} /\ req'[x] = req[x]
      <3>1. req'[x] = req[x] /\ x # r
        BY <1>10, <2>2 DEF Refreshing
      <3>2. req[x].tab # b
        BY <1>1, <1>2, <1>3, <2>2, <3>1 DEF SessionInv, OneRefresh, Refreshing
      <3> QED BY <1>7, <2>2, <3>1, <3>2 DEF Req
    <2>3. ASSUME NEW x \in Reqs, req'[x].pc = "queued" PROVE req'[x].tab \in Tabs \ {b} /\ req'[x] = req[x]
      <3>1. req'[x] = req[x] /\ x \notin Waiting(b)
        BY <1>10, <2>3
      <3>2. req[x].tab \in Tabs
        BY <2>3, <3>1 DEF SessionInv, ReqIsSound, AtServer
      <3> QED BY <2>3, <3>1, <3>2 DEF Waiting, At
    <2> QED BY <1>2, <1>3, <2>1, <2>2, <2>3, FlagCleared
  <1>13. StoredTokenIsLive'
    BY <1>2, <1>4 DEF StoredTokenIsLive, Fine, IsCurrent, Ended
  <1> QED BY <1>4, <1>8, <1>9, <1>11, <1>12, <1>13 DEF SessionInv, ServerKeeps

\* RefreshFailed: the store is cleared, and whoever waited is rejected.
LEMMA FailedHolds ==
  ASSUME SessionInv, NEW r \in Reqs, RefreshFailed(r)
  PROVE  SessionInv'
  <1>1. PICK b : b = req[r].tab
    OBVIOUS
  <1>2. /\ req[r].pc = "refused" /\ store' = NoToken /\ refreshing' = [refreshing EXCEPT ![b] = FALSE]
        /\ Show(b, "leaving")
        /\ req' = [x \in Reqs |-> IF x = r \/ x \in Waiting(b) THEN NoReq ELSE req[x]]
        /\ UNCHANGED <<server, stale, taker, lost>>
    BY <1>1 DEF RefreshFailed, At, history
  <1>3. TypeOK /\ b \in Tabs /\ b # NoTab
    BY <1>1, <1>2, NoneAssumption DEF SessionInv, ReqIsSound, AtServer
  <1>4. ServerKeeps /\ Server!TypeOK' /\ owner' \in [Tokens -> Sessions \cup {NoSession}]
    BY <1>2, <1>3, SameServer
  <1>5. \A x \in Reqs : /\ x = r \/ x \in Waiting(b) => req'[x] = NoReq
                        /\ ~(x = r \/ x \in Waiting(b)) => req'[x] = req[x]
    BY <1>2
  <1>6. req' \in [Reqs -> Req]
    BY <1>2, <1>3, NoReqIs DEF TypeOK
  <1>7. ASSUME NEW x \in Reqs PROVE ReqIsSound(req[x])' /\ TraceIsKnown(req[x])'
    <2>1. CASE req'[x] = req[x]
      BY <1>2, <1>4, <2>1, KeptRequest
    <2>2. CASE req'[x] = NoReq
      BY <2>2, NoReqIs DEF ReqIsSound, TraceIsKnown, Refreshing, Held
    <2> QED BY <1>5, <2>1, <2>2
  <1>8. TypeOK'
    <2>1. refreshing' \in [Tabs -> BOOLEAN]
      BY <1>2, <1>3 DEF TypeOK
    <2>2. page' \in [Tabs -> {"login", "app", "leaving"}]
      BY <1>2, <1>3, Shown
    <2> QED BY <1>2, <1>3, <1>4, <1>6, <1>7, <2>1, <2>2, SlotsHaveTypes DEF TypeOK
  <1>9. \A x \in Reqs : req'[x].pc # "idle" => req'[x] = req[x] /\ x # r /\ x \notin Waiting(b)
    BY <1>5, NoReqIs
  <1>10. PairsAreSecret'
    <2>1. \A x \in Reqs : Held(req[x])' => Held(req[x]) /\ req'[x].got = req[x].got
      BY <1>9 DEF Held
    <2>2. \A x \in Reqs : req'[x].pc \in Refreshing => req[x].pc \in Refreshing /\ req'[x].token = req[x].token
      BY <1>9 DEF Refreshing
    <2> QED BY <1>2, <2>1, <2>2, SecretsKept
  <1>11. OneRefresh'
    <2>1. \A x \in Reqs : req[x].tab \in Tabs \ {b} => req'[x] = req[x]
      BY <1>1, <1>5 DEF Waiting
    <2>2. ASSUME NEW x \in Reqs, req'[x].pc \in Refreshing, req'[x].tab # NoTab
          PROVE  req'[x].tab \in Tabs \ {b} /\ req'[x] = req[x]
      <3>1. req'[x] = req[x] /\ x # r
        BY <1>9, <2>2 DEF Refreshing
      <3>2. req[x].tab # b
        BY <1>1, <1>2, <1>3, <2>2, <3>1 DEF SessionInv, OneRefresh, Refreshing
      <3> QED BY <1>6, <2>2, <3>1, <3>2 DEF Req
    <2>3. ASSUME NEW x \in Reqs, req'[x].pc = "queued" PROVE req'[x].tab \in Tabs \ {b} /\ req'[x] = req[x]
      <3>1. req'[x] = req[x] /\ x \notin Waiting(b)
        BY <1>9, <2>3
      <3>2. req[x].tab \in Tabs
        BY <2>3, <3>1 DEF SessionInv, ReqIsSound, AtServer
      <3> QED BY <2>3, <3>1, <3>2 DEF Waiting, At
    <2> QED BY <1>2, <1>3, <2>1, <2>2, <2>3, FlagCleared
  <1>12. StoredTokenIsLive'
    BY <1>2 DEF StoredTokenIsLive
  <1> QED BY <1>4, <1>7, <1>8, <1>10, <1>11, <1>12 DEF SessionInv, ServerKeeps

\* Unload and Reload: what a tab has under way it forgets; the server goes on with some of it.
LEMMA UnloadHolds ==
  ASSUME SessionInv, NEW b \in Tabs, Unload(b) \/ Reload(b)
  PROVE  SessionInv'
  <1>1. /\ refreshing' = [refreshing EXCEPT ![b] = FALSE]
        /\ req' = [r \in Reqs |-> IF req[r].tab # b THEN req[r]
                                  ELSE IF Matters(req[r]) THEN [req[r] EXCEPT !.tab = NoTab] ELSE NoReq]
        /\ lost' = lost \cup {req[r].token : r \in {x \in Reqs : req[x].tab = b /\ req[x].pc \in Refreshing}}
        /\ UNCHANGED <<server, stale, store, taker>>
    BY DEF Unload, Reload, Unloaded
  <1>2. TypeOK /\ b # NoTab /\ page' \in [Tabs -> {"login", "app", "leaving"}]
    <2>1. page' \in [Tabs -> {"login", "app", "leaving"}]
      BY Shown DEF SessionInv, TypeOK, Unload, Reload, Show
    <2> QED BY <2>1, NoneAssumption DEF SessionInv
  <1>3. ServerKeeps /\ Server!TypeOK' /\ owner' \in [Tokens -> Sessions \cup {NoSession}]
    BY <1>1, SameServer DEF SessionInv, ServerIsSound
  <1>4. ASSUME NEW x \in Reqs
        PROVE  /\ req'[x] \in Req
               /\ \/ req[x].tab # b /\ req'[x] = req[x]
                  \/ req[x].tab = b /\ req'[x] = NoReq
                  \/ /\ req[x].tab = b /\ req'[x].tab = NoTab /\ req[x].pc \in AtServer
                     /\ req'[x].pc = req[x].pc /\ req'[x].kind = req[x].kind /\ req'[x].token = req[x].token
    <2>1. req[x] \in Req
      BY <1>2 DEF TypeOK
    <2> DEFINE k == [req[x] EXCEPT !.tab = NoTab]
    <2>2. k \in Req /\ k.tab = NoTab /\ k.pc = req[x].pc /\ k.kind = req[x].kind /\ k.token = req[x].token
      BY <2>1 DEF Req
    <2>3. req'[x] = IF req[x].tab # b THEN req[x] ELSE IF Matters(req[x]) THEN k ELSE NoReq
      BY <1>1
    <2> HIDE DEF k
    <2> QED BY <2>1, <2>2, <2>3, NoReqIs DEF Matters
  <1>5. lost \subseteq lost' /\ lost' \in SUBSET Tokens
    <2>1. \A x \in Reqs : req[x].pc \in Refreshing => req[x].token \in Tokens
      BY DEF SessionInv, ReqIsSound, TypeOK, Server!TypeOK
    <2> QED BY <1>1, <2>1 DEF SessionInv, TypeOK
  <1>6. \A x \in Reqs : req[x].tab = b /\ req[x].pc \in Refreshing => req[x].token \in lost'
    BY <1>1
  <1>7. ASSUME NEW x \in Reqs PROVE ReqIsSound(req[x])' /\ TraceIsKnown(req[x])'
    <2>1. CASE req'[x] = req[x]
      BY <1>1, <1>3, <1>5, <2>1, KeptRequest
    <2>2. CASE req'[x] = NoReq
      BY <2>2, NoReqIs DEF ReqIsSound, TraceIsKnown, Refreshing, Held
    <2>3. CASE /\ req[x].tab = b /\ req'[x].tab = NoTab /\ req[x].pc \in AtServer
               /\ req'[x].pc = req[x].pc /\ req'[x].kind = req[x].kind /\ req'[x].token = req[x].token
      <3>1. PICK u : u = req[x].token
        OBVIOUS
      <3>2. req[x].pc \in Refreshing => u \in issued /\ u \in issued'
        BY <1>3, <3>1 DEF SessionInv, ReqIsSound, ServerKeeps
      <3>3. ReqIsSound(req[x])'
        BY <2>3, <3>1, <3>2 DEF ReqIsSound, Held, AtServer
      <3>4. req[x].pc \in Refreshing => u \in lost'
        BY <1>6, <2>3, <3>1
      <3>5. req[x].pc \in {"rotating", "granted"} => ~IsCurrent(u)'
        BY <1>3, <3>1, <3>2 DEF SessionInv, TraceIsKnown, ServerKeeps, Refreshing
      <3>6. TraceIsKnown(req[x])'
        BY <2>3, <3>1, <3>4, <3>5 DEF TraceIsKnown, Refreshing, IsCurrent
      <3> QED BY <3>3, <3>6
    <2> QED BY <1>4, <2>1, <2>2, <2>3
  <1>8. req' \in [Reqs -> Req]
    BY <1>1, <1>4
  <1>9. TypeOK'
    <2>1. refreshing' \in [Tabs -> BOOLEAN]
      BY <1>1, <1>2 DEF TypeOK
    <2> QED BY <1>1, <1>2, <1>3, <1>5, <1>7, <1>8, <2>1, SlotsHaveTypes DEF TypeOK
  <1>10. PairsAreSecret'
    <2>1. \A x \in Reqs : Held(req[x])' => Held(req[x]) /\ req'[x].got = req[x].got
      BY <1>4, NoReqIs DEF Held, AtServer
    <2>2. \A x \in Reqs : req'[x].pc \in Refreshing => req[x].pc \in Refreshing /\ req'[x].token = req[x].token
      BY <1>4, NoReqIs DEF Refreshing
    <2> QED BY <1>1, <2>1, <2>2, SecretsKept
  <1>11. OneRefresh'
    <2>1. \A x \in Reqs : req[x].tab \in Tabs \ {b} => req'[x] = req[x]
      BY <1>4
    <2>2. \A x \in Reqs : req'[x].pc \in Refreshing /\ req'[x].tab # NoTab =>
            req'[x].tab \in Tabs \ {b} /\ req'[x] = req[x]
      BY <1>4, NoReqIs DEF Req
    <2>3. \A x \in Reqs : req'[x].pc = "queued" => req'[x].tab \in Tabs \ {b} /\ req'[x] = req[x]
      BY <1>4, NoReqIs DEF SessionInv, ReqIsSound, AtServer
    <2> QED BY <1>1, <2>1, <2>2, <2>3, FlagCleared
  <1>12. StoredTokenIsLive'
    <2>1. \A x \in Reqs : req[x].pc \in {"rotating", "granted"} /\ req[x].tab # NoTab =>
            req'[x] = req[x] \/ req[x].token \in lost'
      BY <1>4, <1>6 DEF Refreshing
    <2> QED BY <1>1, <1>3, <1>5, <2>1, StoreKept
  <1> QED BY <1>3, <1>7, <1>9, <1>10, <1>11, <1>12 DEF SessionInv, ServerKeeps
-----------------------------------------------------------------------------
(* The invariant. *)

\* Nobody has logged in and nothing is under way.
LEMMA InitHolds == Init => SessionInv
  <1> SUFFICES ASSUME Init PROVE SessionInv
    OBVIOUS
  <1>1. \A r \in Reqs : req[r] = NoReq
    BY DEF Init
  <1>2. \A r \in Reqs : ReqIsSound(req[r]) /\ TraceIsKnown(req[r]) /\ req[r].pc \notin Refreshing /\ ~Held(req[r])
    BY <1>1, NoReqIs DEF ReqIsSound, TraceIsKnown, Refreshing, Held
  <1>3. TypeOK
    <2>1. Server!TypeOK
      BY DEF Init, Server!Init, Server!TypeOK, Server!Phases
    <2> QED BY <1>2, <2>1, NoReqIs DEF Init, TypeOK
  <1>4. ServerIsSound
    BY NoneAssumption DEF Init, Server!Init, ServerIsSound
  <1>5. PairsAreSecret /\ OneRefresh /\ StoredTokenIsLive
    BY <1>1, <1>2, NoReqIs DEF Init, PairsAreSecret, OneRefresh, StoredTokenIsLive
  <1> QED BY <1>2, <1>3, <1>4, <1>5 DEF SessionInv

\* Every step of a tab, the server, the network or the clock keeps it.
LEMMA StepHolds == SessionInv /\ [Next]_vars => SessionInv'
  <1> SUFFICES ASSUME SessionInv, [Next]_vars PROVE SessionInv'
    OBVIOUS
  <1>1. CASE \E r \in Reqs, b \in Tabs : User(r, b)
    BY <1>1, UserHolds
  <1>2. ASSUME NEW r \in Reqs, Serve(r) PROVE SessionInv'
    BY <1>2, RefusalsHold, LogoutHolds, LoginHolds, TakenHolds, RefusedHolds, GivenHolds, DeniedHolds DEF Serve
  <1>3. ASSUME NEW r \in Reqs, Script(r) PROVE SessionInv'
    BY <1>3, SettlingHolds, LoggedInHolds, UnauthorizedHolds, UnauthenticatedHolds, DoneHolds, FailedHolds DEF Script
  <1>4. ASSUME NEW r \in Reqs, Lose(r) PROVE SessionInv'
    BY <1>4, SettlingHolds, RefusedHolds DEF Lose
  <1>5. CASE \E b \in Tabs : Return(b) \/ Unload(b) \/ Reload(b)
    BY <1>5, TimeHolds, UnloadHolds
  <1>6. CASE Expire
    BY <1>6, TimeHolds
  <1>7. CASE \E s \in Sessions : Revoke(s)
    BY <1>7, RevokeHolds
  <1>8. CASE UNCHANGED vars
    <2>1. UNCHANGED <<server, stale, store, page, refreshing, req, taker, lost>>
      BY <1>8 DEF vars, browser, history
    <2>2. ServerKeeps /\ Server!TypeOK'
      BY <2>1, SameServer DEF SessionInv, ServerIsSound
    <2>3. TypeOK'
      BY <2>1, <2>2 DEF SessionInv, TypeOK, server
    <2> QED BY <2>1, <2>2, <2>3, SameRequests
  <1> QED BY <1>1, <1>2, <1>3, <1>4, <1>5, <1>6, <1>7, <1>8 DEF Next

\* What the theorems below rest on.
THEOREM InvariantHolds == Spec => []SessionInv
  BY InitHolds, StepHolds, PTL DEF Spec

\* The state of server, tabs and requests keeps its types, and every refresh presents a token
\* that was issued.
THEOREM TypesHold == Spec => []TypeOK
  <1>1. SessionInv => TypeOK
    BY DEF SessionInv
  <1> QED BY <1>1, InvariantHolds, PTL

\* api/http.ts, isRefreshing and queue: a tab refreshes once at a time, and nobody waits
\* for a refresh that is not under way.
THEOREM OneRefreshAtATime == Spec => []RefreshesAreExclusive
  <1>1. SessionInv => RefreshesAreExclusive
    <2> SUFFICES ASSUME SessionInv, NEW b \in Tabs
                 PROVE  /\ Cardinality(Refreshes(b)) = IF refreshing[b] THEN 1 ELSE 0
                        /\ Waiting(b) # {} => refreshing[b]
      BY DEF RefreshesAreExclusive
    <2>1. refreshing[b] \in BOOLEAN /\ b # NoTab
      BY NoneAssumption DEF SessionInv, TypeOK
    <2>2. CASE refreshing[b]
      <3>1. PICK r \in Reqs : req[r].pc \in Refreshing /\ req[r].tab = b
        BY <2>2 DEF SessionInv, OneRefresh
      <3>2. Refreshes(b) = {r}
        BY <2>1, <3>1 DEF SessionInv, OneRefresh, Refreshes
      <3>3. Cardinality(Refreshes(b)) = 1
        BY <3>2, FS_Singleton
      <3> QED BY <2>2, <3>3
    <2>3. CASE ~refreshing[b]
      <3>1. Refreshes(b) = {} /\ Waiting(b) = {}
        BY <2>1, <2>3 DEF SessionInv, OneRefresh, Refreshes, Waiting, At
      <3>2. Cardinality(Refreshes(b)) = 0
        BY <3>1, FS_EmptySet
      <3> QED BY <2>3, <3>1, <3>2
    <2> QED BY <2>1, <2>2, <2>3
  <1> QED BY <1>1, InvariantHolds, PTL

\* utils/storage.ts: what is stored can be used, or it is known why not.
THEOREM StoreIsExplained == Spec => []StoredTokenIsLive
  <1>1. SessionInv => StoredTokenIsLive
    BY DEF SessionInv
  <1> QED BY <1>1, InvariantHolds, PTL

\* The interceptor's purpose: the requests of a tab do not throw each other out.
THEOREM TabsDoNotBeatThemselves == Spec => []ATabNeverBeatsItself
  <1>1. SessionInv => ATabNeverBeatsItself
    BY DEF SessionInv, TraceIsKnown, ATabNeverBeatsItself, At, Fine
  <1> QED BY <1>1, InvariantHolds, PTL
-----------------------------------------------------------------------------
(* The server's tokens: which moves the server makes, and who used what. *)

\* A token that was handed out is still good for a refresh, its session is over, or a tab or
\* a page that is gone has used it.
Traced(t) == Fine(t) \/ taker[t] # NoTab \/ t \in lost

\* A step of the server is one of its register or none, and nothing known of a token is lost.
ServerMoves ==
  /\ [Server!Next]_(Server!vars)
  /\ issued \subseteq issued'
  /\ \A t \in issued : (Traced(t) => Traced(t)') /\ (~IsCurrent(t) => ~IsCurrent(t)')
  /\ \A t \in issued' \ issued : Fine(t)'

\* The server rests.
LEMMA Resting ==
  ASSUME SessionInv, UNCHANGED <<server, taker>>, lost \subseteq lost'
  PROVE  ServerMoves
  BY DEF ServerMoves, server, Server!vars, Traced, Fine, Ended, IsCurrent

\* A session is closed.
LEMMA ClosingMoves ==
  ASSUME SessionInv, NEW s \in Sessions, Server!Close({s}), UNCHANGED <<owner, store, taker, lost>>
  PROVE  ServerMoves /\ issued' = issued /\ \A t : owner[t] = s => ~IsCurrent(t)'
  <1>1. /\ issued' = issued /\ ServerIsSound' /\ phase'[s] = "closed"
        /\ \A t \in issued : (Fine(t) => Fine(t)') /\ (~IsCurrent(t) => ~IsCurrent(t)')
    BY Closing DEF SessionInv
  <1>2. Server!Next
    <2>1. {s} \in SUBSET Sessions
      OBVIOUS
    <2> QED BY <2>1 DEF Server!Next
  <1>3. \A t : owner[t] = s => ~IsCurrent(t)'
    BY <1>1 DEF ServerIsSound, IsCurrent
  <1> QED BY <1>1, <1>2, <1>3 DEF ServerMoves, Traced

\* A new token is handed to a session.
LEMMA HandingMoves ==
  ASSUME SessionInv, NEW s \in Sessions, issued # Tokens, NEW f, f = Fresh,
         Server!Open(s, f) \/ Server!FinishRotation(s, f),
         owner' = [owner EXCEPT ![f] = s], UNCHANGED <<store, taker, lost>>
  PROVE  ServerMoves
  <1>1. Server!Hand(s, f) /\ phase[s] \in {"unopened", "rotating"}
    BY DEF Server!Open, Server!FinishRotation
  <1>2. /\ f \in Tokens /\ issued' = issued \cup {f} /\ Fine(f)'
        /\ \A t \in issued : (Fine(t) => Fine(t)') /\ (~IsCurrent(t) => ~IsCurrent(t)')
    BY <1>1, Handing DEF SessionInv
  <1>3. Server!Next
    BY <1>2 DEF Server!Next
  <1> QED BY <1>2, <1>3 DEF ServerMoves, Traced

\* TakeToken: who uses the token is written down, unless its page is gone.
LEMMA TakingMoves ==
  ASSUME SessionInv, NEW r \in Reqs, TakeToken(r)
  PROVE  ServerMoves
  <1>1. PICK t, b : t = req[r].token /\ b = req[r].tab
    OBVIOUS
  <1>2. /\ req[r].pc = "posted" /\ IsCurrent(t) /\ Server!BeginRotation(owner[t])
        /\ taker' = [taker EXCEPT ![t] = b] /\ UNCHANGED <<owner, store, lost>>
    BY <1>1 DEF TakeToken, At, browser
  <1>3. t \in Tokens /\ owner[t] \in Sessions /\ issued \subseteq Tokens /\ taker \in [Tokens -> Tabs \cup {NoTab}]
    BY <1>1, <1>2 DEF SessionInv, ReqIsSound, ServerIsSound, TypeOK, Server!TypeOK, Refreshing
  <1>4. /\ issued' = issued
        /\ \A u \in issued \ {t} : Fine(u) => Fine(u)'
        /\ \A u \in issued : ~IsCurrent(u) => ~IsCurrent(u)'
    BY <1>2, Taking DEF SessionInv
  <1>5. Server!Next
    BY <1>2, <1>3 DEF Server!Next
  <1>6. b # NoTab \/ t \in lost
    BY <1>1, <1>2 DEF SessionInv, TraceIsKnown
  <1>7. Traced(t)'
    BY <1>2, <1>3, <1>6 DEF Traced
  <1>8. ASSUME NEW u \in issued \ {t} PROVE Traced(u) => Traced(u)'
    BY <1>2, <1>3, <1>4, <1>8 DEF Traced
  <1> QED BY <1>4, <1>5, <1>7, <1>8 DEF ServerMoves

\* Whoever moves, the server only does what its register allows.
LEMMA EveryMove == SessionInv /\ [Next]_vars => ServerMoves
  <1> SUFFICES ASSUME SessionInv, [Next]_vars PROVE ServerMoves
    OBVIOUS
  <1>1. ASSUME NEW r \in Reqs, NEW b \in Tabs, User(r, b) PROVE ServerMoves
    BY <1>1, Resting DEF User, Call, Login, Logout, history
  <1>2. ASSUME NEW r \in Reqs, Serve(r) PROVE ServerMoves
    <2>1. CASE ServeCall(r) \/ RefuseLogin(r) \/ RefuseToken(r)
      BY <2>1, Resting DEF ServeCall, RefuseLogin, RefuseToken, history
    <2>2. CASE ServeLogout(r)
      <3>1. IsCurrent(req[r].body) => owner[req[r].body] \in Sessions
        BY DEF IsCurrent, SessionInv, ServerIsSound
      <3> QED BY <2>2, <3>1, ClosingMoves, Resting DEF ServeLogout, server, browser, history
    <2>3. CASE ServeLogin(r)
      <3>1. PICK s : s = CHOOSE x \in Sessions : phase[x] = "unopened"
        OBVIOUS
      <3>2. s \in Sessions /\ issued # Tokens
        BY <2>3, <3>1, TokensAreLeft DEF ServeLogin, CanOpen, SessionInv
      <3> QED BY <2>3, <3>1, <3>2, HandingMoves DEF ServeLogin, browser, history
    <2>4. CASE TakeToken(r)
      BY <2>4, TakingMoves
    <2>5. CASE GiveToken(r) \/ DenyToken(r)
      <3>1. owner[req[r].token] \in Sessions
        BY <2>5 DEF GiveToken, DenyToken, At, SessionInv, ReqIsSound, ServerIsSound, Refreshing
      <3>2. CASE GiveToken(r)
        BY <3>1, <3>2, HandingMoves DEF GiveToken, browser, history
      <3>3. CASE DenyToken(r)
        BY <3>1, <3>3, ClosingMoves, Resting DEF DenyToken, server, browser, history
      <3> QED BY <2>5, <3>2, <3>3
    <2> QED BY <1>2, <2>1, <2>2, <2>3, <2>4, <2>5 DEF Serve
  <1>3. ASSUME NEW r \in Reqs, Script(r) PROVE ServerMoves
    BY <1>3, Resting DEF Script, Answered, Unauthorized, Unauthenticated, GiveUp, RefreshDone, RefreshFailed, history
  <1>4. ASSUME NEW r \in Reqs, Lose(r) PROVE ServerMoves
    BY <1>4, Resting DEF Lose, LoseCall, LoseRefresh, history
  <1>5. ASSUME NEW b \in Tabs, Return(b) \/ Unload(b) \/ Reload(b) PROVE ServerMoves
    BY <1>5, Resting DEF Return, Unload, Reload, Unloaded, history
  <1>6. CASE Expire
    BY <1>6, Resting DEF Expire, history
  <1>7. ASSUME NEW s \in Sessions, Revoke(s) PROVE ServerMoves
    BY <1>7, ClosingMoves DEF Revoke, browser, history
  <1>8. CASE UNCHANGED vars
    BY <1>8, Resting DEF vars, history
  <1> QED BY <1>1, <1>2, <1>3, <1>4, <1>5, <1>6, <1>7, <1>8 DEF Next

\* The server admin web talks to is the register that the token store of the API implements:
\* no interleaving of tabs, mishaps and administrators makes it do anything else.
THEOREM ServerIsARegister == Spec => Server!Spec
  <1>1. Init => Server!Init
    BY DEF Init
  <1>2. SessionInv /\ [Next]_vars => [Server!Next]_(Server!vars)
    BY EveryMove DEF ServerMoves
  <1> QED BY <1>1, <1>2, InvariantHolds, PTL DEF Spec, Server!Spec
-----------------------------------------------------------------------------
(* Logout. *)

\* The token a logout names was handed out, and when the server has done its part it can be
\* used no longer.
LogoutIsSound(q) ==
  q.kind = "logout" => q.body \in issued /\ (q.pc = "ok" => ~IsCurrent(q.body))

LogoutInv ==
  /\ \A t \in issued : Traced(t)
  /\ \A r \in Reqs : LogoutIsSound(req[r])

\* The token can be used after the step.
WillBeCurrent(t) == t # NoToken /\ \E s \in Sessions : current'[s] = t

\* What a slot holds after a step it held before, or it is a logout that just begins, or one
\* that the server has just answered.
Follows(p, q) ==
  q.kind = "logout" =>
    \/ q.pc # "ok" /\ q.body = store /\ store # NoToken
    \/ p.kind = "logout" /\ q.body = p.body /\ (q.pc = "ok" => p.pc = "ok" \/ ~WillBeCurrent(p.body))

\* A request that goes on is the request it was.
LEMMA GoneFollows ==
  ASSUME SessionInv, NEW r \in Reqs, NEW pc \in PCs, Goto(r, pc), pc # "ok" \/ ~WillBeCurrent(req[r].body)
  PROVE  \A x \in Reqs : Follows(req[x], req'[x])
  <1>1. TypeOK
    BY DEF SessionInv
  <1>2. CASE req[r].tab # NoTab \/ pc \in AtServer
    <2>1. /\ \A x \in Reqs \ {r} : req'[x] = req[x]
          /\ req'[r].pc = pc /\ req'[r].kind = req[r].kind /\ req'[r].body = req[r].body
      BY <1>1, <1>2, Gone
    <2> QED BY <2>1 DEF Follows
  <1>3. CASE req[r].tab = NoTab /\ pc \notin AtServer
    <2>1. (\A x \in Reqs \ {r} : req'[x] = req[x]) /\ req'[r] = NoReq
      BY <1>1, <1>3, GoneNowhere
    <2> QED BY <2>1, NoReqIs DEF Follows
  <1> QED BY <1>2, <1>3

\* A slot that is emptied, or takes what is no logout or the logout it had.
LEMMA EnteredFollows ==
  ASSUME SessionInv, NEW r \in Reqs, NEW q, Enter(r, q), Follows(req[r], q)
  PROVE  \A x \in Reqs : Follows(req[x], req'[x])
  <1>1. req' = [req EXCEPT ![r] = q] /\ req \in [Reqs -> Req]
    BY DEF Enter, SessionInv, TypeOK
  <1>2. \A x \in Reqs \ {r} : Follows(req[x], req'[x])
    BY <1>1 DEF Follows
  <1> QED BY <1>1, <1>2

\* No step lets a logout name another token than the one stored when it began, and none lets it
\* be answered while that token can be used.
LEMMA LogoutsFollow ==
  ASSUME SessionInv, [Next]_vars
  PROVE  \A x \in Reqs : Follows(req[x], req'[x])
  <1>1. UNCHANGED req => \A x \in Reqs : Follows(req[x], req'[x])
    BY DEF Follows
  <1>2. ASSUME NEW r \in Reqs, Enter(r, NoReq) PROVE \A x \in Reqs : Follows(req[x], req'[x])
    BY <1>2, NoReqIs, EnteredFollows DEF Follows
  <1>3. \A r \in Reqs : req[r] \in Req
    BY DEF SessionInv, TypeOK
  <1>4. ASSUME NEW r \in Reqs, NEW b \in Tabs, User(r, b) PROVE \A x \in Reqs : Follows(req[x], req'[x])
    <2>1. CASE Call(r, b) \/ Login(r, b)
      <3>1. PICK k \in {"call", "login"} : Enter(r, Sent(b, k))
        BY <2>1 DEF Call, Login
      <3>2. Sent(b, k).kind = k
        BY DEF Sent, NoReq
      <3> QED BY <3>1, <3>2, EnteredFollows DEF Follows
    <2>2. CASE Logout(r, b)
      <3>1. CASE store = NoToken
        BY <1>1, <2>2, <3>1 DEF Logout
      <3>2. CASE store # NoToken
        <4> DEFINE q == [Sent(b, "logout") EXCEPT !.body = store]
        <4>1. Enter(r, q)
          BY <2>2, <3>2 DEF Logout
        <4>2. q.body = store /\ q.pc = "sent"
          BY DEF Sent, NoReq
        <4> HIDE DEF q
        <4> QED BY <3>2, <4>1, <4>2, EnteredFollows DEF Follows
      <3> QED BY <3>1, <3>2
    <2> QED BY <1>4, <2>1, <2>2 DEF User
  <1>5. ASSUME NEW r \in Reqs, Serve(r) PROVE \A x \in Reqs : Follows(req[x], req'[x])
    <2>1. CASE ServeCall(r) \/ RefuseLogin(r) \/ RefuseToken(r) \/ TakeToken(r) \/ DenyToken(r)
      <3>1. Enter(r, NoReq) \/ \E pc \in PCs \ {"ok"} : Goto(r, pc)
        BY <2>1 DEF ServeCall, RefuseLogin, RefuseToken, TakeToken, DenyToken, PCs
      <3> QED BY <1>2, <3>1, GoneFollows
    <2>2. CASE ServeLogout(r)
      <3>1. CASE Valid(req[r].access)
        <4>1. Goto(r, "ok") /\ "ok" \in PCs
          BY <2>2, <3>1 DEF ServeLogout, PCs
        <4>2. ~WillBeCurrent(req[r].body)
          <5>1. CASE IsCurrent(req[r].body)
            <6>1. PICK t, s : t = req[r].body /\ s = owner[t]
              OBVIOUS
            <6>2. s \in Sessions
              BY <5>1, <6>1 DEF IsCurrent, SessionInv, ServerIsSound
            <6>3. Server!Close({s}) /\ UNCHANGED <<owner, store, taker, lost>>
              BY <2>2, <3>1, <5>1, <6>1 DEF ServeLogout, browser, history
            <6>4. ~WillBeCurrent(t)
              BY <6>1, <6>2, <6>3, ClosingMoves DEF IsCurrent, WillBeCurrent
            <6> QED BY <6>1, <6>4
          <5>2. CASE ~IsCurrent(req[r].body)
            BY <2>2, <5>2 DEF ServeLogout, IsCurrent, WillBeCurrent
          <5> QED BY <5>1, <5>2
        <4> QED BY <4>1, <4>2, GoneFollows
      <3>2. CASE ~Valid(req[r].access)
        <4>1. Goto(r, "unauth") /\ "unauth" \in PCs
          BY <2>2, <3>2 DEF ServeLogout, PCs
        <4> QED BY <4>1, GoneFollows
      <3> QED BY <3>1, <3>2
    <2>3. CASE ServeLogin(r)
      <3> DEFINE k == [req[r] EXCEPT !.pc = "ok", !.access = NoToken, !.got = Fresh]
      <3>1. req[r].kind = "login" /\ (Enter(r, NoReq) \/ Enter(r, k))
        BY <2>3 DEF ServeLogin
      <3>2. k.kind = "login"
        BY <1>3, <3>1 DEF Req
      <3> HIDE DEF k
      <3> QED BY <1>2, <3>1, <3>2, EnteredFollows DEF Follows
    <2>4. CASE GiveToken(r)
      <3> DEFINE k == [req[r] EXCEPT !.pc = "granted", !.got = Fresh]
      <3>1. Enter(r, NoReq) \/ Enter(r, k)
        BY <2>4 DEF GiveToken
      <3>2. k.kind = req[r].kind /\ k.body = req[r].body /\ k.pc = "granted"
        BY <1>3 DEF Req
      <3> HIDE DEF k
      <3> QED BY <1>2, <3>1, <3>2, EnteredFollows DEF Follows
    <2> QED BY <1>5, <2>1, <2>2, <2>3, <2>4 DEF Serve
  <1>6. ASSUME NEW r \in Reqs, Script(r) PROVE \A x \in Reqs : Follows(req[x], req'[x])
    <2>1. CASE Answered(r) \/ Unauthenticated(r) \/ GiveUp(r)
      BY <1>2, <2>1 DEF Answered, Unauthenticated, GiveUp, Settle
    <2>2. CASE Unauthorized(r)
      <3> DEFINE k == [req[r] EXCEPT !.pc = "posted", !.token = store, !.retried = TRUE]
      <3>1. Goto(r, "queued") \/ Enter(r, k)
        BY <2>2 DEF Unauthorized
      <3>2. k.kind = req[r].kind /\ k.body = req[r].body /\ k.pc = "posted" /\ "queued" \in PCs
        BY <1>3 DEF Req, PCs
      <3> HIDE DEF k
      <3> QED BY <3>1, <3>2, GoneFollows, EnteredFollows DEF Follows
    <2>3. CASE RefreshDone(r)
      <3> DEFINE Again(q) == [q EXCEPT !.pc = "sent", !.access = req[r].got, !.token = NoToken, !.got = NoToken]
      <3>1. \A x \in Reqs : req'[x] = Again(req[x]) \/ req'[x] = req[x]
        BY <2>3 DEF RefreshDone
      <3>2. \A x \in Reqs : /\ Again(req[x]).kind = req[x].kind /\ Again(req[x]).body = req[x].body
                            /\ Again(req[x]).pc = "sent"
        BY <1>3 DEF Req
      <3> HIDE DEF Again
      <3> QED BY <3>1, <3>2 DEF Follows
    <2>4. CASE RefreshFailed(r)
      <3>1. \A x \in Reqs : req'[x] = NoReq \/ req'[x] = req[x]
        BY <2>4 DEF RefreshFailed
      <3> QED BY <3>1, NoReqIs DEF Follows
    <2> QED BY <1>6, <2>1, <2>2, <2>3, <2>4 DEF Script
  <1>7. ASSUME NEW r \in Reqs, Lose(r) PROVE \A x \in Reqs : Follows(req[x], req'[x])
    <2>1. Enter(r, NoReq) \/ (Goto(r, "refused") /\ "refused" \in PCs)
      BY <1>7 DEF Lose, LoseCall, LoseRefresh, Settle, PCs
    <2> QED BY <1>2, <2>1, GoneFollows
  <1>8. ASSUME NEW b \in Tabs, Unload(b) \/ Reload(b) PROVE \A x \in Reqs : Follows(req[x], req'[x])
    <2> DEFINE Left(q) == [q EXCEPT !.tab = NoTab]
    <2>1. \A x \in Reqs : req'[x] \in {req[x], Left(req[x]), NoReq}
      BY <1>8 DEF Unload, Reload, Unloaded
    <2>2. \A x \in Reqs : /\ Left(req[x]).kind = req[x].kind /\ Left(req[x]).body = req[x].body
                          /\ Left(req[x]).pc = req[x].pc
      BY <1>3 DEF Req
    <2> HIDE DEF Left
    <2> QED BY <2>1, <2>2, NoReqIs DEF Follows
  <1>9. (\E b \in Tabs : Return(b)) \/ Expire \/ (\E s \in Sessions : Revoke(s)) \/ UNCHANGED vars => UNCHANGED req
    BY DEF Return, Expire, Revoke, vars
  <1> QED BY <1>1, <1>4, <1>5, <1>6, <1>7, <1>8, <1>9 DEF Next

\* MainLayout's handleLogout and AuthService.logout: once the server has answered, the refresh
\* token that was named is useless, and its session is over unless somebody had refreshed with it.
THEOREM LogoutRevokes == Spec => []LogoutRevokesToken
  <1>1. Init => LogoutInv
    BY NoReqIs DEF Init, Server!Init, LogoutInv, LogoutIsSound
  <1>2. SessionInv /\ LogoutInv /\ [Next]_vars => LogoutInv'
    <2> SUFFICES ASSUME SessionInv, LogoutInv, [Next]_vars PROVE LogoutInv'
      OBVIOUS
    <2>1. ServerMoves /\ \A x \in Reqs : Follows(req[x], req'[x])
      BY EveryMove, LogoutsFollow
    <2>2. \A t \in issued' : Traced(t)'
      BY <2>1 DEF ServerMoves, LogoutInv, Traced
    <2>3. ASSUME NEW x \in Reqs PROVE LogoutIsSound(req[x])'
      <3> SUFFICES ASSUME req'[x].kind = "logout"
                   PROVE  req'[x].body \in issued' /\ (req'[x].pc = "ok" => ~WillBeCurrent(req'[x].body))
        BY DEF LogoutIsSound, IsCurrent, WillBeCurrent
      <3>1. CASE req'[x].pc # "ok" /\ req'[x].body = store /\ store # NoToken
        BY <2>1, <3>1 DEF ServerMoves, SessionInv, ServerIsSound
      <3>2. CASE /\ req[x].kind = "logout" /\ req'[x].body = req[x].body
                 /\ (req'[x].pc = "ok" => req[x].pc = "ok" \/ ~WillBeCurrent(req[x].body))
        <4>1. PICK t : t = req[x].body
          OBVIOUS
        <4>2. t \in issued /\ t \in issued' /\ (req[x].pc = "ok" => ~IsCurrent(t))
          BY <2>1, <3>2, <4>1 DEF ServerMoves, LogoutInv, LogoutIsSound
        <4>3. ~IsCurrent(t) => ~IsCurrent(t)'
          BY <2>1, <4>2 DEF ServerMoves
        <4> QED BY <3>2, <4>1, <4>2, <4>3 DEF IsCurrent, WillBeCurrent
      <3> QED BY <2>1, <3>1, <3>2 DEF Follows
    <2> QED BY <2>2, <2>3 DEF LogoutInv
  <1>3. LogoutInv => LogoutRevokesToken
    BY DEF LogoutInv, LogoutIsSound, LogoutRevokesToken, Traced, Fine, At
  <1> QED BY <1>1, <1>2, <1>3, InvariantHolds, PTL DEF Spec
=============================================================================
