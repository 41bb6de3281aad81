------------------------- MODULE AuthSessionsProofs -------------------------
(***************************************************************************)
(* Proofs about AuthSessions, for any sets of users, tokens and request    *)
(* slots and any set of operations.                                        *)
(***************************************************************************)
EXTENDS AuthSessions, TLAPS

(***************************************************************************)
(* What the handlers rely on beyond the types: a request that goes on has  *)
(* a user, one about to rotate a token has that token, a row has an owner. *)
(***************************************************************************)
JobInv ==
  /\ job \in [Reqs -> Job]
  /\ \A r \in Reqs : job[r].pc # "idle" => job[r].user \in Users
  /\ \A r \in Reqs : job[r].pc = "rotate" => job[r].token \in Tokens

OwnerInv == \A t \in Tokens : tstate[t] # "FREE" <=> owner[t] \in Users

TypeInv == TypeOK /\ JobInv /\ OwnerInv

-----------------------------------------------------------------------------
(* The records the actions build. *)

\* What NoOrigin, Rooted and Spared yield.
LEMMA OriginTypes ==
  /\ NoOrigin \in Origin
  /\ \A o \in Origin, t \in Tokens :
       /\ Rooted(o, t) \in Origin
       /\ Rooted(o, t).root = t
       /\ Rooted(o, t).gen = o.gen
       /\ Rooted(o, t).since = o.since
       /\ Rooted(o, t).totp = o.totp
       /\ Rooted(o, t).spared = o.spared
  /\ \A o \in Origin :
       /\ Spared(o) \in Origin
       /\ Spared(o).root = o.root
       /\ Spared(o).gen = o.gen
       /\ Spared(o).since = o.since
       /\ Spared(o).totp = o.totp
       /\ Spared(o).spared
  BY DEF NoOrigin, Origin, Rooted, Spared

\* What a new login starts from.
LEMMA OpeningType ==
  ASSUME passwordHash \in [Users -> Nat], NEW u \in Users, NEW g \in Nat, NEW b \in BOOLEAN
  PROVE  /\ Opening(u, g, b) \in Origin
         /\ Opening(u, g, b).root = NoToken
         /\ Opening(u, g, b).gen = g
         /\ Opening(u, g, b).since = passwordHash[u]
         /\ Opening(u, g, b).totp = b
  BY DEF Origin, Opening

\* The fields of a request that holds a session.
LEMMA HoldingType ==
  ASSUME NEW pc \in PCs, NEW u \in Users \cup {NoUser}, NEW o \in Origin
  PROVE  /\ Holding(pc, u, o) \in Job
         /\ Holding(pc, u, o).pc = pc
         /\ Holding(pc, u, o).user = u
         /\ Holding(pc, u, o).origin = o
  BY DEF Holding, Job

\* The fields of a free slot.
LEMMA NoJobType == NoJob \in Job /\ NoJob.pc = "idle"
  BY OriginTypes, HoldingType DEF NoJob, PCs

\* The fields of a request in flight.
LEMMA JobType ==
  ASSUME NEW j \in Job
  PROVE  /\ j.pc \in PCs
         /\ j.user \in Users \cup {NoUser}
         /\ j.token \in Tokens \cup {NoToken}
         /\ j.origin \in Origin
  BY DEF Job

\* A slot takes a value, the others keep theirs.
LEMMA EnterSlot ==
  ASSUME job \in [Reqs -> Job], NEW r \in Reqs, NEW j \in Job, Enter(r, j)
  PROVE  /\ job' \in [Reqs -> Job]
         /\ job'[r] = j
         /\ \A q \in Reqs : q # r => job'[q] = job[q]
  BY DEF Enter

\* A slot that takes up work for a user keeps the table of requests sound.
LEMMA EnterKeepsJobs ==
  ASSUME JobInv, NEW r \in Reqs, NEW j \in Job, Enter(r, j), j.user \in Users,
         j.pc = "rotate" => j.token \in Tokens
  PROVE  JobInv'
  BY EnterSlot DEF JobInv

\* So does one that goes on, holding a session, to any step but rotating.
LEMMA HoldKeepsJobs ==
  ASSUME JobInv, NEW r \in Reqs, NEW u \in Users, NEW o \in Origin,
         NEW pc \in PCs \ {"rotate"}, Enter(r, Holding(pc, u, o))
  PROVE  JobInv'
  BY HoldingType, EnterKeepsJobs

\* And one that is freed.
LEMMA LeaveKeepsJobs ==
  ASSUME JobInv, NEW r \in Reqs, Leave(r)
  PROVE  /\ JobInv'
         /\ job'[r] = NoJob
         /\ \A q \in Reqs : q # r => job'[q] = job[q]
  BY NoJobType, EnterSlot DEF Leave, JobInv

-----------------------------------------------------------------------------
(* Types. *)

\* The variables start in their types and nothing refers to a missing user.
LEMMA InitType == Init => TypeInv
  BY NoneAssumption, NoJobType, OriginTypes
  DEF Init, TypeInv, TypeOK, JobInv, OwnerInv, Statuses, TokenStates

\* Every action keeps the variables in their types and the references valid.
LEMMA StepType == TypeInv /\ [Next]_vars => TypeInv'
<1> SUFFICES ASSUME TypeInv, [Next]_vars PROVE TypeInv'
  OBVIOUS
<1> USE DEF TypeInv, TypeOK, OwnerInv
<1>0. \A r \in Reqs : /\ job[r].pc \in PCs
                      /\ job[r].origin \in Origin
                      /\ job[r].pc # "idle" => job[r].user \in Users
                      /\ job[r].pc = "rotate" => job[r].token \in Tokens
  BY JobType DEF JobInv
<1>1. ASSUME NEW r \in Reqs, NEW u \in Users, LoginRead(r, u)
      PROVE  TypeInv'
  <2>1. Opening(u, passwordHash[u], FALSE) \in Origin
    BY OpeningType
  <2>2. JobInv'
    BY <1>1, <2>1, HoldKeepsJobs DEF LoginRead, PCs
  <2> QED BY <1>1, <2>2 DEF LoginRead, JobInv, userVars, tokenVars
<1>2. ASSUME NEW r \in Reqs, NEW u \in Users, Verify2FARead(r, u)
      PROVE  TypeInv'
  <2> PICK g \in passed[u] \cup {0} : Enter(r, Holding("issue", u, Opening(u, g, TRUE)))
    BY <1>2 DEF Verify2FARead
  <2>1. g \in Nat
    OBVIOUS
  <2>2. Opening(u, g, TRUE) \in Origin
    BY <2>1, OpeningType
  <2>3. JobInv'
    BY <2>2, HoldKeepsJobs DEF PCs
  <2> QED BY <1>2, <2>3 DEF Verify2FARead, JobInv, userVars, tokenVars
<1>3. ASSUME NEW r \in Reqs, NEW u \in Users, Enable2FARead(r, u)
      PROVE  TypeInv'
  <2>1. JobInv'
    BY <1>3, OriginTypes, HoldKeepsJobs DEF Enable2FARead, PCs
  <2> QED BY <1>3, <2>1 DEF Enable2FARead, JobInv, userVars, tokenVars
<1>4. ASSUME NEW r \in Reqs, NEW u \in Users, ResetPasswordUpdate(r, u)
      PROVE  TypeInv'
  <2>1. JobInv'
    BY <1>4, OriginTypes, HoldKeepsJobs DEF ResetPasswordUpdate, AskRevoke, PCs
  <2> QED BY <1>4, <2>1 DEF ResetPasswordUpdate, JobInv, tokenVars
<1>5. ASSUME NEW r \in Reqs, NEW u \in Users, NEW s \in Statuses, SetStatusUpdate(r, u, s)
      PROVE  TypeInv'
  <2>1. JobInv'
    <3>1. CASE s # "ACTIVE"
      BY <1>5, <3>1, OriginTypes, HoldKeepsJobs DEF SetStatusUpdate, AskRevoke, PCs
    <3>2. CASE s = "ACTIVE"
      BY <1>5, <3>2 DEF SetStatusUpdate, JobInv
    <3> QED BY <3>1, <3>2
  <2> QED BY <1>5, <2>1 DEF SetStatusUpdate, JobInv, tokenVars
<1>6. ASSUME NEW r \in Reqs, NEW t \in Tokens, RefreshRead(r, t)
      PROVE  TypeInv'
  <2> DEFINE j == [pc |-> "rotate", user |-> owner[t], token |-> t, origin |-> NoOrigin]
  <2>1. j \in Job /\ j.user \in Users /\ j.token \in Tokens
    BY <1>6, OriginTypes DEF RefreshRead, Live, Job, PCs
  <2>2. Enter(r, j)
    BY <1>6 DEF RefreshRead
  <2> HIDE DEF j
  <2>3. JobInv'
    BY <2>1, <2>2, EnterKeepsJobs
  <2> QED BY <1>6, <2>3 DEF RefreshRead, JobInv, userVars, tokenVars
<1>7. ASSUME NEW r \in Reqs, NEW t \in Tokens, Issue(r, t)
      PROVE  TypeInv'
  <2>1. JobInv' /\ job[r].user \in Users /\ job[r].origin \in Origin
    BY <1>7, <1>0, LeaveKeepsJobs DEF Issue, At
  <2>2. Rooted(job[r].origin, t) \in Origin
    BY <2>1, OriginTypes
  <2> QED BY <1>7, <2>1, <2>2 DEF Issue, JobInv, userVars, TokenStates
<1>8. ASSUME NEW r \in Reqs, IssueRefused(r)
      PROVE  TypeInv'
  BY <1>8, LeaveKeepsJobs DEF IssueRefused, JobInv, userVars, tokenVars
<1>9. ASSUME NEW r \in Reqs, RefreshRotate(r)
      PROVE  TypeInv'
  <2>1. job[r].user \in Users /\ job[r].token \in Tokens
    BY <1>9, <1>0 DEF RefreshRotate, At
  <2>2. JobInv'
    BY <1>9, <2>1, HoldKeepsJobs DEF RefreshRotate, PCs
  <2> QED BY <1>9, <2>1, <2>2 DEF RefreshRotate, Live, JobInv, userVars, TokenStates
<1>10. ASSUME NEW r \in Reqs, RefreshBeaten(r)
      PROVE  TypeInv'
  BY <1>10, LeaveKeepsJobs DEF RefreshBeaten, JobInv, userVars, tokenVars
<1>11. ASSUME NEW r \in Reqs, RefreshReload(r)
      PROVE  TypeInv'
  <2>1. job[r].user \in Users /\ job[r].origin \in Origin
    BY <1>11, <1>0 DEF RefreshReload, At
  <2>2. JobInv'
    BY <1>11, <2>1, HoldKeepsJobs DEF RefreshReload, PCs
  <2> QED BY <1>11, <2>2 DEF RefreshReload, JobInv, userVars, tokenVars
<1>12. ASSUME NEW r \in Reqs, RefreshDenied(r)
      PROVE  TypeInv'
  BY <1>12, LeaveKeepsJobs DEF RefreshDenied, JobInv, userVars, tokenVars
<1>13. ASSUME NEW r \in Reqs, Enable2FAWrite(r)
      PROVE  TypeInv'
  <2>1. JobInv'
    BY <1>13, LeaveKeepsJobs DEF Enable2FAWrite
  <2>2. twoFAEnabled' \in [Users -> BOOLEAN]
    BY <1>13 DEF Enable2FAWrite
  <2> QED BY <1>13, <2>1, <2>2 DEF Enable2FAWrite, JobInv, tokenVars
<1>14. ASSUME NEW r \in Reqs, RevokeAll(r)
      PROVE  TypeInv'
  <2>1. \A q \in Reqs :
          /\ job'[q] \in Job
          /\ \/ job'[q].pc = "idle"
             \/ job'[q] = job[q]
             \/ job'[q].user = job[q].user /\ job'[q].pc \in {"reload", "issue"}
                /\ job[q].pc \in {"reload", "issue"}
    <3>1. SUFFICES ASSUME NEW q \in Reqs
                   PROVE  /\ job'[q] \in Job
                          /\ \/ job'[q].pc = "idle"
                             \/ job'[q] = job[q]
                             \/ /\ job'[q].user = job[q].user
                                /\ job'[q].pc \in {"reload", "issue"}
                                /\ job[q].pc \in {"reload", "issue"}
      OBVIOUS
    <3>2. CASE q # r /\ InMemory(q, job[r].user)
      <4>1. job'[q] = Holding(job[q].pc, job[q].user, Spared(job[q].origin))
        BY <1>14, <3>2 DEF RevokeAll, InMemory
      <4>2. job[q].user \in Users /\ Spared(job[q].origin) \in Origin
        BY <1>0, <3>2, OriginTypes DEF InMemory
      <4> QED BY <1>0, <3>2, <4>1, <4>2, HoldingType DEF InMemory
    <3>3. CASE ~(q # r /\ InMemory(q, job[r].user))
      BY <1>14, <3>3, NoJobType DEF RevokeAll
    <3> QED BY <3>2, <3>3
  <2>2. JobInv'
    BY <1>14, <1>0, <2>1 DEF RevokeAll, JobInv
  <2> QED BY <1>14, <2>2 DEF RevokeAll, Live, JobInv, userVars, TokenStates
<1>15. ASSUME NEW r \in Reqs, Fail(r)
      PROVE  TypeInv'
  <2>1. JobInv' /\ job[r].user \in Users
    BY <1>15, <1>0, LeaveKeepsJobs DEF Fail, At
  <2> QED BY <1>15, <2>1 DEF Fail, JobInv, userVars, tokenVars
<1>16. ASSUME NEW t \in Tokens, Logout(t)
      PROVE  TypeInv'
  BY <1>16 DEF Logout, Live, JobInv, userVars, TokenStates
<1>17. ASSUME NEW t \in Tokens, Expire(t)
      PROVE  TypeInv'
  BY <1>17 DEF Expire, JobInv, userVars
<1>18. ASSUME NEW u \in Users, Setup2FA(u)
      PROVE  TypeInv'
  BY <1>18 DEF Setup2FA, JobInv, tokenVars
<1>19. ASSUME NEW u \in Users, RemoveUser(u)
      PROVE  TypeInv'
  BY <1>19 DEF RemoveUser, JobInv, Statuses, TokenStates, Exists
<1>20. ASSUME NEW u \in Users, LoginAsks2FA(u)
       PROVE  TypeInv'
  BY <1>20 DEF LoginAsks2FA, JobInv, tokenVars
<1>21. CASE UNCHANGED vars
  BY <1>21 DEF vars, userVars, tokenVars, JobInv
<1> QED BY <1>1, <1>2, <1>3, <1>4, <1>5, <1>6, <1>7, <1>8, <1>9, <1>10,
            <1>11, <1>12, <1>13, <1>14, <1>15, <1>16, <1>17, <1>18, <1>19, <1>20, <1>21 DEF Next

\* TypeOK is an invariant.
THEOREM Typing == Spec => []TypeOK
<1>1. TypeInv => TypeOK
  BY DEF TypeInv
<1> QED BY InitType, StepType, <1>1, PTL DEF Spec

-----------------------------------------------------------------------------
(* One token per session. *)

\* A session is named after its first token, whose row exists from then on: a fresh
\* token can therefore name no session that is under way.
RootsTaken ==
  /\ \A t \in Tokens : tstate[t] # "FREE" =>
       origin[t].root \in Tokens /\ tstate[origin[t].root] # "FREE"
  /\ \A r \in Reqs, s \in Tokens : Carries(r, s) => tstate[s] # "FREE"

SessionInv == OneTokenPerSession /\ RootsTaken

\* There is no session to begin with.
LEMMA InitSession == Init => SessionInv
  BY NoneAssumption
  DEF Init, SessionInv, OneTokenPerSession, RootsTaken, Live, Carries, NoJob, Holding, NoOrigin

\* A step that starts no carrying request and makes no token live ...
Quiet ==
  /\ origin' = origin
  /\ \A t \in Tokens : Live(t)' => Live(t)
  /\ \A t \in Tokens : tstate'[t] = "FREE" <=> tstate[t] = "FREE"
  /\ \A r \in Reqs, s \in Tokens : Carries(r, s)' => Carries(r, s)

\* ... cannot fork a session.
LEMMA QuietSession ==
  ASSUME SessionInv, Quiet
  PROVE  SessionInv'
<1> USE DEF Quiet
<1>1. \A t \in Tokens : Live(t) => origin[t].root \in Tokens
  BY DEF SessionInv, RootsTaken, Live
<1>2. \A r \in Reqs, t \in Tokens : Live(t)' => ~Carries(r, origin[t].root)'
  <2> SUFFICES ASSUME NEW r \in Reqs, NEW t \in Tokens, Live(t)', Carries(r, origin[t].root)'
               PROVE  FALSE
    OBVIOUS
  <2>1. Live(t) /\ Carries(r, origin[t].root)
    BY <1>1
  <2> QED BY <2>1 DEF SessionInv, OneTokenPerSession
<1>3. OneTokenPerSession'
  BY <1>2 DEF SessionInv, OneTokenPerSession
<1>4. RootsTaken'
  BY DEF SessionInv, RootsTaken
<1> QED BY <1>3, <1>4 DEF SessionInv

\* Carrying is read off a slot: only the slot that changes can begin to carry.
LEMMA CarriesSlot ==
  ASSUME NEW r \in Reqs, \A q \in Reqs : q # r => job'[q] = job[q]
  PROVE  \A q \in Reqs, s \in Tokens : q # r => (Carries(q, s)' <=> Carries(q, s))
  BY DEF Carries

\* A request that enters a step with no session yet, or frees its slot, carries nothing.
LEMMA CarriesNothing ==
  ASSUME NEW r \in Reqs, NEW s \in Tokens,
         job'[r].pc \notin {"reload", "issue"} \/ job'[r].origin.root = NoToken
  PROVE  ~Carries(r, s)'
  BY NoneAssumption DEF Carries

\* A request that takes a slot without a session of its own is quiet.
LEMMA EnterSession ==
  ASSUME TypeInv, NEW r \in Reqs, NEW j \in Job, Enter(r, j),
         j.pc \notin {"reload", "issue"} \/ j.origin.root = NoToken,
         UNCHANGED <<tstate, origin>>
  PROVE  Quiet
<1>1. \A q \in Reqs, s \in Tokens : Carries(q, s)' => Carries(q, s)
  BY EnterSlot, CarriesSlot, CarriesNothing DEF TypeInv, TypeOK
<1> QED BY <1>1 DEF Quiet, Live

\* So is one that leaves.
LEMMA LeaveSession ==
  ASSUME TypeInv, NEW r \in Reqs, Leave(r), UNCHANGED <<tstate, origin>>
  PROVE  Quiet
  BY NoJobType, EnterSession DEF Leave

\* Every action but the rotation of a token and the issue of one is quiet.
LEMMA QuietActions ==
  TypeInv /\ [Next]_vars =>
    Quiet \/ \E r \in Reqs : RefreshRotate(r) \/ \E t \in Tokens : Issue(r, t)
<1> SUFFICES ASSUME TypeInv, [Next]_vars, \A r \in Reqs : ~RefreshRotate(r) /\ \A t \in Tokens : ~Issue(r, t)
             PROVE  Quiet
  OBVIOUS
<1>0. /\ job \in [Reqs -> Job]
      /\ origin \in [Tokens -> Origin]
      /\ tstate \in [Tokens -> TokenStates]
      /\ owner \in [Tokens -> Users \cup {NoUser}]
      /\ passwordHash \in [Users -> Nat] /\ twoFASecret \in [Users -> Nat]
      /\ passed \in [Users -> SUBSET Nat]
      /\ \A r \in Reqs : /\ job[r].pc \in PCs
                         /\ job[r].origin \in Origin
                         /\ job[r].pc # "idle" => job[r].user \in Users
                         /\ job[r].pc = "rotate" => job[r].token \in Tokens
  BY JobType DEF TypeInv, TypeOK, JobInv
<1>1. ASSUME NEW r \in Reqs, NEW u \in Users, LoginRead(r, u)
      PROVE  Quiet
  <2> DEFINE o == Opening(u, passwordHash[u], FALSE)
             j == Holding("issue", u, o)
  <2>0. o \in Origin /\ o.root = NoToken
    BY <1>0, OpeningType, Zenon
  <2> HIDE DEF o
  <2>1. j \in Job /\ j.origin.root = NoToken
    BY <2>0, HoldingType DEF PCs
  <2>2. Enter(r, j) /\ UNCHANGED <<tstate, origin>>
    BY <1>1 DEF LoginRead, tokenVars, o
  <2> HIDE DEF j
  <2> QED BY <2>1, <2>2, EnterSession
<1>2. ASSUME NEW r \in Reqs, NEW u \in Users, Verify2FARead(r, u)
      PROVE  Quiet
  <2> PICK g \in passed[u] \cup {0} : Enter(r, Holding("issue", u, Opening(u, g, TRUE)))
    BY <1>2 DEF Verify2FARead
  <2> DEFINE o == Opening(u, g, TRUE)
             j == Holding("issue", u, o)
  <2>0. g \in Nat
    BY <1>0
  <2>1. o \in Origin /\ o.root = NoToken
    BY <1>0, <2>0, OpeningType, Zenon
  <2>2. Enter(r, j) /\ UNCHANGED <<tstate, origin>>
    BY <1>2 DEF Verify2FARead, tokenVars
  <2> HIDE DEF o
  <2>3. j \in Job /\ j.origin.root = NoToken
    BY <2>1, HoldingType DEF PCs
  <2> HIDE DEF j
  <2> QED BY <2>2, <2>3, EnterSession
<1>3. ASSUME NEW r \in Reqs, NEW u \in Users, Enable2FARead(r, u)
      PROVE  Quiet
  <2> DEFINE j == Holding("enable", u, NoOrigin)
  <2>1. j \in Job /\ j.pc \notin {"reload", "issue"}
    BY OriginTypes, HoldingType DEF PCs
  <2>2. Enter(r, j) /\ UNCHANGED <<tstate, origin>>
    BY <1>3 DEF Enable2FARead, tokenVars
  <2> HIDE DEF j
  <2> QED BY <2>1, <2>2, EnterSession
<1>4. ASSUME NEW r \in Reqs, NEW u \in Users, ResetPasswordUpdate(r, u)
      PROVE  Quiet
  <2> DEFINE j == Holding("revoke", u, NoOrigin)
  <2>1. j \in Job /\ j.pc = "revoke"
    BY OriginTypes, HoldingType DEF PCs
  <2>2. Enter(r, j) /\ UNCHANGED <<tstate, origin>>
    BY <1>4 DEF ResetPasswordUpdate, AskRevoke, tokenVars
  <2> HIDE DEF j
  <2> QED BY <2>1, <2>2, EnterSession
<1>5. ASSUME NEW r \in Reqs, NEW u \in Users, NEW s \in Statuses, SetStatusUpdate(r, u, s)
      PROVE  Quiet
  <2> DEFINE j == Holding("revoke", u, NoOrigin)
  <2>1. j \in Job /\ j.pc = "revoke"
    BY OriginTypes, HoldingType DEF PCs
  <2>2. Enter(r, j) \/ UNCHANGED job
    BY <1>5 DEF SetStatusUpdate, AskRevoke
  <2>3. UNCHANGED <<tstate, origin>>
    BY <1>5 DEF SetStatusUpdate, tokenVars
  <2> HIDE DEF j
  <2> QED BY <2>1, <2>2, <2>3, EnterSession DEF Quiet, Live, Carries
<1>6. ASSUME NEW r \in Reqs, NEW t \in Tokens, RefreshRead(r, t)
      PROVE  Quiet
  <2> DEFINE j == [pc |-> "rotate", user |-> owner[t], token |-> t, origin |-> NoOrigin]
  <2>1. j \in Job /\ j.pc \notin {"reload", "issue"}
    BY <1>0, OriginTypes DEF Job, PCs
  <2>2. Enter(r, j) /\ UNCHANGED <<tstate, origin>>
    BY <1>6 DEF RefreshRead, tokenVars
  <2> HIDE DEF j
  <2> QED BY <2>1, <2>2, EnterSession
<1>8. ASSUME NEW r \in Reqs, IssueRefused(r)
      PROVE  Quiet
  BY <1>8, LeaveSession DEF IssueRefused, tokenVars
<1>10. ASSUME NEW r \in Reqs, RefreshBeaten(r)
      PROVE  Quiet
  BY <1>10, LeaveSession DEF RefreshBeaten, tokenVars
<1>11. ASSUME NEW r \in Reqs, RefreshReload(r)
      PROVE  Quiet
  <2> DEFINE j == Holding("issue", job[r].user, job[r].origin)
  <2>1. job[r].pc = "reload" /\ Enter(r, j) /\ UNCHANGED <<tstate, origin>>
    BY <1>11 DEF RefreshReload, At, tokenVars
  <2>2. j \in Job /\ j.origin = job[r].origin
    <3>1. job[r].user \in Users \cup {NoUser} /\ job[r].origin \in Origin
      BY <1>0, <2>1
    <3> QED BY <3>1, HoldingType DEF PCs
  <2> HIDE DEF j
  <2>3. \A q \in Reqs, x \in Tokens : Carries(q, x)' => Carries(q, x)
    BY <1>0, <2>1, <2>2, EnterSlot, CarriesSlot DEF Carries
  <2> QED BY <2>1, <2>3 DEF Quiet, Live
<1>12. ASSUME NEW r \in Reqs, RefreshDenied(r)
      PROVE  Quiet
  BY <1>12, LeaveSession DEF RefreshDenied, tokenVars
<1>13. ASSUME NEW r \in Reqs, Enable2FAWrite(r)
      PROVE  Quiet
  BY <1>13, LeaveSession DEF Enable2FAWrite, tokenVars
<1>14. ASSUME NEW r \in Reqs, RevokeAll(r)
      PROVE  Quiet
  <2>1. \A q \in Reqs, x \in Tokens : Carries(q, x)' => Carries(q, x)
    <3>1. SUFFICES ASSUME NEW q \in Reqs, NEW x \in Tokens, Carries(q, x)'
                   PROVE  Carries(q, x)
      OBVIOUS
    <3>2. CASE q # r /\ InMemory(q, job[r].user)
      <4>1. job'[q] = Holding(job[q].pc, job[q].user, Spared(job[q].origin))
        BY <1>14, <3>2 DEF RevokeAll, InMemory
      <4>2. job[q].user \in Users /\ Spared(job[q].origin) \in Origin
        BY <1>0, <3>2, OriginTypes DEF InMemory
      <4> QED BY <1>0, <3>1, <3>2, <4>1, <4>2, HoldingType, OriginTypes DEF InMemory, Carries
    <3>3. CASE q # r /\ ~InMemory(q, job[r].user)
      BY <1>14, <3>1, <3>3 DEF RevokeAll, Carries
    <3>4. CASE q = r
      BY <1>14, <3>1, <3>4, NoJobType DEF RevokeAll, Carries
    <3> QED BY <3>2, <3>3, <3>4
  <2> QED BY <1>14, <1>0, <2>1 DEF Quiet, RevokeAll, Live
<1>15. ASSUME NEW r \in Reqs, Fail(r)
      PROVE  Quiet
  BY <1>15, LeaveSession DEF Fail, tokenVars
<1>16. ASSUME NEW t \in Tokens, Logout(t)
      PROVE  Quiet
  BY <1>16, <1>0 DEF Quiet, Logout, Live, Carries
<1>17. ASSUME NEW t \in Tokens, Expire(t)
      PROVE  Quiet
  BY <1>17 DEF Quiet, Expire, Live, Carries
<1>18. ASSUME NEW u \in Users, Setup2FA(u)
      PROVE  Quiet
  BY <1>18 DEF Quiet, Setup2FA, Live, Carries, tokenVars
<1>19. ASSUME NEW u \in Users, RemoveUser(u)
      PROVE  Quiet
  <2>1. \A x \in Tokens : tstate[x] = "FREE" => owner[x] # u
    BY DEF TypeInv, OwnerInv
  <2> QED BY <1>19, <1>0, <2>1 DEF Quiet, RemoveUser, Live, Carries
<1>20. ASSUME NEW u \in Users, LoginAsks2FA(u)
       PROVE  Quiet
  BY <1>20 DEF Quiet, LoginAsks2FA, tokenVars, Live, Carries
<1>21. CASE UNCHANGED vars
  BY <1>21 DEF Quiet, vars, tokenVars, Live, Carries
<1> QED BY <1>1, <1>2, <1>3, <1>4, <1>5, <1>6, <1>8, <1>10, <1>11, <1>12, <1>13, <1>14, <1>15, <1>16, <1>17, <1>18, <1>19, <1>20, <1>21 DEF Next

\* Every action keeps every session on one token.
LEMMA StepSession == TypeInv /\ SessionInv /\ [Next]_vars => SessionInv'
<1> SUFFICES ASSUME TypeInv, SessionInv, [Next]_vars PROVE SessionInv'
  OBVIOUS
<1>0. /\ job \in [Reqs -> Job]
      /\ origin \in [Tokens -> Origin]
      /\ tstate \in [Tokens -> TokenStates]
      /\ owner \in [Tokens -> Users \cup {NoUser}]
      /\ passwordHash \in [Users -> Nat] /\ twoFASecret \in [Users -> Nat]
      /\ passed \in [Users -> SUBSET Nat]
      /\ \A r \in Reqs : /\ job[r].pc \in PCs
                         /\ job[r].origin \in Origin
                         /\ job[r].pc # "idle" => job[r].user \in Users
                         /\ job[r].pc = "rotate" => job[r].token \in Tokens
  BY JobType DEF TypeInv, TypeOK, JobInv
<1>7. ASSUME NEW r \in Reqs, NEW t \in Tokens, Issue(r, t)
      PROVE  SessionInv'
  <2> DEFINE s == origin'[t].root
  <2>1. /\ job[r].pc = "issue" /\ tstate[t] = "FREE"
        /\ tstate' = [tstate EXCEPT ![t] = "LIVE"]
        /\ origin' = [origin EXCEPT ![t] = origin'[t]]
        /\ origin'[t] = IF job[r].origin.root = NoToken THEN Rooted(job[r].origin, t)
                        ELSE job[r].origin
    BY <1>7, <1>0 DEF Issue, At
  <2>2. s \in Tokens /\ (s = t \/ Carries(r, s))
    BY <1>0, <2>1, OriginTypes, JobType DEF Carries, Origin
  <2>3. \A q \in Reqs, x \in Tokens : Carries(q, x)' => q # r /\ Carries(q, x)
    BY <1>7, LeaveKeepsJobs, NoJobType, CarriesSlot, CarriesNothing DEF Issue, TypeInv
  <2>4. \A x \in Tokens : Live(x)' => x = t \/ (Live(x) /\ origin'[x] = origin[x])
    BY <1>0, <2>1 DEF Live
  <2>5. \A x \in Tokens : Live(x) => origin[x].root # s
    BY <1>0, <2>1, <2>2 DEF SessionInv, OneTokenPerSession, RootsTaken, Live
  <2>6. \A q \in Reqs : Carries(q, s) => q = r
    BY <2>1, <2>2 DEF SessionInv, OneTokenPerSession, RootsTaken
  <2>7. OneTokenPerSession'
    <3> HIDE DEF s
    <3>1. \A x, y \in Tokens : Live(x)' /\ Live(y)' /\ (origin[x].root)' = (origin[y].root)' => x = y
      BY <2>4, <2>5 DEF SessionInv, OneTokenPerSession, s
    <3>2. \A q \in Reqs, x \in Tokens : Live(x)' => ~Carries(q, (origin[x].root))'
      <4> SUFFICES ASSUME NEW q \in Reqs, NEW x \in Tokens, Live(x)',
                          Carries(q, origin[x].root)'
                   PROVE FALSE
        OBVIOUS
      <4>1. CASE x = t
        BY <4>1, <2>2, <2>3, <2>6 DEF s, Carries
      <4>2. CASE x # t
        BY <4>2, <2>1, <2>3, <2>4 DEF SessionInv, OneTokenPerSession, RootsTaken, Carries, Live
      <4> QED BY <4>1, <4>2
    <3>3. \A q1, q2 \in Reqs : \A x \in Tokens : Carries(q1, x)' /\ Carries(q2, x)' => q1 = q2
      BY <2>3 DEF SessionInv, OneTokenPerSession
    <3> QED BY <3>1, <3>2, <3>3 DEF OneTokenPerSession
  <2>8. RootsTaken'
    BY <1>0, <2>1, <2>2, <2>3 DEF SessionInv, RootsTaken
  <2> QED BY <2>7, <2>8 DEF SessionInv
<1>9. ASSUME NEW r \in Reqs, RefreshRotate(r)
      PROVE  SessionInv'
  <2> DEFINE t == job[r].token
             s == origin[t].root
  <2>1. /\ t \in Tokens /\ Live(t) /\ job[r].user \in Users
        /\ tstate' = [tstate EXCEPT ![t] = "REVOKED"] /\ origin' = origin
        /\ Enter(r, Holding("reload", job[r].user, origin[t]))
    BY <1>9, <1>0 DEF RefreshRotate, At
  <2> HIDE DEF t
  <2>2. /\ Holding("reload", job[r].user, origin[t]) \in Job
        /\ Holding("reload", job[r].user, origin[t]).origin = origin[t]
    BY <1>0, <2>1, HoldingType DEF PCs
  <2>3. job'[r].origin = origin[t] /\ \A q \in Reqs : q # r => job'[q] = job[q]
    BY <1>0, <2>1, <2>2, EnterSlot
  <2>4. s \in Tokens /\ tstate[s] # "FREE"
    BY <2>1 DEF SessionInv, RootsTaken, Live
  <2> HIDE DEF s
  <2>5. \A q \in Reqs, x \in Tokens : Carries(q, x)' => (q = r /\ x = s) \/ (q # r /\ Carries(q, x))
    BY <2>3, CarriesSlot DEF Carries, s
  <2>6. \A x \in Tokens : Live(x)' => Live(x) /\ x # t
    BY <1>0, <2>1 DEF Live
  <2>7. \A q \in Reqs : ~Carries(q, s)
    BY <2>1 DEF SessionInv, OneTokenPerSession, s
  <2>8. \A x \in Tokens : Live(x)' => origin[x].root # s
    BY <2>1, <2>6 DEF SessionInv, OneTokenPerSession, s
  <2>9. \A x \in Tokens : tstate'[x] = "FREE" <=> tstate[x] = "FREE"
    BY <1>0, <2>1 DEF Live
  <2>10. OneTokenPerSession'
    <3>1. \A x, y \in Tokens : Live(x)' /\ Live(y)' /\ (origin[x].root)' = (origin[y].root)' => x = y
      BY <2>1, <2>6 DEF SessionInv, OneTokenPerSession
    <3>2. \A q \in Reqs, x \in Tokens : Live(x)' => ~Carries(q, (origin[x].root))'
      <4> SUFFICES ASSUME NEW q \in Reqs, NEW x \in Tokens, Live(x)',
                          Carries(q, origin[x].root)'
                   PROVE FALSE
        OBVIOUS
      <4>1. Live(x) /\ origin[x].root \in Tokens /\ origin[x].root # s
        BY <2>6, <2>8 DEF SessionInv, RootsTaken, Live
      <4>2. Carries(q, origin[x].root)
        BY <2>1, <2>5, <4>1
      <4> QED BY <4>1, <4>2 DEF SessionInv, OneTokenPerSession
    <3>3. \A q1, q2 \in Reqs : \A x \in Tokens : Carries(q1, x)' /\ Carries(q2, x)' => q1 = q2
      BY <2>5, <2>7 DEF SessionInv, OneTokenPerSession
    <3> QED BY <3>1, <3>2, <3>3 DEF OneTokenPerSession
  <2>11. RootsTaken'
    BY <2>1, <2>4, <2>5, <2>9 DEF SessionInv, RootsTaken
  <2> QED BY <2>10, <2>11 DEF SessionInv
<1> QED BY <1>7, <1>9, QuietActions, QuietSession

\* However refreshes, logouts, revocations and failures interleave, a session never
\* forks into two usable refresh tokens.
THEOREM SessionsDoNotFork == Spec => []OneTokenPerSession
<1>1. SessionInv => OneTokenPerSession
  BY DEF SessionInv
<1> QED BY InitType, StepType, InitSession, StepSession, <1>1, PTL DEF Spec

-----------------------------------------------------------------------------
(* The register of sessions that the requests and tables amount to. *)

\* The token a session is named after names its own session, and a value that was never
\* issued belongs to none.
RootInv ==
  /\ \A t \in Tokens : tstate[t] # "FREE" => origin[origin[t].root].root = origin[t].root
  /\ \A t \in Tokens : tstate[t] = "FREE" => origin[t].root = NoToken
  /\ \A r \in Reqs, s \in Tokens : Carries(r, s) => origin[s].root = s

Carried(s) == \E r \in Reqs : Carries(r, s)

\* What Issue makes of a request that opens a session, or continues the one it carries.
LEMMA Issued ==
  ASSUME TypeInv, SessionInv, NEW r \in Reqs, NEW t \in Tokens, Issue(r, t)
  PROVE  /\ origin'[t].root \in Tokens /\ tstate[t] = "FREE"
         /\ (origin'[t].root = t /\ ~Carried(t)) \/ (Carries(r, origin'[t].root) /\ origin'[t].root # t)
         /\ \A x \in Tokens \ {t} : origin'[x] = origin[x] /\ tstate'[x] = tstate[x]
         /\ tstate'[t] = "LIVE" /\ tstate' \in [Tokens -> TokenStates]
         /\ \A q \in Reqs, x \in Tokens : Carries(q, x)' <=> q # r /\ Carries(q, x)
         /\ \A x \in Tokens : Carries(r, x) => x = origin'[t].root
<1>0. /\ job \in [Reqs -> Job] /\ origin \in [Tokens -> Origin] /\ tstate \in [Tokens -> TokenStates]
      /\ job[r].origin \in Origin /\ job[r].origin.root \in Tokens \cup {NoToken}
  BY JobType DEF TypeInv, TypeOK, JobInv, Origin
<1>1. /\ job[r].pc = "issue" /\ tstate[t] = "FREE" /\ Leave(r)
      /\ tstate' = [tstate EXCEPT ![t] = "LIVE"]
      /\ origin'[t] = IF job[r].origin.root = NoToken THEN Rooted(job[r].origin, t) ELSE job[r].origin
      /\ \A x \in Tokens \ {t} : origin'[x] = origin[x]
  BY <1>0 DEF Issue, At
<1>2. \A q \in Reqs, x \in Tokens : Carries(q, x)' <=> q # r /\ Carries(q, x)
  BY <1>1, LeaveKeepsJobs, NoJobType, CarriesSlot, CarriesNothing DEF TypeInv
<1>3. tstate' \in [Tokens -> TokenStates] /\ tstate'[t] = "LIVE" /\ \A x \in Tokens \ {t} : tstate'[x] = tstate[x]
  BY <1>0, <1>1 DEF TokenStates
<1>4. ~Carried(t)
  BY <1>1 DEF SessionInv, RootsTaken, Carried
<1>5. CASE job[r].origin.root = NoToken
  <2>1. origin'[t].root = t
    BY <1>0, <1>1, <1>5, OriginTypes
  <2>2. \A x \in Tokens : ~Carries(r, x)
    BY <1>5, NoneAssumption DEF Carries
  <2> QED BY <1>1, <1>2, <1>3, <1>4, <2>1, <2>2
<1>6. CASE job[r].origin.root # NoToken
  <2>1. origin'[t] = job[r].origin
    BY <1>1, <1>6
  <2>2. Carries(r, origin'[t].root) /\ origin'[t].root \in Tokens
    BY <1>0, <1>1, <1>6, <2>1 DEF Carries
  <2>3. \A x \in Tokens : Carries(r, x) => x = origin'[t].root
    BY <2>1 DEF Carries
  <2> QED BY <1>1, <1>2, <1>3, <1>4, <2>2, <2>3 DEF Carried
<1> QED BY <1>5, <1>6

\* What a rotation makes of the session of its token.
LEMMA Rotated ==
  ASSUME TypeInv, SessionInv, NEW r \in Reqs, RefreshRotate(r)
  PROVE  \E t \in Tokens :
           /\ Live(t) /\ tstate'[t] = "REVOKED" /\ origin[t].root \in Tokens
           /\ \A x \in Tokens \ {t} : tstate'[x] = tstate[x]
           /\ origin' = origin
           /\ Carries(r, origin[t].root)'
           /\ \A q \in Reqs, x \in Tokens \ {origin[t].root} : Carries(q, x)' => Carries(q, x)
           /\ \A q \in Reqs, x \in Tokens \ {origin[t].root} : Carries(q, x) => Carries(q, x)'
<1> DEFINE t == job[r].token
           j == Holding("reload", job[r].user, origin[t])
<1>0. /\ job \in [Reqs -> Job] /\ origin \in [Tokens -> Origin] /\ tstate \in [Tokens -> TokenStates]
      /\ job[r].pc = "rotate" /\ t \in Tokens /\ job[r].user \in Users
  BY DEF TypeInv, TypeOK, JobInv, RefreshRotate, At
<1>1. /\ Live(t) /\ tstate' = [tstate EXCEPT ![t] = "REVOKED"] /\ origin' = origin /\ Enter(r, j)
  BY DEF RefreshRotate
<1> HIDE DEF t
<1>2. j \in Job /\ j.pc = "reload" /\ j.origin = origin[t]
  BY <1>0, HoldingType DEF PCs
<1> HIDE DEF j
<1>3. job'[r] = j /\ \A q \in Reqs : q # r => job'[q] = job[q]
  BY <1>0, <1>1, <1>2, EnterSlot
<1>4. origin[t].root \in Tokens
  BY <1>0, <1>1 DEF SessionInv, RootsTaken, Live
<1>5. \A q \in Reqs, x \in Tokens : q # r => (Carries(q, x)' <=> Carries(q, x))
  BY <1>3, CarriesSlot
<1>6. /\ \A x \in Tokens : Carries(r, x)' <=> x = origin[t].root
      /\ \A x \in Tokens : ~Carries(r, x)
  BY <1>0, <1>2, <1>3, <1>4 DEF Carries
<1>7. tstate'[t] = "REVOKED" /\ \A x \in Tokens \ {t} : tstate'[x] = tstate[x]
  BY <1>0, <1>1
<1> QED BY <1>0, <1>1, <1>4, <1>5, <1>6, <1>7

LEMMA InitRoots == Init => RootInv
  BY NoneAssumption, OriginTypes
  DEF Init, RootInv, Carries, NoJob, Holding, NoOrigin

LEMMA StepRoots == TypeInv /\ SessionInv /\ RootInv /\ [Next]_vars => RootInv'
<1> SUFFICES ASSUME TypeInv, SessionInv, RootInv, [Next]_vars PROVE RootInv'
  OBVIOUS
<1>1. CASE Quiet
  BY <1>1 DEF RootInv, Quiet
<1>2. ASSUME NEW r \in Reqs, NEW t \in Tokens, Issue(r, t) PROVE RootInv'
  <2> DEFINE s == origin'[t].root
  <2>1. /\ s \in Tokens /\ tstate[t] = "FREE"
        /\ (s = t /\ ~Carried(t)) \/ (Carries(r, s) /\ s # t)
        /\ \A x \in Tokens \ {t} : origin'[x] = origin[x] /\ tstate'[x] = tstate[x]
        /\ tstate'[t] = "LIVE"
        /\ \A q \in Reqs, x \in Tokens : Carries(q, x)' <=> q # r /\ Carries(q, x)
    BY <1>2, Issued
  <2> HIDE DEF s
  <2>2. origin'[s].root = s
    BY <2>1 DEF RootInv, s
  <2>3. ASSUME NEW x \in Tokens, tstate'[x] # "FREE" PROVE origin'[origin'[x].root].root = origin'[x].root
    <3>1. CASE x = t
      BY <2>2, <3>1 DEF s
    <3>2. CASE x # t
      <4>1. tstate[x] # "FREE" /\ origin'[x] = origin[x]
        BY <2>1, <2>3, <3>2
      <4>2. origin[x].root \in Tokens /\ origin[x].root # t
        BY <2>1, <4>1 DEF SessionInv, RootsTaken
      <4>3. origin'[origin[x].root] = origin[origin[x].root]
        BY <2>1, <4>2
      <4> QED BY <4>1, <4>3 DEF RootInv
    <3> QED BY <3>1, <3>2
  <2>4. \A x \in Tokens : tstate'[x] = "FREE" => origin'[x].root = NoToken
    BY <2>1 DEF RootInv
  <2>5. ASSUME NEW q \in Reqs, NEW x \in Tokens, Carries(q, x)' PROVE origin'[x].root = x
    <3>1. Carries(q, x) /\ tstate[x] # "FREE"
      BY <2>1, <2>5 DEF SessionInv, RootsTaken
    <3> QED BY <2>1, <3>1 DEF RootInv
  <2> QED BY <2>3, <2>4, <2>5 DEF RootInv
<1>3. ASSUME NEW r \in Reqs, RefreshRotate(r) PROVE RootInv'
  <2>1. PICK t \in Tokens :
           /\ Live(t) /\ tstate'[t] = "REVOKED" /\ origin[t].root \in Tokens
           /\ \A x \in Tokens \ {t} : tstate'[x] = tstate[x]
           /\ origin' = origin
           /\ \A q \in Reqs, x \in Tokens \ {origin[t].root} : Carries(q, x)' => Carries(q, x)
    BY <1>3, Rotated
  <2>2. origin[origin[t].root].root = origin[t].root
    BY <2>1 DEF RootInv, Live
  <2>3. \A x \in Tokens : tstate'[x] = "FREE" <=> tstate[x] = "FREE"
    BY <2>1 DEF Live
  <2>4. \A q \in Reqs, x \in Tokens : Carries(q, x)' => origin[x].root = x
    BY <2>1, <2>2 DEF RootInv
  <2> QED BY <2>1, <2>3, <2>4 DEF RootInv
<1> QED BY <1>1, <1>2, <1>3, QuietActions

\* Nothing is live and nobody is at work: no session has been opened.
LEMMA InitRegister == Init => Register!Init
<1> SUFFICES ASSUME Init PROVE Register!Init
  OBVIOUS
<1>1. \A t \in Tokens : tstate[t] = "FREE" /\ origin[t].root = NoToken
  BY DEF Init, NoOrigin
<1>2. \A r \in Reqs, s \in Tokens : ~Carries(r, s)
  BY DEF Init, NoJob, Holding, Carries
<1>3. \A s \in Tokens : LiveOf(s) = {} /\ origin[s].root # s
  BY <1>1, NoneAssumption DEF LiveOf, Live
<1>4. AbsPhase = [s \in Tokens |-> "unopened"]
  BY <1>2, <1>3 DEF AbsPhase
<1>5. AbsCurrent = [s \in Tokens |-> NoToken]
  BY <1>3 DEF AbsCurrent
<1>6. AbsIssued = {}
  BY <1>1 DEF AbsIssued
<1> QED BY <1>4, <1>5, <1>6 DEF Register!Init

\* A session of which neither the live tokens nor the requests that carry it have changed is
\* the same to the register.
LEMMA SameSession ==
  ASSUME NEW s \in Tokens, LiveOf(s)' = LiveOf(s), Carried(s)' <=> Carried(s),
         (origin'[s].root = s) <=> (origin[s].root = s)
  PROVE  AbsPhase'[s] = AbsPhase[s] /\ AbsCurrent'[s] = AbsCurrent[s]
<1>1. AbsPhase'[s] = AbsPhase[s]
  BY DEF AbsPhase, Carried
<1>2. AbsCurrent'[s] = AbsCurrent[s]
  BY DEF AbsCurrent
<1> QED BY <1>1, <1>2

\* What the register shows of a session, read off its tokens and requests.
LEMMA PhaseIs ==
  ASSUME NEW s \in Tokens
  PROVE  /\ LiveOf(s) # {} => AbsPhase[s] = "open"
         /\ LiveOf(s) = {} /\ Carried(s) => AbsPhase[s] = "rotating"
         /\ LiveOf(s) = {} /\ ~Carried(s) /\ origin[s].root # s => AbsPhase[s] = "unopened"
         /\ LiveOf(s) = {} /\ ~Carried(s) /\ origin[s].root = s => AbsPhase[s] = "closed"
         /\ LiveOf(s) = {} => AbsCurrent[s] = NoToken
         /\ \A t \in Tokens : LiveOf(s) = {t} => AbsCurrent[s] = t
<1>1. AbsPhase[s] = IF LiveOf(s) # {} THEN "open"
                    ELSE IF Carried(s) THEN "rotating"
                    ELSE IF origin[s].root = s THEN "closed" ELSE "unopened"
  BY DEF AbsPhase, Carried
<1>2. AbsCurrent[s] = IF LiveOf(s) = {} THEN NoToken ELSE CHOOSE t \in LiveOf(s) : TRUE
  BY DEF AbsCurrent
<1> QED BY <1>1, <1>2

\* The same after a step.
LEMMA PhaseNext ==
  ASSUME NEW s \in Tokens
  PROVE  /\ LiveOf(s)' # {} => AbsPhase'[s] = "open"
         /\ LiveOf(s)' = {} /\ Carried(s)' => AbsPhase'[s] = "rotating"
         /\ LiveOf(s)' = {} /\ ~Carried(s)' /\ origin'[s].root # s => AbsPhase'[s] = "unopened"
         /\ LiveOf(s)' = {} /\ ~Carried(s)' /\ origin'[s].root = s => AbsPhase'[s] = "closed"
         /\ LiveOf(s)' = {} => AbsCurrent'[s] = NoToken
         /\ \A t \in Tokens : LiveOf(s)' = {t} => AbsCurrent'[s] = t
<1>1. AbsPhase'[s] = IF LiveOf(s)' # {} THEN "open"
                    ELSE IF Carried(s)' THEN "rotating"
                    ELSE IF origin'[s].root = s THEN "closed" ELSE "unopened"
  BY DEF AbsPhase, Carried
<1>2. AbsCurrent'[s] = IF LiveOf(s)' = {} THEN NoToken ELSE CHOOSE t \in LiveOf(s)' : TRUE
  BY DEF AbsCurrent
<1> QED BY <1>1, <1>2

\* Sessions only end in a quiet step: the register closes those that have lost their token
\* or the request that carried them.
LEMMA QuietRegister ==
  ASSUME SessionInv, SessionInv', RootInv, Quiet
  PROVE  \E S \in SUBSET Tokens : Register!Close(S)
<1> DEFINE S == {s \in Tokens : (LiveOf(s) # {} \/ Carried(s)) /\ LiveOf(s)' = {} /\ ~Carried(s)'}
<1>1. /\ origin' = origin /\ \A s \in Tokens : LiveOf(s)' \subseteq LiveOf(s) /\ (Carried(s)' => Carried(s))
  BY DEF Quiet, LiveOf, Carried
<1>2. AbsIssued' = AbsIssued
  BY DEF Quiet, AbsIssued
<1>3. \A s \in Tokens : /\ LiveOf(s) # {} => ~Carried(s)
                        /\ \A t1, t2 \in LiveOf(s) : t1 = t2
  BY DEF SessionInv, OneTokenPerSession, LiveOf, Carried
<1>4. ASSUME NEW s \in Tokens, LiveOf(s) # {} \/ Carried(s) PROVE origin[s].root = s
  <2>1. CASE Carried(s)
    BY <2>1 DEF Carried, RootInv
  <2>2. CASE LiveOf(s) # {}
    <3>1. PICK t \in Tokens : Live(t) /\ origin[t].root = s
      BY <2>2 DEF LiveOf
    <3> QED BY <3>1 DEF RootInv, Live
  <2> QED BY <1>4, <2>1, <2>2
<1>5. ASSUME NEW s \in S
      PROVE  AbsPhase[s] \in {"open", "rotating"} /\ AbsPhase'[s] = "closed" /\ AbsCurrent'[s] = NoToken
  BY <1>1, <1>4, PhaseIs, PhaseNext
<1>6. ASSUME NEW s \in Tokens, s \notin S
      PROVE  AbsPhase'[s] = AbsPhase[s] /\ AbsCurrent'[s] = AbsCurrent[s]
  <2>1. Carried(s)' <=> Carried(s)
    BY <1>1, <1>3, <1>6
  <2>2. LiveOf(s)' = LiveOf(s)
    BY <1>1, <1>3, <1>6
  <2> QED BY <1>1, <2>1, <2>2, SameSession
<1>7. /\ AbsPhase' = [s \in Tokens |-> AbsPhase'[s]]
      /\ AbsCurrent' = [s \in Tokens |-> AbsCurrent'[s]]
  BY DEF AbsPhase, AbsCurrent
<1>8. S \in SUBSET Tokens
  OBVIOUS
<1> HIDE DEF S
<1>9. AbsPhase' = [s \in Tokens |-> IF s \in S THEN "closed" ELSE AbsPhase[s]]
  BY <1>5, <1>6, <1>7
<1>10. AbsCurrent' = [s \in Tokens |-> IF s \in S THEN NoToken ELSE AbsCurrent[s]]
  BY <1>5, <1>6, <1>7
<1> QED BY <1>2, <1>5, <1>8, <1>9, <1>10 DEF Register!Close

\* Issue opens a session or finishes a rotation.
LEMMA IssueRegister ==
  ASSUME TypeInv, SessionInv, RootInv, NEW r \in Reqs, NEW t \in Tokens, Issue(r, t)
  PROVE  \E s, x \in Tokens : Register!Open(s, x) \/ Register!FinishRotation(s, x)
<1>1. /\ origin'[t].root \in Tokens /\ tstate[t] = "FREE"
      /\ (origin'[t].root = t /\ ~Carried(t)) \/ (Carries(r, origin'[t].root) /\ origin'[t].root # t)
      /\ \A x \in Tokens \ {t} : origin'[x] = origin[x] /\ tstate'[x] = tstate[x]
      /\ tstate'[t] = "LIVE"
      /\ \A q \in Reqs, x \in Tokens : Carries(q, x)' <=> q # r /\ Carries(q, x)
      /\ \A x \in Tokens : Carries(r, x) => x = origin'[t].root
  BY Issued
<1>2. PICK s \in Tokens : origin'[t].root = s
  BY <1>1
<1>0. /\ (s = t /\ ~Carried(t)) \/ (Carries(r, s) /\ s # t)
      /\ \A x \in Tokens : Carries(r, x) => x = s
  BY <1>1, <1>2
<1>3. LiveOf(s) = {}
  BY <1>0, <1>1 DEF SessionInv, OneTokenPerSession, RootsTaken, LiveOf, Live
<1>4. LiveOf(s)' = {t}
  BY <1>0, <1>1, <1>2, <1>3 DEF LiveOf, Live
<1>5. ASSUME NEW x \in Tokens, x # s PROVE AbsPhase'[x] = AbsPhase[x] /\ AbsCurrent'[x] = AbsCurrent[x]
  <2>1. LiveOf(x)' = LiveOf(x)
    BY <1>0, <1>1, <1>2, <1>5 DEF LiveOf, Live
  <2>2. Carried(x)' <=> Carried(x)
    BY <1>0, <1>1, <1>5 DEF Carried
  <2>3. (origin'[x].root = x) <=> (origin[x].root = x)
    <3>1. CASE x = t
      BY <1>0, <1>1, <1>2, <1>5, <3>1, NoneAssumption DEF RootInv
    <3>2. CASE x # t
      BY <1>0, <1>1, <3>2
    <3> QED BY <3>1, <3>2
  <2> QED BY <2>1, <2>2, <2>3, SameSession
<1>6. AbsPhase'[s] = "open" /\ AbsCurrent'[s] = t
  BY <1>0, <1>1, <1>4, PhaseNext
<1>7. AbsPhase[s] \in {"unopened", "rotating"}
  <2>1. CASE s = t /\ ~Carried(t)
    <3>1. origin[s].root # s
      BY <1>0, <1>1, <2>1, NoneAssumption DEF RootInv
    <3> QED BY <1>0, <1>1, <1>3, <2>1, <3>1, PhaseIs
  <2>2. CASE Carries(r, s)
    BY <1>0, <1>1, <1>3, <2>2, PhaseIs DEF Carried
  <2> QED BY <1>0, <1>1, <2>1, <2>2
<1>8. t \notin AbsIssued /\ AbsIssued' = AbsIssued \cup {t}
  BY <1>0, <1>1 DEF AbsIssued
<1>9. /\ AbsPhase' = [x \in Tokens |-> AbsPhase'[x]] /\ AbsPhase = [x \in Tokens |-> AbsPhase[x]]
      /\ AbsCurrent' = [x \in Tokens |-> AbsCurrent'[x]] /\ AbsCurrent = [x \in Tokens |-> AbsCurrent[x]]
  BY DEF AbsPhase, AbsCurrent
<1>10. AbsPhase' = [AbsPhase EXCEPT ![s] = "open"] /\ AbsCurrent' = [AbsCurrent EXCEPT ![s] = t]
  BY <1>0, <1>1, <1>5, <1>6, <1>9
<1> QED BY <1>0, <1>1, <1>7, <1>8, <1>10 DEF Register!Open, Register!FinishRotation, Register!Hand

\* The updateMany that consumes a token begins a rotation.
LEMMA RotateRegister ==
  ASSUME TypeInv, SessionInv, NEW r \in Reqs, RefreshRotate(r)
  PROVE  \E s \in Tokens : Register!BeginRotation(s)
<1>1. PICK t \in Tokens :
         /\ Live(t) /\ tstate'[t] = "REVOKED" /\ origin[t].root \in Tokens
         /\ \A x \in Tokens \ {t} : tstate'[x] = tstate[x]
         /\ origin' = origin
         /\ Carries(r, origin[t].root)'
         /\ \A q \in Reqs, x \in Tokens \ {origin[t].root} : Carries(q, x)' => Carries(q, x)
         /\ \A q \in Reqs, x \in Tokens \ {origin[t].root} : Carries(q, x) => Carries(q, x)'
  BY Rotated
<1>2. PICK s \in Tokens : s = origin[t].root
  BY <1>1
<1>3. LiveOf(s) # {} /\ LiveOf(s)' = {}
  BY <1>1, <1>2 DEF SessionInv, OneTokenPerSession, LiveOf, Live
<1>4. Carried(s)'
  BY <1>1, <1>2 DEF Carried
<1>5. ASSUME NEW x \in Tokens, x # s PROVE AbsPhase'[x] = AbsPhase[x] /\ AbsCurrent'[x] = AbsCurrent[x]
  <2>1. LiveOf(x)' = LiveOf(x)
    BY <1>1, <1>2, <1>5 DEF LiveOf, Live
  <2>2. Carried(x)' <=> Carried(x)
    BY <1>1, <1>2, <1>5 DEF Carried
  <2> QED BY <1>1, <2>1, <2>2, SameSession
<1>6. AbsPhase[s] = "open" /\ AbsPhase'[s] = "rotating" /\ AbsCurrent'[s] = NoToken
  BY <1>3, <1>4, PhaseIs, PhaseNext
<1>7. AbsIssued' = AbsIssued
  <2>1. \A x \in Tokens : tstate'[x] = "FREE" <=> tstate[x] = "FREE"
    BY <1>1 DEF Live
  <2> QED BY <2>1 DEF AbsIssued
<1>8. /\ AbsPhase' = [x \in Tokens |-> AbsPhase'[x]] /\ AbsPhase = [x \in Tokens |-> AbsPhase[x]]
      /\ AbsCurrent' = [x \in Tokens |-> AbsCurrent'[x]] /\ AbsCurrent = [x \in Tokens |-> AbsCurrent[x]]
  BY DEF AbsPhase, AbsCurrent
<1>9. AbsPhase' = [AbsPhase EXCEPT ![s] = "rotating"] /\ AbsCurrent' = [AbsCurrent EXCEPT ![s] = NoToken]
  BY <1>5, <1>6, <1>8
<1> QED BY <1>6, <1>7, <1>9 DEF Register!BeginRotation

\* Requests, tokens and their races amount to a register of sessions that open once, rotate
\* one token at a time and never reopen, for any numbers of them.
THEOREM SessionsFormARegister == Spec => ImplementsSessionRegister
<1>1. TypeInv /\ SessionInv /\ SessionInv' /\ RootInv /\ [Next]_vars => [Register!Next]_(Register!vars)
  <2> SUFFICES ASSUME TypeInv, SessionInv, SessionInv', RootInv, [Next]_vars PROVE Register!Next
    OBVIOUS
  <2>1. CASE Quiet
    BY <2>1, QuietRegister DEF Register!Next
  <2>2. ASSUME NEW r \in Reqs, NEW t \in Tokens, Issue(r, t) PROVE Register!Next
    BY <2>2, IssueRegister DEF Register!Next
  <2>3. ASSUME NEW r \in Reqs, RefreshRotate(r) PROVE Register!Next
    BY <2>3, RotateRegister DEF Register!Next
  <2> QED BY <2>1, <2>2, <2>3, QuietActions
<1>2. Spec => [](TypeInv /\ SessionInv /\ RootInv)
  BY InitType, StepType, InitSession, StepSession, InitRoots, StepRoots, PTL DEF Spec
<1> QED BY <1>1, <1>2, InitRegister, PTL DEF Spec, ImplementsSessionRegister, Register!Spec

\* The same register, with what holds of every register.
Registers == INSTANCE SessionRegisterProofs WITH
  Sessions <- Tokens, phase <- AbsPhase, current <- AbsCurrent, issued <- AbsIssued

\* Whatever races there were, whoever failed and whoever revoked: a session that has ended,
\* by a log-out, by a failed refresh or with all of its user's, is never refreshed again, and
\* no refresh token that was used up becomes usable again.
THEOREM EndedSessionsStayEnded == Spec => Register!ClosedForGood /\ Register!UsedForGood
<1>1. Registers!RegisterAssumption
  BY NoneAssumption DEF Registers!RegisterAssumption
<1>2. Register!Init => Registers!RegisterInv
  <2>1. Register!Init => Registers!Init
    BY DEF Register!Init, Registers!Init
  <2> QED BY <2>1, Registers!RegisterStarts
<1>3. [Register!Next]_(Register!vars) => [Registers!Next]_(Registers!vars)
  BY DEF Register!Next, Registers!Next, Register!vars, Registers!vars, Register!Open, Registers!Open,
         Register!FinishRotation, Registers!FinishRotation, Register!Hand, Registers!Hand,
         Register!BeginRotation, Registers!BeginRotation, Register!Close, Registers!Close
<1>4. Registers!RegisterInv /\ [Register!Next]_(Register!vars) => Registers!RegisterInv'
  BY <1>1, <1>3, Registers!RegisterStep
<1>5. Registers!RegisterInv /\ [Register!Next]_(Register!vars) => Register!StayClosed /\ Register!StayUsed
  <2>1. Registers!RegisterInv /\ [Register!Next]_(Register!vars) => Registers!StayClosed /\ Registers!StayUsed
    BY <1>1, <1>3, Registers!RegisterNever
  <2> QED BY <2>1 DEF Register!StayClosed, Registers!StayClosed, Register!StayUsed, Registers!StayUsed
<1> QED BY <1>2, <1>4, <1>5, SessionsFormARegister, PTL
        DEF ImplementsSessionRegister, Register!Spec, Register!ClosedForGood, Register!UsedForGood

-----------------------------------------------------------------------------
(* Revocation of all of a user's tokens. *)

\* What a session of u must satisfy, be it in a live row or in a request's memory.
NotOutdated(o, u) ==
  /\ o.since <= passwordHash[u]
  /\ o.since < passwordHash[u] => o.spared \/ RevocationOwed(u)
  /\ ~o.totp => o.gen = o.since
NotDisabled(o, u) == status[u] = "INACTIVE" => o.spared \/ o.totp \/ RevocationOwed(u)

(***************************************************************************)
(* The two properties speak of live rows only; a rotation moves a session  *)
(* out of the table and back, so the invariant follows it through the      *)
(* requests.  A request about to rotate knows the owner of its token; one  *)
(* that still has to read the user's status need not satisfy NotDisabled.  *)
(***************************************************************************)
RevocationInv ==
  /\ \A t \in Tokens : Live(t) =>
       /\ NotOutdated(origin[t], owner[t])
       /\ NotDisabled(origin[t], owner[t])
       /\ Exists(owner[t])
  /\ \A r \in Reqs : job[r].pc \in {"reload", "issue"} =>
       /\ NotOutdated(job[r].origin, job[r].user)
       /\ job[r].pc = "issue" => NotDisabled(job[r].origin, job[r].user)
  /\ \A r \in Reqs : At(r, "rotate") => job[r].user = owner[job[r].token]
                                        /\ tstate[job[r].token] # "FREE"

LEMMA InitRevocation == Init => RevocationInv
  BY DEF Init, RevocationInv, Live, At, NoJob, Holding

\* A slot that changes while no revocation of its own is under way leaves owed what was.
LEMMA OwedStays ==
  ASSUME NEW r \in Reqs, \A q \in Reqs : q # r => job'[q] = job[q],
         ~At(r, "revoke"), cut \subseteq cut'
  PROVE  \A u \in Users : RevocationOwed(u) => RevocationOwed(u)'
  BY DEF RevocationOwed, At

\* A step that changes neither users nor tokens' sessions, and whose one slot ends up
\* holding a session that satisfies the invariant, keeps it.
LEMMA SlotRevocation ==
  ASSUME TypeInv, RevocationInv, NEW r \in Reqs,
         \A q \in Reqs : q # r => job'[q] = job[q],
         ~At(r, "revoke"), cut' = cut,
         UNCHANGED <<status, passwordHash, owner, origin>>,
         \A t \in Tokens : Live(t)' => Live(t),
         \A t \in Tokens : tstate'[t] = "FREE" <=> tstate[t] = "FREE",
         (job'[r].pc \in {"reload", "issue"}) => 
            /\ job'[r].user \in Users
            /\ NotOutdated(job'[r].origin, job'[r].user)
            /\ job'[r].pc = "issue" => NotDisabled(job'[r].origin, job'[r].user),
         job'[r].pc = "rotate" => /\ job'[r].token \in Tokens
                                  /\ job'[r].user = owner[job'[r].token]
                                  /\ tstate[job'[r].token] # "FREE"
  PROVE  RevocationInv'
<1>0. \A q \in Reqs : /\ job[q].pc # "idle" => job[q].user \in Users
                      /\ job[q].pc = "rotate" => job[q].token \in Tokens
  BY DEF TypeInv, JobInv
<1>1. \A t \in Tokens : Live(t) => owner[t] \in Users
  BY DEF TypeInv, OwnerInv, Live
<1>2. \A u \in Users : RevocationOwed(u) => RevocationOwed(u)'
  BY OwedStays
<1>3. \A t \in Tokens : Live(t)' =>
        NotOutdated(origin[t], owner[t])' /\ NotDisabled(origin[t], owner[t])' /\ Exists(owner[t])'
  BY <1>1, <1>2 DEF RevocationInv, NotOutdated, NotDisabled, Exists
<1>4. \A q \in Reqs : job'[q].pc \in {"reload", "issue"} =>
        /\ NotOutdated(job[q].origin, job[q].user)'
        /\ job'[q].pc = "issue" => NotDisabled(job[q].origin, job[q].user)'
  <2>1. SUFFICES ASSUME NEW q \in Reqs, job'[q].pc \in {"reload", "issue"}
                 PROVE  /\ NotOutdated(job[q].origin, job[q].user)'
                        /\ job'[q].pc = "issue" => NotDisabled(job[q].origin, job[q].user)'
    OBVIOUS
  <2>2. CASE q = r
    BY <1>2, <2>1, <2>2 DEF NotOutdated, NotDisabled
  <2>3. CASE q # r
    BY <1>0, <1>2, <2>1, <2>3 DEF RevocationInv, NotOutdated, NotDisabled
  <2> QED BY <2>2, <2>3
<1>5. \A q \in Reqs : At(q, "rotate")' => (job[q].user)' = (owner[job[q].token])'
                                           /\ tstate'[job'[q].token] # "FREE"
  BY <1>0 DEF RevocationInv, At
<1> QED BY <1>3, <1>4, <1>5 DEF RevocationInv

\* A request that ends, without having had a revocation to do, keeps it.
LEMMA LeaveRevocation ==
  ASSUME TypeInv, RevocationInv, NEW r \in Reqs, Leave(r), ~At(r, "revoke"), cut' = cut,
         UNCHANGED <<status, passwordHash, tokenVars>>
  PROVE  RevocationInv'
<1>1. job'[r].pc = "idle" /\ \A q \in Reqs : q # r => job'[q] = job[q]
  BY LeaveKeepsJobs, NoJobType DEF TypeInv
<1> QED BY <1>1, SlotRevocation DEF tokenVars, Live

\* Every action keeps every session within the reach of the revocations.
LEMMA StepRevocation == TypeInv /\ RevocationInv /\ [Next]_vars => RevocationInv'
<1> SUFFICES ASSUME TypeInv, RevocationInv, [Next]_vars PROVE RevocationInv'
  OBVIOUS
<1>0. /\ job \in [Reqs -> Job]
      /\ origin \in [Tokens -> Origin]
      /\ status \in [Users -> Statuses]
      /\ tstate \in [Tokens -> TokenStates]
      /\ owner \in [Tokens -> Users \cup {NoUser}]
      /\ passwordHash \in [Users -> Nat] /\ twoFASecret \in [Users -> Nat]
      /\ passed \in [Users -> SUBSET Nat]
      /\ cut \in SUBSET Users
      /\ \A t \in Tokens : origin[t].since \in Nat /\ (tstate[t] # "FREE" <=> owner[t] \in Users)
      /\ \A r \in Reqs : /\ job[r].pc \in PCs
                         /\ job[r].origin \in Origin
                         /\ job[r].origin.since \in Nat
                         /\ job[r].pc # "idle" => job[r].user \in Users
                         /\ job[r].pc = "rotate" => job[r].token \in Tokens
  BY JobType DEF TypeInv, TypeOK, JobInv, OwnerInv, Origin
<1>1. ASSUME NEW r \in Reqs, NEW u \in Users, LoginRead(r, u)
      PROVE  RevocationInv'
  <2> DEFINE o == Opening(u, passwordHash[u], FALSE)
             j == Holding("issue", u, o)
  <2>1. o \in Origin /\ o.gen = passwordHash[u] /\ o.since = passwordHash[u]
    BY <1>0, OpeningType, Zenon
  <2>2. At(r, "idle") /\ Enter(r, j) /\ cut' = cut
        /\ UNCHANGED <<status, passwordHash, tstate, owner, origin>>
    BY <1>1 DEF LoginRead, Accept, userVars, tokenVars
  <2>3. status[u] = "ACTIVE"
    BY <1>1 DEF LoginRead
  <2> HIDE DEF o
  <2>4. j \in Job /\ j.pc = "issue" /\ j.user = u /\ j.origin = o
    BY <2>1, HoldingType DEF PCs
  <2> HIDE DEF j
  <2>5. job'[r] = j /\ \A q \in Reqs : q # r => job'[q] = job[q]
    BY <1>0, <2>2, <2>4, EnterSlot
  <2>6. NotOutdated(o, u) /\ NotDisabled(o, u)
    BY <1>0, <2>1, <2>3 DEF NotOutdated, NotDisabled
  <2> QED BY <2>2, <2>4, <2>5, <2>6, SlotRevocation DEF Live, At
<1>2. ASSUME NEW r \in Reqs, NEW u \in Users, Verify2FARead(r, u)
      PROVE  RevocationInv'
  <2> PICK g \in passed[u] \cup {0} : Enter(r, Holding("issue", u, Opening(u, g, TRUE)))
    BY <1>2 DEF Verify2FARead
  <2> DEFINE o == Opening(u, g, TRUE)
             j == Holding("issue", u, o)
  <2>3. g \in Nat
    BY <1>0
  <2>1. o \in Origin /\ o.since = passwordHash[u] /\ (o.totp = TRUE)
    BY <1>0, <2>3, OpeningType, Zenon
  <2>2. At(r, "idle") /\ Enter(r, j) /\ cut' = cut
        /\ UNCHANGED <<status, passwordHash, tstate, owner, origin>>
    BY <1>2 DEF Verify2FARead, Accept, userVars, tokenVars
  <2> HIDE DEF o
  <2>4. j \in Job /\ j.pc = "issue" /\ j.user = u /\ j.origin = o
    BY <2>1, HoldingType DEF PCs
  <2> HIDE DEF j
  <2>5. job'[r] = j /\ \A q \in Reqs : q # r => job'[q] = job[q]
    BY <1>0, <2>2, <2>4, EnterSlot
  <2>6. NotOutdated(o, u) /\ NotDisabled(o, u)
    BY <1>0, <2>1, <2>3 DEF NotOutdated, NotDisabled
  <2> QED BY <2>2, <2>4, <2>5, <2>6, SlotRevocation DEF Live, At
<1>3. ASSUME NEW r \in Reqs, NEW u \in Users, Enable2FARead(r, u)
      PROVE  RevocationInv'
  <2> DEFINE j == Holding("enable", u, NoOrigin)
  <2>1. j \in Job /\ j.pc = "enable"
    BY OriginTypes, HoldingType DEF PCs
  <2>2. At(r, "idle") /\ Enter(r, j) /\ cut' = cut
        /\ UNCHANGED <<status, passwordHash, tstate, owner, origin>>
    BY <1>3 DEF Enable2FARead, Accept, userVars, tokenVars
  <2> HIDE DEF j
  <2>3. job'[r] = j /\ \A q \in Reqs : q # r => job'[q] = job[q]
    BY <1>0, <2>1, <2>2, EnterSlot
  <2> QED BY <2>1, <2>2, <2>3, SlotRevocation DEF Live, At
<1>4. ASSUME NEW r \in Reqs, NEW u \in Users, ResetPasswordUpdate(r, u)
      PROVE  RevocationInv'
  <2> DEFINE j == Holding("revoke", u, NoOrigin)
  <2>1. j \in Job /\ j.pc = "revoke" /\ j.user = u
    BY OriginTypes, HoldingType DEF PCs
  <2>2. /\ At(r, "idle") /\ Enter(r, j) /\ cut' = cut /\ UNCHANGED <<status, tstate, owner, origin>>
        /\ \A v \in Users : passwordHash'[v] >= passwordHash[v]
        /\ \A v \in Users : v # u => passwordHash'[v] = passwordHash[v]
    BY <1>4, <1>0 DEF ResetPasswordUpdate, AskRevoke, Accept, tokenVars
  <2> HIDE DEF j
  <2>3. job'[r] = j /\ \A q \in Reqs : q # r => job'[q] = job[q]
    BY <1>0, <2>1, <2>2, EnterSlot
  <2>4. RevocationOwed(u)' /\ \A v \in Users : RevocationOwed(v) => RevocationOwed(v)'
    BY <2>1, <2>2, <2>3, OwedStays DEF RevocationOwed, At
  <2>5. \A v \in Users : /\ passwordHash[v] \in Nat /\ passwordHash'[v] \in Nat
                         /\ passwordHash'[v] >= passwordHash[v]
                         /\ v # u => passwordHash'[v] = passwordHash[v]
    BY <1>0, <1>4, <2>2 DEF ResetPasswordUpdate
  <2>6. \A x \in Tokens : Live(x)' => /\ NotOutdated(origin[x], owner[x])'
                                     /\ NotDisabled(origin[x], owner[x])'
                                     /\ Exists(owner[x])'
    <3>1. SUFFICES ASSUME NEW x \in Tokens, Live(x)
                   PROVE  /\ NotOutdated(origin[x], owner[x])'
                          /\ NotDisabled(origin[x], owner[x])'
                          /\ Exists(owner[x])'
      BY <2>2 DEF Live
    <3>2. owner[x] \in Users /\ origin[x] \in Origin
      BY <1>0, <3>1 DEF Live
    <3>3. NotOutdated(origin[x], owner[x]) /\ NotDisabled(origin[x], owner[x]) /\ Exists(owner[x])
      BY <3>1 DEF RevocationInv
    <3>4. origin[x].since \in Nat
      BY <1>0
    <3>5. CASE owner[x] = u
      BY <2>2, <2>4, <2>5, <3>2, <3>3, <3>4, <3>5 DEF NotOutdated, NotDisabled, Exists
    <3>6. CASE owner[x] # u
      BY <2>2, <2>4, <2>5, <3>2, <3>3, <3>4, <3>6 DEF NotOutdated, NotDisabled, Exists
    <3> QED BY <3>5, <3>6
  <2>7. \A q \in Reqs : job'[q].pc \in {"reload", "issue"} =>
          /\ NotOutdated(job[q].origin, job[q].user)'
          /\ job'[q].pc = "issue" => NotDisabled(job[q].origin, job[q].user)'
    <3>1. SUFFICES ASSUME NEW q \in Reqs, job'[q].pc \in {"reload", "issue"}
                   PROVE  /\ NotOutdated(job[q].origin, job[q].user)'
                          /\ job'[q].pc = "issue" => NotDisabled(job[q].origin, job[q].user)'
      OBVIOUS
    <3>2. job'[q] = job[q]
      BY <2>1, <2>3, <3>1
    <3>3. job[q].user \in Users /\ job[q].origin \in Origin
      BY <1>0, <3>1, <3>2
    <3>4. /\ NotOutdated(job[q].origin, job[q].user)
          /\ job[q].pc = "issue" => NotDisabled(job[q].origin, job[q].user)
      BY <3>1, <3>2 DEF RevocationInv
    <3>5. job[q].origin.since \in Nat
      BY <1>0
    <3>6. CASE job[q].user = u
      BY <2>2, <2>4, <2>5, <3>2, <3>3, <3>4, <3>5, <3>6 DEF NotOutdated, NotDisabled
    <3>7. CASE job[q].user # u
      BY <2>2, <2>4, <2>5, <3>2, <3>3, <3>4, <3>5, <3>7 DEF NotOutdated, NotDisabled
    <3> QED BY <3>6, <3>7
  <2>8. \A q \in Reqs : At(q, "rotate")' => (job[q].user)' = (owner[job[q].token])'
                                             /\ tstate'[job'[q].token] # "FREE"
    BY <1>0, <2>1, <2>2, <2>3 DEF RevocationInv, At
  <2> QED BY <2>6, <2>7, <2>8 DEF RevocationInv
<1>5. ASSUME NEW r \in Reqs, NEW u \in Users, NEW s \in Statuses \ {"GONE"}, SetStatusUpdate(r, u, s)
      PROVE  RevocationInv'
  <2> DEFINE j == Holding("revoke", u, NoOrigin)
  <2>1. j \in Job /\ j.pc = "revoke" /\ j.user = u
    BY OriginTypes, HoldingType DEF PCs
  <2>2. At(r, "idle") /\ cut' = cut /\ UNCHANGED <<passwordHash, tstate, owner, origin>>
        /\ status'[u] = s /\ \A v \in Users : v # u => status'[v] = status[v]
    BY <1>5, <1>0 DEF SetStatusUpdate, Accept, tokenVars
  <2>3. IF s # "ACTIVE" THEN Enter(r, j) ELSE job' = job
    BY <1>5 DEF SetStatusUpdate, AskRevoke
  <2> HIDE DEF j
  <2>4. /\ \A q \in Reqs : q # r => job'[q] = job[q]
        /\ IF s # "ACTIVE" THEN job'[r] = j ELSE job'[r] = job[r]
    BY <1>0, <2>1, <2>3, EnterSlot
  <2>5. /\ s # "ACTIVE" => RevocationOwed(u)'
        /\ \A v \in Users : RevocationOwed(v) => RevocationOwed(v)'
    BY <2>1, <2>2, <2>4, OwedStays DEF RevocationOwed, At
  <2> QED BY <1>0, <2>1, <2>2, <2>4, <2>5
          DEF RevocationInv, NotOutdated, NotDisabled, Live, At, Exists
<1>6. ASSUME NEW r \in Reqs, NEW t \in Tokens, RefreshRead(r, t)
      PROVE  RevocationInv'
  <2> DEFINE j == [pc |-> "rotate", user |-> owner[t], token |-> t, origin |-> NoOrigin]
  <2>1. j \in Job /\ j.pc = "rotate" /\ j.user = owner[t] /\ j.token = t
    BY <1>0, OriginTypes DEF Job, PCs
  <2>2. At(r, "idle") /\ Enter(r, j) /\ cut' = cut /\ Live(t)
        /\ UNCHANGED <<status, passwordHash, tstate, owner, origin>>
    BY <1>6 DEF RefreshRead, Accept, userVars, tokenVars
  <2> HIDE DEF j
  <2>3. job'[r] = j /\ \A q \in Reqs : q # r => job'[q] = job[q]
    BY <1>0, <2>1, <2>2, EnterSlot
  <2> QED BY <2>1, <2>2, <2>3, SlotRevocation DEF Live, At
<1>7. ASSUME NEW r \in Reqs, NEW t \in Tokens, Issue(r, t)
      PROVE  RevocationInv'
  <2> DEFINE o == job[r].origin
             u == job[r].user
  <2>1. /\ At(r, "issue") /\ tstate[t] = "FREE" /\ Exists(u) /\ Leave(r) /\ cut' = cut
        /\ tstate' = [tstate EXCEPT ![t] = "LIVE"] /\ owner' = [owner EXCEPT ![t] = u]
        /\ origin' = [origin EXCEPT ![t] = IF o.root = NoToken THEN Rooted(o, t) ELSE o]
        /\ UNCHANGED <<status, passwordHash>>
    BY <1>7 DEF Issue, userVars
  <2>2. o \in Origin /\ u \in Users /\ NotOutdated(o, u) /\ NotDisabled(o, u)
    BY <1>0, <2>1 DEF RevocationInv, At
  <2>3. /\ origin'[t].gen = o.gen /\ origin'[t].since = o.since /\ origin'[t].spared = o.spared /\ origin'[t].totp = o.totp
        /\ owner'[t] = u
        /\ \A x \in Tokens : x # t => origin'[x] = origin[x] /\ owner'[x] = owner[x]
    BY <1>0, <2>1, <2>2, OriginTypes
  <2> HIDE DEF o, u
  <2>4. job'[r].pc = "idle" /\ \A q \in Reqs : q # r => job'[q] = job[q]
    BY <2>1, LeaveKeepsJobs, NoJobType DEF TypeInv
  <2>5. \A v \in Users : RevocationOwed(v) => RevocationOwed(v)'
    BY <2>1, <2>4, OwedStays DEF At
  <2>6. \A x \in Tokens : Live(x)' => /\ NotOutdated(origin[x], owner[x])'
                                     /\ NotDisabled(origin[x], owner[x])'
                                     /\ Exists(owner[x])'
    BY <1>0, <2>1, <2>2, <2>3, <2>5 DEF RevocationInv, NotOutdated, NotDisabled, Live, Exists
  <2>7. \A q \in Reqs : job'[q].pc \in {"reload", "issue"} =>
          /\ NotOutdated(job[q].origin, job[q].user)'
          /\ job'[q].pc = "issue" => NotDisabled(job[q].origin, job[q].user)'
    BY <1>0, <2>1, <2>4, <2>5 DEF RevocationInv, NotOutdated, NotDisabled
  <2>8. \A q \in Reqs : At(q, "rotate")' => (job[q].user)' = (owner[job[q].token])'
                                             /\ tstate'[job'[q].token] # "FREE"
    BY <1>0, <2>1, <2>3, <2>4 DEF RevocationInv, At
  <2> QED BY <2>6, <2>7, <2>8 DEF RevocationInv
<1>8. ASSUME NEW r \in Reqs, IssueRefused(r)
      PROVE  RevocationInv'
  BY <1>8, LeaveRevocation DEF IssueRefused, At, userVars, tokenVars
<1>9. ASSUME NEW r \in Reqs, RefreshRotate(r)
      PROVE  RevocationInv'
  <2> DEFINE t == job[r].token
             j == Holding("reload", job[r].user, origin[t])
  <2>1. /\ At(r, "rotate") /\ t \in Tokens /\ Live(t) /\ job[r].user \in Users
        /\ tstate' = [tstate EXCEPT ![t] = "REVOKED"] /\ Enter(r, j) /\ cut' = cut
        /\ UNCHANGED <<status, passwordHash, owner, origin>>
    BY <1>9, <1>0 DEF RefreshRotate, At, userVars
  <2>2. job[r].user = owner[t]
    BY <2>1 DEF RevocationInv
  <2> HIDE DEF t
  <2>3. j \in Job /\ j.pc = "reload" /\ j.user = owner[t] /\ j.origin = origin[t]
    BY <1>0, <2>1, <2>2, HoldingType DEF PCs
  <2> HIDE DEF j
  <2>4. job'[r] = j /\ \A q \in Reqs : q # r => job'[q] = job[q]
    BY <1>0, <2>1, <2>3, EnterSlot
  <2>5. NotOutdated(origin[t], owner[t])
    BY <2>1 DEF RevocationInv
  <2>6. \A x \in Tokens : (Live(x)' => Live(x)) /\ (tstate'[x] = "FREE" <=> tstate[x] = "FREE")
    BY <1>0, <2>1 DEF Live
  <2>7. owner[t] \in Users
    BY <2>1, <2>2
  <2> QED BY <2>1, <2>3, <2>4, <2>5, <2>6, <2>7, SlotRevocation DEF At
<1>10. ASSUME NEW r \in Reqs, RefreshBeaten(r)
      PROVE  RevocationInv'
  BY <1>10, LeaveRevocation DEF RefreshBeaten, At, userVars, tokenVars
<1>11. ASSUME NEW r \in Reqs, RefreshReload(r)
      PROVE  RevocationInv'
  <2> DEFINE j == Holding("issue", job[r].user, job[r].origin)
  <2>1. At(r, "reload") /\ status[job[r].user] = "ACTIVE" /\ Enter(r, j) /\ cut' = cut
        /\ UNCHANGED <<status, passwordHash, tstate, owner, origin>>
    BY <1>11 DEF RefreshReload, userVars, tokenVars
  <2>2. /\ j \in Job /\ j.pc = "issue" /\ j.user = job[r].user /\ j.origin = job[r].origin
        /\ job[r].user \in Users
    BY <1>0, <2>1, HoldingType DEF PCs, At
  <2> HIDE DEF j
  <2>3. job'[r] = j /\ \A q \in Reqs : q # r => job'[q] = job[q]
    BY <1>0, <2>1, <2>2, EnterSlot
  <2>4. NotOutdated(job[r].origin, job[r].user) /\ NotDisabled(job[r].origin, job[r].user)
    BY <2>1 DEF RevocationInv, NotDisabled, At
  <2> QED BY <2>1, <2>2, <2>3, <2>4, SlotRevocation DEF Live, At
<1>12. ASSUME NEW r \in Reqs, RefreshDenied(r)
      PROVE  RevocationInv'
  BY <1>12, LeaveRevocation DEF RefreshDenied, At, userVars, tokenVars
<1>13. ASSUME NEW r \in Reqs, Enable2FAWrite(r)
      PROVE  RevocationInv'
  BY <1>13, LeaveRevocation DEF Enable2FAWrite, At, userVars, tokenVars
<1>14. ASSUME NEW r \in Reqs, RevokeAll(r)
      PROVE  RevocationInv'
  <2> DEFINE u == job[r].user
  <2>1. /\ At(r, "revoke") /\ u \in Users /\ cut' = cut \ {u}
        /\ UNCHANGED <<status, passwordHash, owner, origin>>
        /\ \A t \in Tokens : Live(t)' => Live(t) /\ owner[t] # u
        /\ \A t \in Tokens : tstate'[t] = "FREE" <=> tstate[t] = "FREE"
    BY <1>14, <1>0 DEF RevokeAll, Live, At, userVars
  <2>2. \A q \in Reqs :
          \/ job'[q].pc = "idle"
          \/ job'[q] = job[q] /\ q # r /\ ~InMemory(q, u)
          \/ /\ job'[q].user = u /\ job'[q].pc \in {"reload", "issue"} /\ InMemory(q, u)
             /\ job'[q].origin = Spared(job[q].origin)
    <3>1. SUFFICES ASSUME NEW q \in Reqs
                   PROVE  \/ job'[q].pc = "idle"
                          \/ job'[q] = job[q] /\ q # r /\ ~InMemory(q, u)
                          \/ /\ job'[q].user = u /\ job'[q].pc \in {"reload", "issue"}
                             /\ InMemory(q, u)
                             /\ job'[q].origin = Spared(job[q].origin)
      OBVIOUS
    <3>2. CASE q # r /\ InMemory(q, u)
      <4>1. job'[q] = Holding(job[q].pc, u, Spared(job[q].origin))
        BY <1>14, <3>2 DEF RevokeAll
      <4>2. Spared(job[q].origin) \in Origin
        BY <1>0, OriginTypes
      <4> QED BY <1>0, <2>1, <3>2, <4>1, <4>2, HoldingType DEF InMemory
    <3>3. CASE q # r /\ ~InMemory(q, u)
      BY <1>14, <3>3 DEF RevokeAll
    <3>4. CASE q = r
      BY <1>14, <3>4, NoJobType DEF RevokeAll
    <3> QED BY <3>2, <3>3, <3>4
  <2>3. \A v \in Users : v # u /\ RevocationOwed(v) => RevocationOwed(v)'
    <3>1. SUFFICES ASSUME NEW v \in Users, v # u, NEW q \in Reqs, At(q, "revoke"), job[q].user = v
                   PROVE  job'[q] = job[q]
      BY <2>1 DEF RevocationOwed, At
    <3> QED BY <1>14, <3>1 DEF RevokeAll, InMemory, At
  <2> HIDE DEF u
  <2>4. \A x \in Tokens : Live(x)' => /\ NotOutdated(origin[x], owner[x])'
                                     /\ NotDisabled(origin[x], owner[x])'
                                     /\ Exists(owner[x])'
    BY <1>0, <2>1, <2>3 DEF RevocationInv, NotOutdated, NotDisabled, Live, Exists
  <2>5. \A q \in Reqs : job'[q].pc \in {"reload", "issue"} =>
          /\ NotOutdated(job[q].origin, job[q].user)'
          /\ job'[q].pc = "issue" => NotDisabled(job[q].origin, job[q].user)'
    <3>1. SUFFICES ASSUME NEW q \in Reqs, job'[q].pc \in {"reload", "issue"}
                   PROVE  /\ NotOutdated(job[q].origin, job[q].user)'
                          /\ job'[q].pc = "issue" => NotDisabled(job[q].origin, job[q].user)'
      OBVIOUS
    <3>2. CASE job'[q] = job[q] /\ q # r /\ ~InMemory(q, u)
      BY <1>0, <2>1, <2>3, <3>1, <3>2 DEF RevocationInv, NotOutdated, NotDisabled, InMemory
    <3>3. CASE /\ job'[q].user = u /\ job'[q].pc \in {"reload", "issue"} /\ InMemory(q, u)
               /\ job'[q].origin = Spared(job[q].origin)
      <4>1. /\ job'[q].origin.spared
            /\ job'[q].origin.gen = job[q].origin.gen
            /\ job'[q].origin.since = job[q].origin.since
            /\ job'[q].origin.totp = job[q].origin.totp
        BY <1>0, <3>3, OriginTypes
      <4>2. NotOutdated(job[q].origin, u)
        BY <3>3 DEF RevocationInv, InMemory
      <4> QED BY <2>1, <3>3, <4>1, <4>2 DEF NotOutdated, NotDisabled
    <3> QED BY <2>2, <3>1, <3>2, <3>3
  <2>6. \A q \in Reqs : At(q, "rotate")' => (job[q].user)' = (owner[job[q].token])'
                                             /\ tstate'[job'[q].token] # "FREE"
    BY <1>0, <2>1, <2>2 DEF RevocationInv, At
  <2> QED BY <2>4, <2>5, <2>6 DEF RevocationInv
<1>15. ASSUME NEW r \in Reqs, Fail(r)
      PROVE  RevocationInv'
  <2>1. CASE ~At(r, "revoke")
    BY <1>15, <2>1, LeaveRevocation DEF Fail, userVars
  <2>2. CASE At(r, "revoke")
    <3>1. job'[r].pc = "idle" /\ \A q \in Reqs : q # r => job'[q] = job[q]
      BY <1>15, LeaveKeepsJobs, NoJobType DEF Fail, TypeInv
    <3>2. \A v \in Users : RevocationOwed(v) => RevocationOwed(v)'
      BY <1>15, <2>2, <3>1 DEF Fail, RevocationOwed, At
    <3>3. UNCHANGED <<status, passwordHash, tstate, owner, origin>>
      BY <1>15 DEF Fail, userVars, tokenVars
    <3> QED BY <1>0, <3>1, <3>2, <3>3
            DEF RevocationInv, NotOutdated, NotDisabled, Live, At, Exists
  <2> QED BY <2>1, <2>2
<1>16. ASSUME NEW t \in Tokens, Logout(t)
      PROVE  RevocationInv'
  <2>1. /\ UNCHANGED <<status, passwordHash, owner, origin, job, cut>>
        /\ \A x \in Tokens : (Live(x)' => Live(x)) /\ (tstate'[x] = "FREE" <=> tstate[x] = "FREE")
    BY <1>16, <1>0 DEF Logout, Live, userVars
  <2> QED BY <1>0, <2>1 DEF RevocationInv, NotOutdated, NotDisabled, RevocationOwed, Live, At, Exists
<1>17. ASSUME NEW t \in Tokens, Expire(t)
      PROVE  RevocationInv'
  BY <1>17, <1>0 DEF RevocationInv, NotOutdated, NotDisabled, RevocationOwed, Live, At, Exists, Expire, userVars
<1>18. ASSUME NEW u \in Users, Setup2FA(u)
      PROVE  RevocationInv'
  BY <1>18, <1>0 DEF RevocationInv, NotOutdated, NotDisabled, RevocationOwed, Live, At, Exists, Setup2FA, tokenVars
<1>19. ASSUME NEW u \in Users, RemoveUser(u)
      PROVE  RevocationInv'
  <2>1. /\ UNCHANGED <<passwordHash, owner, origin, job, cut>>
        /\ status' = [status EXCEPT ![u] = "GONE"]
        /\ \A x \in Tokens : Live(x)' => Live(x) /\ owner[x] # u
        /\ \A x \in Tokens : tstate'[x] = "FREE" <=> tstate[x] = "FREE"
    BY <1>19, <1>0 DEF RemoveUser, Live
  <2> QED BY <1>0, <2>1 DEF RevocationInv, NotOutdated, NotDisabled, RevocationOwed, Live, At, Exists
<1>20. ASSUME NEW u \in Users, LoginAsks2FA(u)
       PROVE  RevocationInv'
  BY <1>20, <1>0 DEF RevocationInv, NotOutdated, NotDisabled, RevocationOwed, Live, At, Exists, LoginAsks2FA, tokenVars
<1>21. CASE UNCHANGED vars
  BY <1>21 DEF RevocationInv, NotOutdated, NotDisabled, RevocationOwed, Live, At, Exists, vars, userVars, tokenVars
<1> QED BY <1>1, <1>2, <1>3, <1>4, <1>5, <1>6, <1>7, <1>8, <1>9, <1>10,
            <1>11, <1>12, <1>13, <1>14, <1>15, <1>16, <1>17, <1>18, <1>19, <1>20, <1>21 DEF Next

\* A session resting on a password since reset was in some request's memory when the
\* reset's revocation ran, or was opened afterwards by the second step of a login whose
\* first step was earlier, or that revocation has not run to its end.
THEOREM PasswordResetEndsSessions == Spec => []OldPasswordSessionsEnd
<1>1. TypeInv /\ RevocationInv => OldPasswordSessionsEnd
  <2> SUFFICES ASSUME TypeInv, RevocationInv, NEW t \in Tokens, Live(t),
                      origin[t].gen < passwordHash[owner[t]]
               PROVE  origin[t].spared \/ RevocationOwed(owner[t]) \/ SecondStepSince(t)
    BY DEF OldPasswordSessionsEnd
  <2>1. NotOutdated(origin[t], owner[t])
    BY DEF RevocationInv
  <2>2. origin[t].gen \in Nat /\ origin[t].since \in Nat /\ passwordHash[owner[t]] \in Nat
    BY DEF TypeInv, TypeOK, OwnerInv, Live, Origin
  <2> QED BY <2>1, <2>2 DEF NotOutdated, SecondStepSince
<1> QED BY InitType, StepType, InitRevocation, StepRevocation, <1>1, PTL DEF Spec

\* A user who is not ACTIVE keeps a live token only through a request in flight at the
\* deactivation, through verify2FA, or while the revocation is unfinished.
THEOREM DeactivationEndsSessions == Spec => []InactiveUsersHaveNoSession
<1>1. TypeInv /\ RevocationInv => InactiveUsersHaveNoSession
  BY DEF TypeInv, TypeOK, OwnerInv, RevocationInv, NotDisabled, InactiveUsersHaveNoSession,
         Live, Exists, Statuses
<1> QED BY InitType, StepType, InitRevocation, StepRevocation, <1>1, PTL DEF Spec
-----------------------------------------------------------------------------
(* Two-factor enrolment. *)

\* A secret once stored is only ever replaced, so the one enable2FA found is still
\* there, if not the same, when it sets the flag.
SecretInv ==
  \A u \in Users :
    /\ twoFAEnabled[u] => twoFASecret[u] # 0
    /\ \A r \in Reqs : At(r, "enable") /\ job[r].user = u => twoFASecret[u] # 0

\* At the start nobody has a secret or the flag.
LEMMA InitSecret == Init => SecretInv
  BY NoJobType DEF Init, SecretInv, At

\* A request that is not about to enable 2FA leaves the invariant alone.
LEMMA SlotSecret ==
  ASSUME TypeInv, SecretInv, NEW r \in Reqs, NEW j \in Job, Enter(r, j),
         j.pc # "enable", UNCHANGED <<twoFASecret, twoFAEnabled>>
  PROVE  SecretInv'
  BY EnterSlot DEF TypeInv, JobInv, SecretInv, At

\* A request that takes up a session, or a revocation, is such a request.
LEMMA HoldSecret ==
  ASSUME TypeInv, SecretInv, NEW r \in Reqs, NEW u \in Users, NEW o \in Origin,
         NEW pc \in PCs \ {"enable"}, Enter(r, Holding(pc, u, o)),
         UNCHANGED <<twoFASecret, twoFAEnabled>>
  PROVE  SecretInv'
  BY HoldingType, SlotSecret

\* So is one that ends.
LEMMA LeaveSecret ==
  ASSUME TypeInv, SecretInv, NEW r \in Reqs, Leave(r), UNCHANGED <<twoFASecret, twoFAEnabled>>
  PROVE  SecretInv'
  BY NoJobType, SlotSecret DEF Leave

\* Every action keeps it.
LEMMA StepSecret == TypeInv /\ SecretInv /\ [Next]_vars => SecretInv'
<1> SUFFICES ASSUME TypeInv, SecretInv, [Next]_vars PROVE SecretInv'
  OBVIOUS
<1>0. \A r \in Reqs : /\ job[r].origin \in Origin
                      /\ job[r].pc # "idle" => job[r].user \in Users
                      /\ job[r].pc = "rotate" => job[r].token \in Tokens
  BY JobType DEF TypeInv, JobInv
<1>1. ASSUME NEW r \in Reqs, NEW u \in Users, LoginRead(r, u) \/ Verify2FARead(r, u)
      PROVE  SecretInv'
  <2>1. \A g \in Nat, b \in BOOLEAN : Opening(u, g, b) \in Origin
    BY OpeningType DEF TypeInv, TypeOK
  <2>2. PICK g \in Nat, b \in BOOLEAN : Enter(r, Holding("issue", u, Opening(u, g, b)))
    BY <1>1 DEF LoginRead, Verify2FARead, TypeInv, TypeOK
  <2> QED BY <1>1, <2>1, <2>2, HoldSecret DEF LoginRead, Verify2FARead, userVars, PCs
<1>2. ASSUME NEW r \in Reqs, NEW u \in Users, Enable2FARead(r, u)
      PROVE  SecretInv'
  <2> DEFINE j == Holding("enable", u, NoOrigin)
  <2>1. j \in Job /\ j.pc = "enable" /\ j.user = u
    BY OriginTypes, HoldingType DEF PCs
  <2>2. Enter(r, j) /\ twoFASecret[u] # 0 /\ UNCHANGED <<twoFASecret, twoFAEnabled>>
    BY <1>2 DEF Enable2FARead, userVars
  <2> HIDE DEF j
  <2> QED BY <2>1, <2>2, EnterSlot DEF TypeInv, JobInv, SecretInv, At
<1>3. ASSUME NEW r \in Reqs, NEW u \in Users, ResetPasswordUpdate(r, u)
      PROVE  SecretInv'
  BY <1>3, OriginTypes, HoldSecret DEF ResetPasswordUpdate, AskRevoke, PCs
<1>4. ASSUME NEW r \in Reqs, NEW u \in Users, NEW s \in Statuses, SetStatusUpdate(r, u, s)
      PROVE  SecretInv'
  <2>1. CASE s # "ACTIVE"
    BY <1>4, <2>1, OriginTypes, HoldSecret DEF SetStatusUpdate, AskRevoke, PCs
  <2>2. CASE s = "ACTIVE"
    BY <1>4, <2>2 DEF SetStatusUpdate, SecretInv, At
  <2> QED BY <2>1, <2>2
<1>5. ASSUME NEW r \in Reqs, NEW t \in Tokens, RefreshRead(r, t)
      PROVE  SecretInv'
  <2> DEFINE j == [pc |-> "rotate", user |-> owner[t], token |-> t, origin |-> NoOrigin]
  <2>1. j \in Job /\ j.pc # "enable"
    BY <1>5, OriginTypes DEF RefreshRead, Live, TypeInv, TypeOK, OwnerInv, Job, PCs
  <2>2. Enter(r, j) /\ UNCHANGED <<twoFASecret, twoFAEnabled>>
    BY <1>5 DEF RefreshRead, userVars
  <2> HIDE DEF j
  <2> QED BY <2>1, <2>2, SlotSecret
<1>6. ASSUME NEW r \in Reqs, RefreshRotate(r)
      PROVE  SecretInv'
  <2>1. job[r].user \in Users /\ origin[job[r].token] \in Origin
    BY <1>6, <1>0 DEF RefreshRotate, At, TypeInv, TypeOK
  <2> QED BY <1>6, <2>1, HoldSecret DEF RefreshRotate, userVars, PCs
<1>7. ASSUME NEW r \in Reqs, RefreshReload(r)
      PROVE  SecretInv'
  <2>1. job[r].user \in Users /\ job[r].origin \in Origin
    BY <1>7, <1>0 DEF RefreshReload, At
  <2> QED BY <1>7, <2>1, HoldSecret DEF RefreshReload, userVars, PCs
<1>8. ASSUME NEW r \in Reqs, NEW t \in Tokens, Issue(r, t)
      PROVE  SecretInv'
  BY <1>8, LeaveSecret DEF Issue, userVars
<1>9. ASSUME NEW r \in Reqs, IssueRefused(r) \/ RefreshBeaten(r) \/ RefreshDenied(r) \/ Fail(r)
      PROVE  SecretInv'
  BY <1>9, LeaveSecret DEF IssueRefused, RefreshBeaten, RefreshDenied, Fail, userVars
<1>10. ASSUME NEW r \in Reqs, Enable2FAWrite(r)
       PROVE  SecretInv'
  <2>1. job[r].user \in Users /\ twoFASecret[job[r].user] # 0
    BY <1>10, <1>0 DEF Enable2FAWrite, At, SecretInv
  <2>2. \A q \in Reqs : At(q, "enable")' => job'[q] = job[q]
    BY <1>10, LeaveKeepsJobs, NoJobType DEF Enable2FAWrite, At, TypeInv
  <2>3. \A u \in Users : twoFAEnabled'[u] => twoFAEnabled[u] \/ u = job[r].user
    BY <1>10, <2>1, Zenon DEF Enable2FAWrite, TypeInv, TypeOK
  <2>4. twoFASecret' = twoFASecret
    BY <1>10 DEF Enable2FAWrite
  <2> QED BY <2>1, <2>2, <2>3, <2>4, Zenon DEF SecretInv, At
<1>11. ASSUME NEW r \in Reqs, RevokeAll(r)
       PROVE  SecretInv'
  <2>1. \A q \in Reqs : job'[q].pc = "enable" => job'[q] = job[q]
    <3>1. SUFFICES ASSUME NEW q \in Reqs, job'[q].pc = "enable" PROVE job'[q] = job[q]
      OBVIOUS
    <3>2. CASE q # r /\ InMemory(q, job[r].user)
      <4>1. job'[q] = Holding(job[q].pc, job[q].user, Spared(job[q].origin))
        BY <1>11, <3>2 DEF RevokeAll, InMemory
      <4>2. job[q].user \in Users /\ Spared(job[q].origin) \in Origin /\ job[q].pc \in {"reload", "issue"}
        BY <1>0, <3>2, OriginTypes DEF InMemory
      <4> QED BY <3>1, <4>1, <4>2, HoldingType DEF PCs
    <3>3. CASE ~(q # r /\ InMemory(q, job[r].user))
      BY <1>11, <3>1, <3>3, NoJobType DEF RevokeAll
    <3> QED BY <3>2, <3>3
  <2>2. UNCHANGED <<twoFASecret, twoFAEnabled>>
    BY <1>11 DEF RevokeAll, userVars
  <2> QED BY <2>1, <2>2 DEF SecretInv, At
<1>12. ASSUME NEW u \in Users, Setup2FA(u)
       PROVE  SecretInv'
  <2>1. \A v \in Users : twoFASecret[v] # 0 => twoFASecret'[v] # 0
    BY <1>12 DEF Setup2FA, TypeInv, TypeOK
  <2>2. UNCHANGED <<twoFAEnabled, job>>
    BY <1>12 DEF Setup2FA
  <2> QED BY <2>1, <2>2, Zenon DEF SecretInv, At
<1>13. ASSUME NEW t \in Tokens, Logout(t) \/ Expire(t)
       PROVE  SecretInv'
  BY <1>13 DEF Logout, Expire, SecretInv, At, userVars
<1>14. ASSUME NEW u \in Users, RemoveUser(u)
       PROVE  SecretInv'
  BY <1>14 DEF RemoveUser, SecretInv, At
<1>15. ASSUME NEW u \in Users, LoginAsks2FA(u)
       PROVE  SecretInv'
  BY <1>15 DEF LoginAsks2FA, SecretInv, At
<1>16. CASE UNCHANGED vars
  BY <1>16 DEF vars, userVars, SecretInv, At
<1> QED BY <1>1, <1>2, <1>3, <1>4, <1>5, <1>6, <1>7, <1>8, <1>9, <1>10,
            <1>11, <1>12, <1>13, <1>14, <1>15, <1>16 DEF Next

\* verify2FA always finds a secret to check a code with, however set-up, confirmation,
\* deletion and failures interleave.
THEOREM EnrolmentHasASecret == Spec => []EnabledUsersHaveASecret
<1>1. SecretInv => EnabledUsersHaveASecret
  BY DEF SecretInv, EnabledUsersHaveASecret
<1> QED BY InitType, StepType, InitSecret, StepSecret, <1>1, PTL DEF Spec
=============================================================================
