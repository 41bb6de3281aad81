-------------------------------- MODULE Rbac --------------------------------
(***************************************************************************)
(* Who may do what: the RBAC tables, the Redis cache of effective          *)
(* permissions (PermissionResolverService), the guard in front of every    *)
(* endpoint (PermissionsGuard) and the operations that change the tables   *)
(* (RolesService, PermissionsService, and create and remove of             *)
(* OpsUsersService), each with the invalidation that follows it.           *)
(*                                                                         *)
(* A slot of Reqs is one administrative request; an action is what its     *)
(* handler does from one await to the next.  Cache writes are not awaited: *)
(* a slot of Fills is a SET on its way to Redis.                           *)
(***************************************************************************)
EXTENDS Naturals, FiniteSets

CONSTANTS Users, Roles, Perms,         \* ids of rows, never reused
          Super,                       \* the role named superadmin
          Manage, Assign, UserAdmin,   \* rbac:manage, role:assign, ops_user:create/delete
          Callers,                     \* the users who send administrative requests
          Reqs, Fills,
          NoUser, NoRole, NoPerm, Miss,
          Kinds,                       \* the operations a run has requests for
          AskUsers, AskRoles, AskPerms, \* bound: the rows those requests name
          InitUserRoles, InitRolePerms \* the tables a run starts from

AllKinds == {"assignRole", "removeRole", "grant", "ungrant", "createRole", "dropRole",
             "createPerm", "dropPerm", "createUser", "dropUser", "fail"}

ASSUME RolesAssumption == Super \in Roles /\ {Manage, Assign, UserAdmin} \subseteq Perms
ASSUME CallersAssumption == Callers \subseteq Users
ASSUME NullAssumption == NoUser \notin Users /\ NoRole \notin Roles /\ NoPerm \notin Perms
ASSUME TablesAssumption == /\ InitUserRoles \subseteq Users \X Roles
                           /\ InitRolePerms \subseteq Roles \X Perms
ASSUME RbacKindsAssumption == /\ Kinds \subseteq AllKinds
                             /\ AskUsers \subseteq Users
                             /\ AskRoles \subseteq Roles
                             /\ AskPerms \subseteq Perms

VARIABLES
  users, roles, perms,   \* the rows of the three entity tables
  userRoles, rolePerms,  \* ops_user_roles, ops_role_permissions
  cache,                 \* cache[u]: the entry authz:u in Redis, or Miss
  fills,                 \* SETs under way
  job,                   \* administrative requests under way
  excused                \* history: users whose stale entry no invalidation will reach

tables == <<users, roles, perms, userRoles, rolePerms>>
vars == <<tables, cache, fills, job, excused>>

Authzs == [roles : SUBSET Roles, perms : SUBSET Perms]

\* What getUserAuthz reads from the tables.
Authz(u) ==
  [roles |-> {r \in Roles : <<u, r>> \in userRoles},
   perms |-> {p \in Perms : \E r \in Roles : <<u, r>> \in userRoles /\ <<r, p>> \in rolePerms}]

Privileged == {Manage, Assign}

Members(role) == {u \in Users : <<u, role>> \in userRoles}
Existing == {u \in Users : users[u] = "there"}

NoFill == [user |-> NoUser, val |-> Miss]
NoReq == [kind |-> "none", caller |-> NoUser, user |-> NoUser, role |-> NoRole, perm |-> NoPerm]
NoJob == [pc |-> "idle", req |-> NoReq, need |-> {}, keys |-> {}, counted |-> {}]

PCs == {"idle", "read", "super", "perms", "count", "write", "attach", "members", "del"}
Requests ==
  [kind : AllKinds \cup {"none"}, caller : Users \cup {NoUser}, user : Users \cup {NoUser},
   role : Roles \cup {NoRole}, perm : Perms \cup {NoPerm}]
\* need: the permissions at stake; keys: the entries to delete; counted: the superadmins that
\* were counted, of whom the code keeps the number.
Job == [pc : PCs, req : Requests, need : SUBSET Perms, keys : SUBSET Users, counted : SUBSET Users]
RowStates == {"new", "there", "gone"}

TypeOK ==
  /\ users \in [Users -> RowStates]
  /\ roles \in [Roles -> RowStates]
  /\ perms \in [Perms -> RowStates]
  /\ userRoles \in SUBSET (Users \X Roles)
  /\ rolePerms \in SUBSET (Roles \X Perms)
  /\ cache \in [Users -> Authzs \cup {Miss}]
  /\ fills \in [Fills -> [user : Users, val : Authzs] \cup {NoFill}]
  /\ job \in [Reqs -> Job]
  /\ excused \in SUBSET Users

\* The operations a run creates rows with find them "new"; all others exist.
Created(kind) == IF kind \in Kinds THEN "new" ELSE "there"

Init ==
  /\ users = [u \in Users |->
       IF \E r \in Roles : <<u, r>> \in InitUserRoles THEN "there" ELSE Created("createUser")]
  /\ roles = [r \in Roles |->
       IF (\E u \in Users : <<u, r>> \in InitUserRoles) \/ (\E p \in Perms : <<r, p>> \in InitRolePerms)
       THEN "there" ELSE Created("createRole")]
  /\ perms = [p \in Perms |->
       IF p \in Privileged \cup {UserAdmin} \/ \E r \in Roles : <<r, p>> \in InitRolePerms
       THEN "there" ELSE Created("createPerm")]
  /\ userRoles = InitUserRoles
  /\ rolePerms = InitRolePerms
  /\ cache = [u \in Users |-> Miss]
  /\ fills = [f \in Fills |-> NoFill]
  /\ job = [r \in Reqs |-> NoJob]
  /\ excused = {}
-----------------------------------------------------------------------------
(* The resolver and its cache. *)

\* Mutant: what is sent off is the entry looked up before, not what the tables say.
LoadBack(u) == \/ UNCHANGED fills
               \/ \E f \in Fills : /\ fills[f] = NoFill
                                   /\ fills' = [fills EXCEPT ![f] = [user |-> u, val |-> cache[u]]]

\* The tables are read and a SET is sent off, or dropped (no client, Redis down).  A
\* miss was seen before, or GET failed: the entry may be there again by now.
Load(u) == \/ UNCHANGED fills
           \/ \E f \in Fills : /\ fills[f] = NoFill
                               /\ fills' = [fills EXCEPT ![f] = [user |-> u, val |-> Authz(u)]]

\* getUserAuthz(u) yields a.
Resolve(u, a) == \/ cache[u] # Miss /\ a = cache[u] /\ UNCHANGED fills
                 \/ a = Authz(u) /\ Load(u)

Answers(u) == {cache[u], Authz(u)} \ {Miss}

Stale(u) == cache[u] # Miss /\ cache[u] # Authz(u)
\* Authorizations of u other than the tables' that are in its entry or on their way to it.
OnTheirWay(u) == {fills[f].val : f \in {g \in Fills : fills[g].user = u}}
Outdated(u) == ({cache[u]} \cup OnTheirWay(u)) \ {Miss, Authz(u)}

\* PermissionsGuard of an endpoint that changes no table, or GET /auth/me.
AskGuard(u) == /\ Load(u)
               /\ fills' # fills
               /\ UNCHANGED <<tables, cache, job, excused>>

\* Mutant: the key of an entry does not name its user.
FillLandsForAll(f) ==
  /\ fills[f] # NoFill
  /\ cache' = [u \in Users |-> fills[f].val]
  /\ excused' = {u \in Users : fills[f].val # Authz(u)}
  /\ fills' = [fills EXCEPT ![f] = NoFill]
  /\ UNCHANGED <<tables, job>>

\* SET arrives.
FillLands(f) ==
  LET u == fills[f].user
      a == fills[f].val IN
  /\ fills[f] # NoFill
  /\ cache' = [cache EXCEPT ![u] = a]
  /\ excused' = IF a = Authz(u) THEN excused \ {u} ELSE excused \cup {u}
  /\ fills' = [fills EXCEPT ![f] = NoFill]
  /\ UNCHANGED <<tables, job>>

\* Mutant: entries are written without EX.
NeverExpires(u) == FALSE /\ UNCHANGED vars

\* The TTL of 60 seconds.
EntryExpires(u) ==
  /\ cache[u] # Miss
  /\ cache' = [cache EXCEPT ![u] = Miss]
  /\ excused' = excused \ {u}
  /\ UNCHANGED <<tables, fills, job>>
-----------------------------------------------------------------------------
(* Requests. *)

Enter(r, j) == job' = [job EXCEPT ![r] = j]
Goto(r, pc) == Enter(r, [job[r] EXCEPT !.pc = pc])
Leave(r) == Enter(r, NoJob)
Is(r, kind) == job[r].req.kind = kind

Required(kind) == CASE kind \in {"assignRole", "removeRole"} -> Assign
                    [] kind \in {"createUser", "dropUser"} -> UserAdmin
                    [] OTHER -> Manage

\* The arguments each endpoint takes.
Asks(kind, c) ==
  LET Req(us, rs, ps) ==
        [kind : {kind}, caller : {c}, user : us, role : rs, perm : ps] IN
  CASE kind \in {"assignRole", "removeRole"} -> Req(AskUsers, AskRoles, {NoPerm})
    [] kind \in {"grant", "ungrant"} -> Req({NoUser}, AskRoles, AskPerms)
    [] kind = "createRole" -> Req({NoUser}, Roles, {NoPerm})
    [] kind = "dropRole" -> Req({NoUser}, AskRoles, {NoPerm})
    [] kind \in {"createPerm", "dropPerm"} -> Req({NoUser}, {NoRole}, AskPerms)
    [] kind = "createUser" -> Req(AskUsers, AskRoles \cup {NoRole}, {NoPerm})
    [] kind = "dropUser" -> Req(AskUsers, {NoRole}, {NoPerm})

\* PermissionsGuard.canActivate lets the request through to its handler.
Admit(r, q) ==
  /\ job[r] = NoJob
  /\ \E a \in Answers(q.caller) :
       /\ Resolve(q.caller, a)
       /\ Super \in a.roles \/ Required(q.kind) \in a.perms
  /\ Enter(r, [NoJob EXCEPT !.pc = "read", !.req = q])
  /\ UNCHANGED <<tables, cache, excused>>

\* The handler's findUnique calls; what it found of the role is kept for the checks.
Read(r) ==
  LET q == job[r].req IN
  /\ job[r].pc = "read"
  /\ UNCHANGED <<tables, cache, fills, excused>>
  /\ \/ /\ q.kind = "assignRole"
        /\ users[q.user] = "there" /\ roles[q.role] = "there"
        /\ Enter(r, [job[r] EXCEPT !.pc = "super",
                                   !.need = {p \in Perms : <<q.role, p>> \in rolePerms}])
     \/ /\ q.kind = "removeRole"
        /\ roles[q.role] = "there"
        /\ Goto(r, IF q.role = Super THEN "super" ELSE "write")
     \/ /\ q.kind \in {"grant", "ungrant"}
        /\ roles[q.role] = "there" /\ perms[q.perm] = "there"
        /\ Enter(r, [job[r] EXCEPT !.pc = "super", !.need = {q.perm}])
     \/ /\ \/ q.kind = "dropRole" /\ roles[q.role] = "there"
           \/ q.kind = "dropPerm" /\ perms[q.perm] = "there"
           \/ q.kind = "dropUser" /\ users[q.user] = "there"
           \/ q.kind = "createRole" /\ roles[q.role] = "new"
           \/ q.kind = "createPerm" /\ perms[q.perm] = "new"
           \/ q.kind = "createUser" /\ users[q.user] = "new"
        /\ Goto(r, "write")

\* isSuperadmin(caller): a superadmin passes; anyone else is refused the superadmin role
\* and goes on to have permissions compared.
CheckSuper(r) ==
  LET q == job[r].req IN
  /\ job[r].pc = "super"
  /\ \E a \in Answers(q.caller) :
       /\ Resolve(q.caller, a)
       /\ \/ /\ Super \in a.roles
             /\ Goto(r, IF q.kind = "removeRole" THEN "count" ELSE "write")
          \/ /\ Super \notin a.roles
             /\ q.role # Super \/ q.kind \in {"grant", "ungrant"}
             /\ Goto(r, "perms")
          \/ /\ Super \notin a.roles
             /\ q.role = Super /\ q.kind \in {"assignRole", "removeRole"}
             /\ Leave(r)
  /\ UNCHANGED <<tables, cache, excused>>

\* Mutant: the caller need only hold the permissions at stake.
CheckHeldOnly(r) ==
  /\ job[r].pc = "perms"
  /\ \E a \in Answers(job[r].req.caller) :
       /\ Resolve(job[r].req.caller, a)
       /\ IF job[r].need \subseteq a.perms THEN Goto(r, "write") ELSE Leave(r)
  /\ UNCHANGED <<tables, cache, excused>>

\* getUserPermissions(caller): none of the permissions at stake is privileged, and the
\* caller holds them all.
CheckPerms(r) ==
  /\ job[r].pc = "perms"
  /\ \E a \in Answers(job[r].req.caller) :
       /\ Resolve(job[r].req.caller, a)
       /\ IF job[r].need \cap Privileged = {} /\ job[r].need \subseteq a.perms
          THEN Goto(r, "write") ELSE Leave(r)
  /\ UNCHANGED <<tables, cache, excused>>

\* Mutant: off by one.
CountNone(r) ==
  /\ job[r].pc = "count"
  /\ IF Cardinality(Members(Super)) < 1 THEN Leave(r)
     ELSE Enter(r, [job[r] EXCEPT !.pc = "write", !.counted = Members(Super)])
  /\ UNCHANGED <<tables, cache, fills, excused>>

\* removeRoleFromUser counts the superadmins.
CountSupers(r) ==
  /\ job[r].pc = "count"
  /\ IF Cardinality(Members(Super)) <= 1 THEN Leave(r)
     ELSE Enter(r, [job[r] EXCEPT !.pc = "write", !.counted = Members(Super)])
  /\ UNCHANGED <<tables, cache, fills, excused>>
-----------------------------------------------------------------------------
(* The writes.  A foreign or missing key makes the statement throw. *)

InvalidateUser(r) == Enter(r, [job[r] EXCEPT !.pc = "del", !.keys = {job[r].req.user}])
Unannounced(us) == excused' = excused \cup {u \in us : cache[u] # Miss}

\* A request of this kind is about to write.
Writes(r, kind) == job[r].pc = "write" /\ Is(r, kind)

AssignRole(r) ==
  LET q == job[r].req IN
  /\ Writes(r, "assignRole")
  /\ users[q.user] = "there" /\ roles[q.role] = "there"
  /\ userRoles' = userRoles \cup {<<q.user, q.role>>}
  /\ InvalidateUser(r)
  /\ UNCHANGED <<users, roles, perms, rolePerms, cache, fills, excused>>

RemoveRole(r) ==
  /\ Writes(r, "removeRole")
  /\ userRoles' = userRoles \ {<<job[r].req.user, job[r].req.role>>}
  /\ InvalidateUser(r)
  /\ UNCHANGED <<users, roles, perms, rolePerms, cache, fills, excused>>

Grant(r) ==
  LET q == job[r].req IN
  /\ Writes(r, "grant")
  /\ roles[q.role] = "there" /\ perms[q.perm] = "there"
  /\ rolePerms' = rolePerms \cup {<<q.role, q.perm>>}
  /\ Goto(r, "members")
  /\ UNCHANGED <<users, roles, perms, userRoles, cache, fills, excused>>

Ungrant(r) ==
  /\ Writes(r, "ungrant")
  /\ rolePerms' = rolePerms \ {<<job[r].req.role, job[r].req.perm>>}
  /\ Goto(r, "members")
  /\ UNCHANGED <<users, roles, perms, userRoles, cache, fills, excused>>

\* Deleting a role cascades to both link tables; the invalidation that follows looks
\* for the role's members.
DropRole(r) ==
  LET role == job[r].req.role IN
  /\ Writes(r, "dropRole")
  /\ roles[role] = "there"
  /\ roles' = [roles EXCEPT ![role] = "gone"]
  /\ userRoles' = {x \in userRoles : x[2] # role}
  /\ rolePerms' = {x \in rolePerms : x[1] # role}
  /\ Unannounced(Members(role))
  /\ Goto(r, "members")
  /\ UNCHANGED <<users, perms, cache, fills>>

DropPerm(r) ==
  LET perm == job[r].req.perm IN
  /\ Writes(r, "dropPerm")
  /\ perms[perm] = "there"
  /\ perms' = [perms EXCEPT ![perm] = "gone"]
  /\ rolePerms' = {x \in rolePerms : x[2] # perm}
  /\ Goto(r, "members")
  /\ UNCHANGED <<users, roles, userRoles, cache, fills, excused>>

\* OpsUsersService.remove leaves the cache alone.
DropUser(r) ==
  LET u == job[r].req.user IN
  /\ Writes(r, "dropUser")
  /\ users[u] = "there"
  /\ users' = [users EXCEPT ![u] = "gone"]
  /\ userRoles' = {x \in userRoles : x[1] # u}
  /\ Unannounced({u})
  /\ Leave(r)
  /\ UNCHANGED <<roles, perms, rolePerms, cache, fills>>

CreateRole(r) ==
  LET role == job[r].req.role IN
  /\ Writes(r, "createRole") /\ roles[role] = "new"
  /\ roles' = [roles EXCEPT ![role] = "there"]
  /\ Leave(r)
  /\ UNCHANGED <<users, perms, userRoles, rolePerms, cache, fills, excused>>

CreatePerm(r) ==
  LET perm == job[r].req.perm IN
  /\ Writes(r, "createPerm") /\ perms[perm] = "new"
  /\ perms' = [perms EXCEPT ![perm] = "there"]
  /\ Leave(r)
  /\ UNCHANGED <<users, roles, userRoles, rolePerms, cache, fills, excused>>

CreateUser(r) ==
  LET q == job[r].req IN
  /\ Writes(r, "createUser") /\ users[q.user] = "new"
  /\ users' = [users EXCEPT ![q.user] = "there"]
  /\ IF q.role = NoRole THEN Leave(r) ELSE Goto(r, "attach")
  /\ UNCHANGED <<roles, perms, userRoles, rolePerms, cache, fills, excused>>

\* OpsUsersService.create with a roleName: a second statement, skipped if there is no
\* such role, throwing if the new user is gone again; no invalidation.
AttachRole(r) ==
  LET q == job[r].req IN
  /\ job[r].pc = "attach"
  /\ IF roles[q.role] = "there" /\ users[q.user] = "there"
     THEN userRoles' = userRoles \cup {<<q.user, q.role>>} /\ Unannounced({q.user})
     ELSE UNCHANGED <<userRoles, excused>>
  /\ Leave(r)
  /\ UNCHANGED <<users, roles, perms, rolePerms, cache, fills>>

\* The row the statement needs is gone, or the one it inserts is there already.
WriteThrows(r) ==
  LET q == job[r].req IN
  /\ job[r].pc = "write"
  /\ \/ q.kind \in {"assignRole", "dropUser"} /\ users[q.user] # "there"
     \/ q.kind \in {"assignRole", "grant", "dropRole"} /\ roles[q.role] # "there"
     \/ q.kind \in {"grant", "dropPerm"} /\ perms[q.perm] # "there"
     \/ q.kind = "createRole" /\ roles[q.role] # "new"
     \/ q.kind = "createPerm" /\ perms[q.perm] # "new"
     \/ q.kind = "createUser" /\ users[q.user] # "new"
  /\ Leave(r)
  /\ UNCHANGED <<tables, cache, fills, excused>>
-----------------------------------------------------------------------------
(* The invalidations. *)

\* Mutant: permissions.remove invalidates the members of one role only.
ReachedByRole(r) == Members(job[r].req.role)

\* Whose entries invalidateRoleCache or invalidateAllCaches will delete.
Reached(r) == IF Is(r, "dropPerm") THEN Existing ELSE Members(job[r].req.role)

FindMembers(r) ==
  /\ job[r].pc = "members"
  /\ IF Reached(r) = {} THEN Leave(r)
     ELSE Enter(r, [job[r] EXCEPT !.pc = "del", !.keys = Reached(r)])
  /\ UNCHANGED <<tables, cache, fills, excused>>

DelLands(r) ==
  /\ job[r].pc = "del"
  /\ cache' = [u \in Users |-> IF u \in job[r].keys THEN Miss ELSE cache[u]]
  /\ excused' = excused \ job[r].keys
  /\ Leave(r)
  /\ UNCHANGED <<tables, fills>>

\* The entries a request has yet to invalidate.
Due(r) == CASE job[r].pc = "members" -> Reached(r)
            [] job[r].pc = "del" -> job[r].keys
            [] OTHER -> {}

\* RedisService.del swallows errors, a statement throws, or the instance dies.
Fail(r) ==
  /\ "fail" \in Kinds
  /\ job[r] # NoJob
  /\ excused' = excused \cup {u \in Due(r) : Stale(u)}
  /\ Leave(r)
  /\ UNCHANGED <<tables, cache, fills>>

Mutate(r) ==
  \/ Read(r) \/ CheckSuper(r) \/ CheckPerms(r) \/ CountSupers(r)
  \/ AssignRole(r) \/ RemoveRole(r) \/ Grant(r) \/ Ungrant(r)
  \/ DropRole(r) \/ DropPerm(r) \/ DropUser(r)
  \/ CreateRole(r) \/ CreatePerm(r) \/ CreateUser(r) \/ AttachRole(r) \/ WriteThrows(r) \/ FindMembers(r) \/ DelLands(r)

Next ==
  \/ \E r \in Reqs, k \in Kinds \ {"fail"}, c \in Callers : \E q \in Asks(k, c) : Admit(r, q)
  \/ \E r \in Reqs : Mutate(r) \/ Fail(r)
  \/ \E u \in Users : AskGuard(u) \/ EntryExpires(u)
  \/ \E f \in Fills : FillLands(f)

Spec == Init /\ [][Next]_vars

\* Redis expires entries and answers SETs; nobody is obliged to send requests.
FairSpec == /\ Spec
            /\ \A u \in Users : WF_vars(EntryExpires(u))
            /\ \A f \in Fills : WF_vars(FillLands(f))
-----------------------------------------------------------------------------
(* Properties. *)

\* An entry that differs from the tables will be deleted by a request under way, or was
\* written by a load that read before the change, or its DEL was lost, or the change is
\* one that invalidates nothing: no other operation leaves a stale entry behind.
StaleEntriesAreExplained ==
  \A u \in Users : Stale(u) => u \in excused \/ \E r \in Reqs : u \in Due(r)

\* The cache of permissions does no more than lag: an authorization that anybody is answered
\* is the user's own, now or before, and one that was dropped everywhere does not come back.
Lagging == INSTANCE LaggingRegister WITH
  Keys <- Users, Values <- Authzs, Absent <- Miss,
  value <- [u \in Users |-> Authz(u)],
  outdated <- [u \in Users |-> Outdated(u)]
ImplementsLaggingRegister == Lagging!Spec

\* When administration pauses, every user's permissions end up those of the tables: a
\* late SET or a lost DEL is undone by the TTL.
ChangesTakeEffect == <>[][UNCHANGED tables]_vars => <>[](\A u \in Users : ~Stale(u))

\* Requests of non-superadmins to assign a role, to change what a role grants or to delete one
\* never make more users hold a privileged permission, or one that no caller held, or the
\* superadmin role, from whatever caches they decide.  (createUser gives any role: not them.)
HeldAtFirst(u, p) == \E r \in Roles : <<u, r>> \in InitUserRoles /\ <<r, p>> \in InitRolePerms
Reserved == Privileged \cup {p \in Perms : \A c \in Callers : ~HeldAtFirst(c, p)}
AuthorityDoesNotSpread ==
  \A u \in Users : /\ \A p \in Authz(u).perms \cap Reserved : HeldAtFirst(u, p)
                   /\ <<u, Super>> \in userRoles => <<u, Super>> \in InitUserRoles

\* "Never allow removing the last superadmin - that would lock everyone out": while the last
\* one may be deleted, or the role, no removal of the role leaves nobody with it.  Two removals
\* at a time break this.
SuperadminRemains ==
  [][\A r \in Reqs : Writes(r, "removeRole") /\ job'[r].pc # "write" /\ Members(Super) # {}
                      => Members(Super)' # {}]_vars

\* What the count is good for, however many removals, deletions and other requests overlap: a
\* removal that leaves nobody with the role had counted somebody beside the user it is about,
\* and that one lost the role between its count and its delete.
LastRemovalWasOvertaken ==
  [][\A r \in Reqs :
       /\ Writes(r, "removeRole") /\ job'[r].pc # "write"
       /\ Members(Super) # {} /\ Members(Super)' = {}
       => \E u \in job[r].counted \ {job[r].req.user} : u \notin Members(Super)]_vars

\* roles.remove deletes first and invalidates afterwards so that no entry keeps the
\* role: its invalidation reaches every entry that names the role at that point.
RoleRemovalInvalidates ==
  [][\A r \in Reqs :
       /\ Is(r, "dropRole") /\ job[r].pc = "members" /\ job'[r].pc # "members"
       => \A u \in Users : cache[u] # Miss /\ job[r].req.role \in cache[u].roles
                            => u \in job'[r].keys]_vars
=============================================================================
