----------------------------- MODULE RbacProofs -----------------------------
(***************************************************************************)
(* What holds of the RBAC tables and the cache of permissions for any      *)
(* users, roles and permissions, any numbers of requests and cache writes  *)
(* under way, any operations, and any tables to start from.                *)
(***************************************************************************)
EXTENDS Rbac, FiniteSetTheorems, TLAPS

\* What a request under way has been asked for fits the point it has got to.
JobIsSound(j) ==
  /\ j \in Job
  /\ j.req.kind \in {"assignRole", "removeRole", "createUser", "dropUser"} => j.req.user \in Users
  /\ j.req.kind \in {"assignRole", "removeRole", "grant", "ungrant", "dropRole", "createRole"} => j.req.role \in Roles
  /\ j.req.kind \in {"grant", "ungrant", "createPerm", "dropPerm"} => j.req.perm \in Perms
  /\ j.pc # "idle" => j.req.caller \in Callers /\ j.req.kind \in Kinds
  /\ j.pc = "super" => j.req.kind \in {"assignRole", "removeRole", "grant", "ungrant"}
  /\ j.pc = "perms" => j.req.kind \in {"assignRole", "grant", "ungrant"}
  /\ j.pc \in {"super", "count"} /\ j.req.kind = "removeRole" => j.req.role = Super
  /\ j.pc = "count" => j.req.kind = "removeRole"
  /\ j.pc = "attach" => j.req.kind = "createUser" /\ j.req.role \in Roles
  /\ j.pc = "members" => j.req.kind \in {"grant", "ungrant", "dropRole", "dropPerm"}

\* The foreign key of ops_user_roles.
RolesHaveUsers == \A u \in Users, role \in Roles : <<u, role>> \in userRoles => users[u] = "there"

TypeInv == TypeOK /\ (\A r \in Reqs : JobIsSound(job[r])) /\ RolesHaveUsers

RbacInv == TypeInv /\ StaleEntriesAreExplained
-----------------------------------------------------------------------------
(* Requests and their slots. *)

\* Nothing under way is a sound job.
LEMMA NoJobIsSound == JobIsSound(NoJob) /\ NoJob.pc = "idle"
  BY DEF JobIsSound, NoJob, NoReq, Job, PCs, Requests

\* A job that moves on keeps its request.
LEMMA Moved ==
  ASSUME NEW j \in Job, NEW pc \in PCs
  PROVE  LET k == [j EXCEPT !.pc = pc] IN
         k \in Job /\ k.pc = pc /\ k.req = j.req /\ k.need = j.need /\ k.keys = j.keys
  BY DEF Job

\* A slot that takes a request up.
LEMMA Taken ==
  ASSUME NEW q \in Requests
  PROVE  LET k == [NoJob EXCEPT !.pc = "read", !.req = q] IN
         k \in Job /\ k.pc = "read" /\ k.req = q
  <1>1. NoJob \in Job
    BY NoJobIsSound DEF JobIsSound
  <1> QED BY <1>1 DEF Job, PCs

\* Entering a sound job leaves the others alone.
LEMMA Entered ==
  ASSUME TypeInv, NEW r \in Reqs, NEW j, JobIsSound(j), Enter(r, j)
  PROVE  /\ job' \in [Reqs -> Job] /\ (\A s \in Reqs : JobIsSound(job'[s]))
         /\ job'[r] = j /\ \A s \in Reqs \ {r} : job'[s] = job[s]
  <1>1. job \in [Reqs -> Job] /\ j \in Job
    BY DEF TypeInv, TypeOK, JobIsSound
  <1>2. job' = [job EXCEPT ![r] = j]
    BY DEF Enter
  <1>3. job' \in [Reqs -> Job] /\ job'[r] = j /\ \A s \in Reqs \ {r} : job'[s] = job[s]
    BY <1>1, <1>2
  <1>4. \A s \in Reqs : JobIsSound(job'[s])
    BY <1>3 DEF TypeInv
  <1> QED BY <1>3, <1>4

\* A request that ends.
LEMMA Left ==
  ASSUME TypeInv, NEW r \in Reqs, Leave(r)
  PROVE  /\ job' \in [Reqs -> Job] /\ (\A s \in Reqs : JobIsSound(job'[s]))
         /\ job'[r] = NoJob /\ \A s \in Reqs \ {r} : job'[s] = job[s]
  BY NoJobIsSound, Entered DEF Leave

\* A request that goes to a point which fits its kind.
LEMMA Gone ==
  ASSUME TypeInv, NEW r \in Reqs, NEW pc \in PCs \ {"idle"}, Goto(r, pc), job[r].pc # "idle",
         pc = "super" => job[r].req.kind \in {"assignRole", "removeRole", "grant", "ungrant"},
         pc = "perms" => job[r].req.kind \in {"assignRole", "grant", "ungrant"},
         pc \in {"super", "count"} /\ job[r].req.kind = "removeRole" => job[r].req.role = Super,
         pc = "count" => job[r].req.kind = "removeRole",
         pc = "attach" => job[r].req.kind = "createUser" /\ job[r].req.role \in Roles,
         pc = "members" => job[r].req.kind \in {"grant", "ungrant", "dropRole", "dropPerm"}
  PROVE  /\ job' \in [Reqs -> Job] /\ (\A s \in Reqs : JobIsSound(job'[s]))
         /\ job'[r].pc = pc /\ job'[r].req = job[r].req /\ job'[r].need = job[r].need
         /\ \A s \in Reqs \ {r} : job'[s] = job[s]
  <1> DEFINE k == [job[r] EXCEPT !.pc = pc]
  <1>1. JobIsSound(job[r]) /\ job[r] \in Job
    BY DEF TypeInv, JobIsSound
  <1>2. k \in Job /\ k.pc = pc /\ k.req = job[r].req /\ k.need = job[r].need /\ k.keys = job[r].keys
    BY <1>1, Moved
  <1>3. Enter(r, k)
    BY DEF Goto
  <1> HIDE DEF k
  <1>4. JobIsSound(k)
    BY <1>1, <1>2 DEF JobIsSound
  <1> QED BY <1>2, <1>3, <1>4, Entered

\* Entries are of users, and what the tables say of a user is an entry.
LEMMA AuthzType == \A u \in Users : Authz(u) \in Authzs
  BY DEF Authz, Authzs

\* What is sent off is an entry.
LEMMA LoadType ==
  ASSUME TypeInv, NEW u \in Users, Load(u)
  PROVE  /\ fills' \in [Fills -> [user : Users, val : Authzs] \cup {NoFill}]
         /\ \A f \in Fills : fills'[f] = fills[f] \/ fills'[f] = [user |-> u, val |-> Authz(u)]
  <1> DEFINE FillType == [user : Users, val : Authzs] \cup {NoFill}
             new == [user |-> u, val |-> Authz(u)]
  <1>1. fills \in [Fills -> FillType]
    BY DEF TypeInv, TypeOK
  <1>2. new \in FillType
    BY AuthzType
  <1>3. UNCHANGED fills \/ \E f \in Fills : fills' = [fills EXCEPT ![f] = new]
    BY DEF Load
  <1> HIDE DEF new, FillType
  <1>4. fills' \in [Fills -> FillType] /\ \A f \in Fills : fills'[f] = fills[f] \/ fills'[f] = new
    BY <1>1, <1>2, <1>3
  <1> QED BY <1>4 DEF new, FillType

\* The same of what getUserAuthz may send off.
LEMMA ResolveType ==
  ASSUME TypeInv, NEW u \in Users, NEW a, Resolve(u, a)
  PROVE  /\ fills' \in [Fills -> [user : Users, val : Authzs] \cup {NoFill}]
         /\ \A f \in Fills : fills'[f] = fills[f] \/ fills'[f] = [user |-> u, val |-> Authz(u)]
         /\ a = Authz(u) \/ (cache[u] # Miss /\ a = cache[u])
  BY LoadType DEF Resolve, TypeInv, TypeOK
-----------------------------------------------------------------------------
(* Types are kept. *)

\* A request of any kind has the arguments of its endpoint.
LEMMA AskedIsSound ==
  ASSUME NEW k \in Kinds \ {"fail"}, NEW c \in Callers, NEW q \in Asks(k, c)
  PROVE  /\ q \in Requests /\ q.kind = k /\ q.caller = c
         /\ JobIsSound([NoJob EXCEPT !.pc = "read", !.req = q])
  <1>1. k \in AllKinds \ {"fail"}
    BY RbacKindsAssumption
  <1>2. q \in Requests /\ q.kind = k /\ q.caller = c
    BY <1>1, RbacKindsAssumption, CallersAssumption DEF Asks, Requests, AllKinds
  <1>3. /\ k \in {"assignRole", "removeRole", "createUser", "dropUser"} => q.user \in Users
        /\ k \in {"assignRole", "removeRole", "grant", "ungrant", "dropRole", "createRole"} => q.role \in Roles
        /\ k \in {"grant", "ungrant", "createPerm", "dropPerm"} => q.perm \in Perms
    BY <1>1, RbacKindsAssumption DEF Asks
  <1> DEFINE j == [NoJob EXCEPT !.pc = "read", !.req = q]
  <1>5. j \in Job /\ j.pc = "read" /\ j.req = q
    BY <1>2, Taken
  <1> HIDE DEF j
  <1>6. JobIsSound(j)
    BY <1>2, <1>3, <1>5 DEF JobIsSound
  <1> QED BY <1>2, <1>6 DEF j

\* A step that changes at most the jobs and the cache.
LEMMA TablesStayTyped ==
  ASSUME TypeInv, UNCHANGED tables,
         job' \in [Reqs -> Job], \A r \in Reqs : JobIsSound(job'[r]),
         fills' \in [Fills -> [user : Users, val : Authzs] \cup {NoFill}],
         cache' \in [Users -> Authzs \cup {Miss}], excused' \in SUBSET Users
  PROVE  TypeInv'
  BY DEF TypeInv, TypeOK, RolesHaveUsers, tables

\* A request enters its handler and reads.
LEMMA AdmitTypes ==
  ASSUME TypeInv, NEW r \in Reqs, NEW k \in Kinds \ {"fail"}, NEW c \in Callers, NEW q \in Asks(k, c), Admit(r, q)
  PROVE  TypeInv'
  <1>0. q.caller = c /\ JobIsSound([NoJob EXCEPT !.pc = "read", !.req = q])
    BY AskedIsSound
  <1>1. q.caller \in Users
    BY <1>0, CallersAssumption
  <1>2. PICK a \in Answers(q.caller) : Resolve(q.caller, a)
    BY DEF Admit
  <1>3. fills' \in [Fills -> [user : Users, val : Authzs] \cup {NoFill}]
    BY <1>1, <1>2, ResolveType
  <1>4. job' \in [Reqs -> Job] /\ \A s \in Reqs : JobIsSound(job'[s])
    BY <1>0, Entered DEF Admit
  <1>5. cache' \in [Users -> Authzs \cup {Miss}] /\ excused' \in SUBSET Users
    BY DEF Admit, TypeInv, TypeOK
  <1> QED BY <1>3, <1>4, <1>5, TablesStayTyped DEF Admit

\* The reads of a handler.
LEMMA ReadMoves ==
  ASSUME TypeInv, NEW r \in Reqs, Read(r)
  PROVE  /\ job' \in [Reqs -> Job] /\ (\A s \in Reqs : JobIsSound(job'[s]))
         /\ job'[r].pc \in {"super", "write"} /\ job'[r].req = job[r].req
         /\ job[r].req.kind = "assignRole" =>
              job'[r].pc = "super" /\ job'[r].need = {p \in Perms : <<job[r].req.role, p>> \in rolePerms}
         /\ job[r].req.kind \in {"grant", "ungrant"} => job'[r].pc = "super" /\ job'[r].need = {job[r].req.perm}
         /\ job[r].req.kind = "removeRole" /\ job[r].req.role = Super => job'[r].pc = "super"
         /\ \A s \in Reqs \ {r} : job'[s] = job[s]
  <1> DEFINE q == job[r].req
  <1>1. JobIsSound(job[r]) /\ job[r].pc = "read" /\ job[r] \in Job
    BY DEF Read, TypeInv, JobIsSound
  <1>2. CASE /\ q.kind = "assignRole"
             /\ Enter(r, [job[r] EXCEPT !.pc = "super", !.need = {p \in Perms : <<q.role, p>> \in rolePerms}])
    <2> DEFINE need == {p \in Perms : <<q.role, p>> \in rolePerms}
               k == [job[r] EXCEPT !.pc = "super", !.need = need]
    <2>0. need \in SUBSET Perms /\ "super" \in PCs
      BY DEF PCs
    <2>1. k \in Job /\ k.pc = "super" /\ k.req = q /\ k.need = need
      <3> HIDE DEF need
      <3> QED BY <1>1, <2>0 DEF Job
    <2> HIDE DEF k
    <2>2. JobIsSound(k)
      BY <1>1, <1>2, <2>1 DEF JobIsSound
    <2>3. Enter(r, k)
      BY <1>2 DEF k
    <2> QED BY <1>2, <2>1, <2>2, <2>3, Entered
  <1>3. CASE /\ q.kind \in {"grant", "ungrant"}
             /\ Enter(r, [job[r] EXCEPT !.pc = "super", !.need = {q.perm}])
    <2> DEFINE need == {q.perm}
               k == [job[r] EXCEPT !.pc = "super", !.need = need]
    <2>0. need \in SUBSET Perms /\ "super" \in PCs
      BY <1>1, <1>3 DEF PCs, JobIsSound
    <2>1. k \in Job /\ k.pc = "super" /\ k.req = q /\ k.need = need
      <3> HIDE DEF need
      <3> QED BY <1>1, <2>0 DEF Job
    <2> HIDE DEF k
    <2>2. JobIsSound(k)
      BY <1>1, <1>3, <2>1 DEF JobIsSound
    <2>3. Enter(r, k)
      BY <1>3 DEF k
    <2> QED BY <1>3, <2>1, <2>2, <2>3, Entered
  <1>4. CASE q.kind = "removeRole" /\ Goto(r, IF q.role = Super THEN "super" ELSE "write")
    BY <1>1, <1>4, Gone DEF PCs
  <1>5. CASE q.kind \in {"dropRole", "dropPerm", "dropUser", "createRole", "createPerm", "createUser"} /\ Goto(r, "write")
    BY <1>1, <1>5, Gone DEF PCs
  <1> QED BY <1>2, <1>3, <1>4, <1>5 DEF Read

\* The checks of a handler.
LEMMA CheckSuperMoves ==
  ASSUME TypeInv, NEW r \in Reqs, CheckSuper(r)
  PROVE  /\ job' \in [Reqs -> Job] /\ (\A s \in Reqs : JobIsSound(job'[s]))
         /\ fills' \in [Fills -> [user : Users, val : Authzs] \cup {NoFill}]
         /\ \A s \in Reqs \ {r} : job'[s] = job[s]
         /\ \E a \in Answers(job[r].req.caller) :
              /\ Resolve(job[r].req.caller, a)
              /\ \/ job'[r] = NoJob
                 \/ /\ job'[r].req = job[r].req /\ job'[r].need = job[r].need
                    /\ \/ Super \in a.roles /\ job'[r].pc = IF job[r].req.kind = "removeRole" THEN "count" ELSE "write"
                       \/ /\ Super \notin a.roles /\ job'[r].pc = "perms"
                          /\ job[r].req.role # Super \/ job[r].req.kind \in {"grant", "ungrant"}
  <1> DEFINE q == job[r].req
  <1>1. JobIsSound(job[r]) /\ job[r].pc = "super" /\ q.caller \in Users
    BY CallersAssumption DEF CheckSuper, TypeInv, JobIsSound
  <1>2. PICK a \in Answers(q.caller) :
          /\ Resolve(q.caller, a)
          /\ \/ Super \in a.roles /\ Goto(r, IF q.kind = "removeRole" THEN "count" ELSE "write")
             \/ Super \notin a.roles /\ (q.role # Super \/ q.kind \in {"grant", "ungrant"}) /\ Goto(r, "perms")
             \/ Leave(r)
    BY DEF CheckSuper
  <1>3. fills' \in [Fills -> [user : Users, val : Authzs] \cup {NoFill}]
    BY <1>1, <1>2, ResolveType
  <1>4. CASE Super \in a.roles /\ Goto(r, IF q.kind = "removeRole" THEN "count" ELSE "write")
    <2>1. CASE q.kind = "removeRole"
      BY <1>1, <1>2, <1>3, <1>4, <2>1, Gone DEF PCs, JobIsSound
    <2>2. CASE q.kind # "removeRole"
      BY <1>1, <1>2, <1>3, <1>4, <2>2, Gone DEF PCs
    <2> QED BY <2>1, <2>2
  <1>5. CASE Super \notin a.roles /\ (q.role # Super \/ q.kind \in {"grant", "ungrant"}) /\ Goto(r, "perms")
    BY <1>1, <1>2, <1>3, <1>5, Gone, ZenonT(60) DEF PCs, JobIsSound
  <1>6. CASE Leave(r)
    BY <1>2, <1>3, <1>6, Left
  <1> QED BY <1>2, <1>4, <1>5, <1>6

\* The comparison of permissions.
LEMMA CheckPermsMoves ==
  ASSUME TypeInv, NEW r \in Reqs, CheckPerms(r)
  PROVE  /\ job' \in [Reqs -> Job] /\ (\A s \in Reqs : JobIsSound(job'[s]))
         /\ fills' \in [Fills -> [user : Users, val : Authzs] \cup {NoFill}]
         /\ \A s \in Reqs \ {r} : job'[s] = job[s]
         /\ \E a \in Answers(job[r].req.caller) :
              /\ Resolve(job[r].req.caller, a)
              /\ \/ job'[r] = NoJob
                 \/ /\ job'[r].pc = "write" /\ job'[r].req = job[r].req
                    /\ job[r].need \cap Privileged = {} /\ job[r].need \subseteq a.perms
  <1> DEFINE q == job[r].req
  <1>1. JobIsSound(job[r]) /\ job[r].pc = "perms" /\ q.caller \in Users
    BY CallersAssumption DEF CheckPerms, TypeInv, JobIsSound
  <1>2. PICK a \in Answers(q.caller) :
          /\ Resolve(q.caller, a)
          /\ \/ job[r].need \cap Privileged = {} /\ job[r].need \subseteq a.perms /\ Goto(r, "write")
             \/ Leave(r)
    BY DEF CheckPerms
  <1>3. fills' \in [Fills -> [user : Users, val : Authzs] \cup {NoFill}]
    BY <1>1, <1>2, ResolveType
  <1>4. CASE job[r].need \cap Privileged = {} /\ job[r].need \subseteq a.perms /\ Goto(r, "write")
    BY <1>1, <1>2, <1>3, <1>4, Gone DEF PCs
  <1>5. CASE Leave(r)
    BY <1>2, <1>3, <1>5, Left
  <1> QED BY <1>2, <1>4, <1>5

\* The count of superadmins.
LEMMA CountSupersMoves ==
  ASSUME TypeInv, NEW r \in Reqs, CountSupers(r)
  PROVE  /\ job' \in [Reqs -> Job] /\ (\A s \in Reqs : JobIsSound(job'[s]))
         /\ \A s \in Reqs \ {r} : job'[s] = job[s]
         /\ \/ job'[r] = NoJob
            \/ /\ job'[r].pc = "write" /\ job'[r].req = job[r].req
               /\ job'[r].counted = Members(Super) /\ ~(Cardinality(Members(Super)) <= 1)
  <1>1. JobIsSound(job[r]) /\ job[r].pc = "count" /\ job[r] \in Job
    BY DEF CountSupers, TypeInv, JobIsSound
  <1>2. CASE Leave(r)
    BY <1>2, Left
  <1>3. CASE /\ ~(Cardinality(Members(Super)) <= 1)
             /\ Enter(r, [job[r] EXCEPT !.pc = "write", !.counted = Members(Super)])
    <2> DEFINE k == [job[r] EXCEPT !.pc = "write", !.counted = Members(Super)]
    <2>1. Members(Super) \in SUBSET Users /\ "write" \in PCs
      BY DEF Members, PCs
    <2>2. k \in Job /\ k.pc = "write" /\ k.req = job[r].req /\ k.counted = Members(Super)
      BY <1>1, <2>1 DEF Job
    <2>3. Enter(r, k)
      BY <1>3
    <2> HIDE DEF k
    <2>4. JobIsSound(k)
      BY <1>1, <2>2 DEF JobIsSound
    <2> QED BY <1>3, <2>2, <2>3, <2>4, Entered
  <1> QED BY <1>2, <1>3 DEF CountSupers

\* A request that has entries to delete.
LEMMA Deleting ==
  ASSUME TypeInv, NEW r \in Reqs, NEW keys \in SUBSET Users, job[r].pc # "idle",
         Enter(r, [job[r] EXCEPT !.pc = "del", !.keys = keys])
  PROVE  /\ job' \in [Reqs -> Job] /\ (\A s \in Reqs : JobIsSound(job'[s]))
         /\ job'[r].pc = "del" /\ job'[r].req = job[r].req /\ job'[r].keys = keys
         /\ \A s \in Reqs \ {r} : job'[s] = job[s]
  <1> DEFINE k == [job[r] EXCEPT !.pc = "del", !.keys = keys]
  <1>1. JobIsSound(job[r]) /\ job[r] \in Job /\ "del" \in PCs
    BY DEF TypeInv, JobIsSound, PCs
  <1>2. k \in Job /\ k.pc = "del" /\ k.req = job[r].req /\ k.keys = keys
    BY <1>1 DEF Job
  <1> HIDE DEF k
  <1>3. JobIsSound(k)
    BY <1>1, <1>2 DEF JobIsSound
  <1>4. Enter(r, k)
    BY DEF k
  <1> QED BY <1>2, <1>3, <1>4, Entered

\* The look for members.
LEMMA FindMembersMoves ==
  ASSUME TypeInv, NEW r \in Reqs, FindMembers(r)
  PROVE  /\ job' \in [Reqs -> Job] /\ (\A s \in Reqs : JobIsSound(job'[s]))
         /\ \/ job'[r] = NoJob /\ Reached(r) = {}
            \/ job'[r].pc = "del" /\ job'[r].req = job[r].req /\ job'[r].keys = Reached(r)
         /\ \A s \in Reqs \ {r} : job'[s] = job[s]
  <1>1. Reached(r) \in SUBSET Users /\ job[r].pc # "idle"
    BY DEF Reached, Members, Existing, FindMembers
  <1>2. CASE Leave(r) /\ Reached(r) = {}
    BY <1>2, Left
  <1>3. CASE Enter(r, [job[r] EXCEPT !.pc = "del", !.keys = Reached(r)])
    <2> DEFINE keys == Reached(r)
    <2>1. keys \in SUBSET Users /\ Enter(r, [job[r] EXCEPT !.pc = "del", !.keys = keys])
      BY <1>1, <1>3
    <2>2. job'[r].keys = keys /\ job'[r].pc = "del" /\ job'[r].req = job[r].req
          /\ job' \in [Reqs -> Job] /\ (\A s \in Reqs : JobIsSound(job'[s])) /\ \A s \in Reqs \ {r} : job'[s] = job[s]
      <3> HIDE DEF keys
      <3> QED BY <1>1, <2>1, Deleting
    <2> QED BY <2>2
  <1> QED BY <1>2, <1>3 DEF FindMembers

\* A request that has changed the roles of a user.
LEMMA Invalidating ==
  ASSUME TypeInv, NEW r \in Reqs, job[r].pc = "write", job[r].req.kind \in {"assignRole", "removeRole"},
         InvalidateUser(r)
  PROVE  /\ job' \in [Reqs -> Job] /\ (\A s \in Reqs : JobIsSound(job'[s]))
         /\ job'[r].pc = "del" /\ job'[r].req = job[r].req /\ job'[r].keys = {job[r].req.user}
         /\ \A s \in Reqs \ {r} : job'[s] = job[s]
  <1> DEFINE keys == {job[r].req.user}
  <1>1. JobIsSound(job[r])
    BY DEF TypeInv
  <1>2. keys \in SUBSET Users /\ Enter(r, [job[r] EXCEPT !.pc = "del", !.keys = keys]) /\ job[r].pc # "idle"
    BY <1>1 DEF JobIsSound, InvalidateUser
  <1>3. /\ job'[r].keys = keys /\ job'[r].pc = "del" /\ job'[r].req = job[r].req
        /\ job' \in [Reqs -> Job] /\ (\A s \in Reqs : JobIsSound(job'[s])) /\ \A s \in Reqs \ {r} : job'[s] = job[s]
    <2> HIDE DEF keys
    <2> QED BY <1>2, Deleting
  <1> QED BY <1>3
-----------------------------------------------------------------------------
(* Why an entry may be stale, before and after a step. *)

\* The invalidations a request owes, point by point.
LEMMA DueSays ==
  ASSUME NEW r \in Reqs
  PROVE  /\ job[r].pc = "members" => Due(r) = Reached(r)
         /\ job[r].pc = "del" => Due(r) = job[r].keys
         /\ job[r].pc \notin {"members", "del"} => Due(r) = {}
  BY DEF Due

\* The same after a step.
LEMMA DueSaysNext ==
  ASSUME NEW r \in Reqs
  PROVE  /\ job'[r].pc = "members" => Due(r)' = Reached(r)'
         /\ job'[r].pc = "del" => Due(r)' = job'[r].keys
         /\ job'[r].pc \notin {"members", "del"} => Due(r)' = {}
  BY DEF Due

\* What the tables say of a user whose rows, and those of whose roles, are left alone.
LEMMA SameAuthz ==
  ASSUME NEW u \in Users,
         \A role \in Roles : <<u, role>> \in userRoles <=> <<u, role>> \in userRoles',
         \A role \in Roles, p \in Perms : <<u, role>> \in userRoles => (<<role, p>> \in rolePerms <=> <<role, p>> \in rolePerms')
  PROVE  Authz(u)' = Authz(u)
  <1>1. {role \in Roles : <<u, role>> \in userRoles} = {role \in Roles : <<u, role>> \in userRoles'}
    OBVIOUS
  <1>2. {p \in Perms : \E role \in Roles : <<u, role>> \in userRoles /\ <<role, p>> \in rolePerms}
         = {p \in Perms : \E role \in Roles : <<u, role>> \in userRoles' /\ <<role, p>> \in rolePerms'}
    OBVIOUS
  <1> QED BY <1>1, <1>2 DEF Authz

\* A step of a request that leaves tables and cache alone, and forgets no invalidation
\* without excusing the entry.
LEMMA QuietStep ==
  ASSUME RbacInv, NEW r \in Reqs, UNCHANGED <<tables, cache>>, excused \subseteq excused',
         \A s \in Reqs \ {r} : job'[s] = job[s],
         \A u \in Due(r) : Stale(u) => u \in excused' \/ u \in Due(r)'
  PROVE  StaleEntriesAreExplained'
  <1> SUFFICES ASSUME NEW u \in Users, Stale(u)' PROVE u \in excused' \/ \E s \in Reqs : u \in Due(s)'
    BY DEF StaleEntriesAreExplained
  <1>1. Stale(u)
    BY DEF Stale, Authz, tables
  <1>2. CASE u \in excused
    BY <1>2
  <1>3. CASE \E s \in Reqs : u \in Due(s)
    <2>1. PICK s \in Reqs : u \in Due(s)
      BY <1>3
    <2>2. CASE s = r
      BY <1>1, <2>1, <2>2
    <2>3. CASE s # r
      <3>1. Due(s)' = Due(s)
        BY <2>3 DEF Due, Reached, Is, Members, Existing, tables
      <3> QED BY <2>1, <3>1
    <2> QED BY <2>2, <2>3
  <1> QED BY <1>1, <1>2, <1>3 DEF RbacInv, StaleEntriesAreExplained

\* A write that touches only the users of hit, and sees to their entries.
LEMMA WriteStep ==
  ASSUME RbacInv, NEW r \in Reqs, NEW hit, UNCHANGED cache, excused \subseteq excused',
         \A s \in Reqs \ {r} : job'[s] = job[s],
         Due(r) = {},
         \A u \in Users \ hit : Authz(u)' = Authz(u),
         \A u \in Users \ hit, role \in Roles : <<u, role>> \in userRoles => <<u, role>> \in userRoles',
         \A u \in Users \ hit : users[u] = "there" => users'[u] = "there",
         \A u \in Users : u \in hit /\ cache[u] # Miss => u \in excused' \/ u \in Due(r)'
  PROVE  StaleEntriesAreExplained'
  <1> SUFFICES ASSUME NEW u \in Users, Stale(u)' PROVE u \in excused' \/ \E s \in Reqs : u \in Due(s)'
    BY DEF StaleEntriesAreExplained
  <1>1. CASE u \in hit
    BY <1>1 DEF Stale
  <1>2. CASE u \notin hit
    <2>1. Stale(u)
      BY <1>2 DEF Stale
    <2>2. u \in excused \/ \E s \in Reqs : u \in Due(s)
      BY <2>1 DEF RbacInv, StaleEntriesAreExplained
    <2>3. ASSUME NEW s \in Reqs, u \in Due(s) PROVE u \in Due(s)'
      <3>1. s # r /\ job'[s] = job[s] /\ JobIsSound(job[s])
        BY <2>3 DEF RbacInv, TypeInv
      <3>2. CASE job[s].pc = "del"
        BY <2>3, <3>1, <3>2, DueSays, DueSaysNext
      <3>3. CASE job[s].pc = "members"
        <4>1. u \in Reached(s)
          BY <2>3, <3>3, DueSays
        <4>2. CASE Is(s, "dropPerm")
          BY <1>2, <3>1, <3>3, <4>1, <4>2, DueSaysNext DEF Reached, Is, Existing
        <4>3. CASE ~Is(s, "dropPerm")
          <5>1. job[s].req.role \in Roles
            BY <3>1, <3>3, <4>3 DEF JobIsSound, Is
          <5> QED BY <1>2, <3>1, <3>3, <4>1, <4>3, <5>1, DueSaysNext DEF Reached, Is, Members
        <4> QED BY <4>2, <4>3
      <3> QED BY <2>3, <3>2, <3>3, DueSays
    <2> QED BY <2>2, <2>3
  <1> QED BY <1>1, <1>2
-----------------------------------------------------------------------------
(* Every step keeps the types and the explanation. *)

\* Tables before anything has happened, and an empty cache.
LEMMA InitHolds == Init => RbacInv
  <1> SUFFICES ASSUME Init PROVE RbacInv
    OBVIOUS
  <1>1. users \in [Users -> RowStates] /\ roles \in [Roles -> RowStates] /\ perms \in [Perms -> RowStates]
    BY DEF Init, RowStates, Created
  <1>2. userRoles \in SUBSET (Users \X Roles) /\ rolePerms \in SUBSET (Roles \X Perms)
    BY TablesAssumption DEF Init
  <1>3. job \in [Reqs -> Job] /\ \A r \in Reqs : JobIsSound(job[r])
    BY NoJobIsSound DEF Init, JobIsSound
  <1>4. RolesHaveUsers
    BY DEF RolesHaveUsers, Init
  <1>5. TypeInv
    BY <1>1, <1>2, <1>3, <1>4 DEF Init, TypeInv, TypeOK
  <1>6. StaleEntriesAreExplained
    BY DEF StaleEntriesAreExplained, Stale, Init
  <1> QED BY <1>5, <1>6 DEF RbacInv

\* A step before the write: nothing is due yet, and nothing is changed.
LEMMA CheckKeeps ==
  ASSUME RbacInv, NEW r \in Reqs, UNCHANGED <<tables, cache, excused>>, Due(r) = {},
         job' \in [Reqs -> Job], \A s \in Reqs : JobIsSound(job'[s]), \A s \in Reqs \ {r} : job'[s] = job[s],
         fills' \in [Fills -> [user : Users, val : Authzs] \cup {NoFill}]
  PROVE  RbacInv'
  <1>1. TypeInv'
    BY TablesStayTyped DEF RbacInv, TypeInv, TypeOK
  <1>2. StaleEntriesAreExplained'
    BY QuietStep
  <1> QED BY <1>1, <1>2 DEF RbacInv

\* Everything a request does before it writes.
LEMMA ChecksKeep ==
  ASSUME RbacInv, NEW r \in Reqs,
         \/ \E k \in Kinds \ {"fail"}, c \in Callers : \E q \in Asks(k, c) : Admit(r, q)
         \/ Read(r) \/ CheckSuper(r) \/ CheckPerms(r) \/ CountSupers(r) \/ WriteThrows(r)
  PROVE  RbacInv'
  <1> USE DEF RbacInv
  <1>0. fills \in [Fills -> [user : Users, val : Authzs] \cup {NoFill}]
    BY DEF TypeInv, TypeOK
  <1>1. CASE \E k \in Kinds \ {"fail"}, c \in Callers : \E q \in Asks(k, c) : Admit(r, q)
    <2>1. PICK k \in Kinds \ {"fail"}, c \in Callers : \E q \in Asks(k, c) : Admit(r, q)
      BY <1>1
    <2>2. PICK q \in Asks(k, c) : Admit(r, q)
      BY <2>1
    <2>3. Due(r) = {}
      BY <2>2, DueSays, NoJobIsSound DEF Admit
    <2>4. q.caller = c /\ JobIsSound([NoJob EXCEPT !.pc = "read", !.req = q])
      BY AskedIsSound
    <2>5. TypeInv' /\ \A s \in Reqs \ {r} : job'[s] = job[s]
      BY <2>2, <2>4, AdmitTypes, Entered DEF Admit
    <2>6. StaleEntriesAreExplained'
      BY <2>2, <2>3, <2>5, QuietStep DEF Admit
    <2> QED BY <2>5, <2>6
  <1>2. CASE Read(r)
    <2>1. Due(r) = {} /\ UNCHANGED <<tables, cache, excused>> /\ UNCHANGED fills
      BY <1>2, DueSays DEF Read
    <2> QED BY <1>0, <1>2, <2>1, ReadMoves, CheckKeeps
  <1>3. CASE CheckSuper(r)
    <2>1. Due(r) = {} /\ UNCHANGED <<tables, cache, excused>>
      BY <1>3, DueSays DEF CheckSuper
    <2> QED BY <1>3, <2>1, CheckSuperMoves, CheckKeeps
  <1>4. CASE CheckPerms(r)
    <2>1. Due(r) = {} /\ UNCHANGED <<tables, cache, excused>>
      BY <1>4, DueSays DEF CheckPerms
    <2> QED BY <1>4, <2>1, CheckPermsMoves, CheckKeeps
  <1>5. CASE CountSupers(r)
    <2>1. Due(r) = {} /\ UNCHANGED <<tables, cache, excused>> /\ UNCHANGED fills
      BY <1>5, DueSays DEF CountSupers
    <2> QED BY <1>0, <1>5, <2>1, CountSupersMoves, CheckKeeps
  <1>6. CASE WriteThrows(r)
    <2>1. Due(r) = {} /\ UNCHANGED <<tables, cache, excused>> /\ UNCHANGED fills /\ Leave(r)
      BY <1>6, DueSays DEF WriteThrows
    <2> QED BY <1>0, <2>1, Left, CheckKeeps
  <1> QED BY <1>1, <1>2, <1>3, <1>4, <1>5, <1>6

\* A role is given to a user, or taken away: the user's entry is due.
LEMMA UserRolesKeep ==
  ASSUME RbacInv, NEW r \in Reqs, AssignRole(r) \/ RemoveRole(r)
  PROVE  RbacInv'
  <1> USE DEF RbacInv
  <1> DEFINE q == job[r].req
  <1>1. /\ job[r].pc = "write" /\ q.kind \in {"assignRole", "removeRole"} /\ InvalidateUser(r)
        /\ UNCHANGED <<users, roles, perms, rolePerms, cache, fills, excused>>
    BY DEF AssignRole, RemoveRole, Writes, Is
  <1>2. JobIsSound(job[r]) /\ q.user \in Users /\ q.role \in Roles
    BY <1>1 DEF TypeInv, JobIsSound
  <1>3. /\ job' \in [Reqs -> Job] /\ (\A s \in Reqs : JobIsSound(job'[s]))
        /\ job'[r].pc = "del" /\ job'[r].keys = {q.user} /\ \A s \in Reqs \ {r} : job'[s] = job[s]
    BY <1>1, Invalidating
  <1>4. /\ userRoles \in SUBSET (Users \X Roles) /\ userRoles' \in SUBSET (Users \X Roles)
        /\ \A u \in Users, role \in Roles : u # q.user => (<<u, role>> \in userRoles <=> <<u, role>> \in userRoles')
        /\ \A u \in Users, role \in Roles : <<u, role>> \in userRoles' => <<u, role>> \in userRoles \/ users[u] = "there"
    BY <1>2 DEF AssignRole, RemoveRole, TypeInv, TypeOK
  <1>5. TypeInv'
    BY <1>1, <1>3, <1>4 DEF TypeInv, TypeOK, RolesHaveUsers
  <1>6. \A u \in Users \ {q.user} : Authz(u)' = Authz(u)
    BY <1>1, <1>4, SameAuthz
  <1>7. Due(r) = {} /\ Due(r)' = {q.user}
    BY <1>1, <1>3, DueSays, DueSaysNext
  <1>8. StaleEntriesAreExplained'
    <2> DEFINE hit == {q.user}
    <2>1. /\ \A u \in Users \ hit : Authz(u)' = Authz(u)
          /\ \A u \in Users \ hit, role \in Roles : <<u, role>> \in userRoles => <<u, role>> \in userRoles'
          /\ \A u \in Users \ hit : users[u] = "there" => users'[u] = "there"
          /\ \A u \in Users : u \in hit /\ cache[u] # Miss => u \in excused' \/ u \in Due(r)'
      BY <1>1, <1>4, <1>6, <1>7
    <2> HIDE DEF hit
    <2> QED BY <1>1, <1>3, <1>7, <2>1, WriteStep
  <1> QED BY <1>5, <1>8

\* A permission is given to a role, or taken away: the entries of its members are due.
LEMMA RolePermsKeep ==
  ASSUME RbacInv, NEW r \in Reqs, Grant(r) \/ Ungrant(r)
  PROVE  RbacInv'
  <1> USE DEF RbacInv
  <1> DEFINE q == job[r].req
  <1>1. /\ job[r].pc = "write" /\ q.kind \in {"grant", "ungrant"} /\ Goto(r, "members")
        /\ UNCHANGED <<users, roles, perms, userRoles, cache, fills, excused>>
    BY DEF Grant, Ungrant, Writes, Is
  <1>2. JobIsSound(job[r]) /\ q.role \in Roles /\ q.perm \in Perms
    BY <1>1 DEF TypeInv, JobIsSound
  <1>3. /\ job' \in [Reqs -> Job] /\ (\A s \in Reqs : JobIsSound(job'[s]))
        /\ job'[r].pc = "members" /\ job'[r].req = q /\ \A s \in Reqs \ {r} : job'[s] = job[s]
    BY <1>1, Gone DEF PCs
  <1>4. /\ rolePerms \in SUBSET (Roles \X Perms) /\ rolePerms' \in SUBSET (Roles \X Perms)
        /\ \A role \in Roles, p \in Perms : role # q.role => (<<role, p>> \in rolePerms <=> <<role, p>> \in rolePerms')
    BY <1>2 DEF Grant, Ungrant, TypeInv, TypeOK
  <1>5. TypeInv'
    BY <1>1, <1>3, <1>4 DEF TypeInv, TypeOK, RolesHaveUsers
  <1> DEFINE hit == Members(q.role)
  <1>6. ASSUME NEW u \in Users \ hit PROVE Authz(u)' = Authz(u)
    <2>1. <<u, q.role>> \notin userRoles
      BY <1>6 DEF Members
    <2> QED BY <1>1, <1>4, <2>1, SameAuthz
  <1>7. Due(r) = {} /\ Due(r)' = hit
    <2>1. Due(r)' = Reached(r)'
      BY <1>3, DueSaysNext
    <2>2. Reached(r)' = hit
      BY <1>1, <1>3 DEF Reached, Is, Members
    <2> QED BY <1>1, <2>1, <2>2, DueSays
  <1>8. StaleEntriesAreExplained'
    <2>1. /\ \A u \in Users \ hit : Authz(u)' = Authz(u)
          /\ \A u \in Users \ hit, role \in Roles : <<u, role>> \in userRoles => <<u, role>> \in userRoles'
          /\ \A u \in Users \ hit : users[u] = "there" => users'[u] = "there"
          /\ \A u \in Users : u \in hit /\ cache[u] # Miss => u \in excused' \/ u \in Due(r)'
      BY <1>1, <1>6, <1>7
    <2> HIDE DEF hit
    <2> QED BY <1>1, <1>3, <1>7, <2>1, WriteStep
  <1> QED BY <1>5, <1>8

\* A role is deleted with its links: the entries of its members are excused.
LEMMA DropRoleKeeps ==
  ASSUME RbacInv, NEW r \in Reqs, DropRole(r)
  PROVE  RbacInv'
  <1> USE DEF RbacInv
  <1> DEFINE role == job[r].req.role
             hit == Members(role)
  <1>1. /\ job[r].pc = "write" /\ job[r].req.kind = "dropRole" /\ Goto(r, "members")
        /\ UNCHANGED <<users, perms, cache, fills>>
        /\ excused' = excused \cup {u \in hit : cache[u] # Miss}
        /\ roles' = [roles EXCEPT ![role] = "gone"]
        /\ userRoles' = {x \in userRoles : x[2] # role} /\ rolePerms' = {x \in rolePerms : x[1] # role}
    BY DEF DropRole, Writes, Is, Unannounced
  <1>2. /\ job' \in [Reqs -> Job] /\ (\A s \in Reqs : JobIsSound(job'[s])) /\ \A s \in Reqs \ {r} : job'[s] = job[s]
    BY <1>1, Gone DEF PCs
  <1>3. /\ \A u \in Users, o \in Roles : <<u, o>> \in userRoles' <=> <<u, o>> \in userRoles /\ o # role
        /\ \A o \in Roles, p \in Perms : <<o, p>> \in rolePerms' <=> <<o, p>> \in rolePerms /\ o # role
    BY <1>1
  <1>4. /\ userRoles' \in SUBSET (Users \X Roles) /\ rolePerms' \in SUBSET (Roles \X Perms)
        /\ roles' \in [Roles -> RowStates] /\ excused' \in SUBSET Users
    BY <1>1 DEF TypeInv, TypeOK, RowStates, Members
  <1>5. TypeInv'
    BY <1>1, <1>2, <1>3, <1>4 DEF TypeInv, TypeOK, RolesHaveUsers
  <1>6. ASSUME NEW u \in Users \ hit PROVE Authz(u)' = Authz(u)
    <2>1. \A o \in Roles : <<u, o>> \in userRoles => o # role
      BY <1>6 DEF Members
    <2> QED BY <1>3, <2>1, SameAuthz
  <1>7. Due(r) = {}
    BY <1>1, DueSays
  <1>8. StaleEntriesAreExplained'
    <2>1. /\ \A u \in Users \ hit : Authz(u)' = Authz(u)
          /\ \A u \in Users \ hit, o \in Roles : <<u, o>> \in userRoles => <<u, o>> \in userRoles'
          /\ \A u \in Users \ hit : users[u] = "there" => users'[u] = "there"
          /\ \A u \in Users : u \in hit /\ cache[u] # Miss => u \in excused' \/ u \in Due(r)'
          /\ excused \subseteq excused'
      BY <1>1, <1>3, <1>6 DEF Members
    <2> HIDE DEF hit
    <2> QED BY <1>1, <1>2, <1>7, <2>1, WriteStep
  <1> QED BY <1>5, <1>8

\* A permission is deleted with its links: the entries of all existing users are due, and
\* nobody else has a role.
LEMMA DropPermKeeps ==
  ASSUME RbacInv, NEW r \in Reqs, DropPerm(r)
  PROVE  RbacInv'
  <1> USE DEF RbacInv
  <1> DEFINE perm == job[r].req.perm
             hit == Existing
  <1>1. /\ job[r].pc = "write" /\ job[r].req.kind = "dropPerm" /\ Goto(r, "members")
        /\ UNCHANGED <<users, roles, userRoles, cache, fills, excused>>
        /\ perms' = [perms EXCEPT ![perm] = "gone"] /\ rolePerms' = {x \in rolePerms : x[2] # perm}
    BY DEF DropPerm, Writes, Is
  <1>2. /\ job' \in [Reqs -> Job] /\ (\A s \in Reqs : JobIsSound(job'[s])) /\ \A s \in Reqs \ {r} : job'[s] = job[s]
        /\ job'[r].pc = "members" /\ job'[r].req = job[r].req
    BY <1>1, Gone DEF PCs
  <1>3. /\ rolePerms' \in SUBSET (Roles \X Perms) /\ perms' \in [Perms -> RowStates]
    BY <1>1 DEF TypeInv, TypeOK, RowStates
  <1>4. TypeInv'
    BY <1>1, <1>2, <1>3 DEF TypeInv, TypeOK, RolesHaveUsers
  <1>5. ASSUME NEW u \in Users \ hit PROVE Authz(u)' = Authz(u)
    <2>1. \A o \in Roles : <<u, o>> \notin userRoles
      BY <1>5 DEF Existing, TypeInv, RolesHaveUsers
    <2> QED BY <1>1, <2>1, SameAuthz
  <1>6. Due(r) = {} /\ Due(r)' = hit
    <2>1. Due(r)' = Reached(r)'
      BY <1>2, DueSaysNext
    <2>2. Reached(r)' = hit
      BY <1>1, <1>2 DEF Reached, Is, Existing
    <2> QED BY <1>1, <2>1, <2>2, DueSays
  <1>7. StaleEntriesAreExplained'
    <2>1. /\ \A u \in Users \ hit : Authz(u)' = Authz(u)
          /\ \A u \in Users \ hit, o \in Roles : <<u, o>> \in userRoles => <<u, o>> \in userRoles'
          /\ \A u \in Users \ hit : users[u] = "there" => users'[u] = "there"
          /\ \A u \in Users : u \in hit /\ cache[u] # Miss => u \in excused' \/ u \in Due(r)'
      BY <1>1, <1>5, <1>6
    <2> HIDE DEF hit
    <2> QED BY <1>1, <1>2, <1>6, <2>1, WriteStep
  <1> QED BY <1>4, <1>7

\* A user is deleted, or gets a first role behind the back of the resolver: the entry is
\* excused.
LEMMA UsersKeep ==
  ASSUME RbacInv, NEW r \in Reqs, DropUser(r) \/ AttachRole(r)
  PROVE  RbacInv'
  <1> USE DEF RbacInv
  <1> DEFINE q == job[r].req
             hit == {q.user}
  <1>1. /\ job[r].pc \in {"write", "attach"} /\ Leave(r) /\ UNCHANGED <<roles, perms, rolePerms, cache, fills>>
        /\ q.kind \in {"dropUser", "createUser"} /\ JobIsSound(job[r]) /\ q.user \in Users
    BY DEF DropUser, AttachRole, Writes, Is, TypeInv, JobIsSound
  <1>2. /\ job' \in [Reqs -> Job] /\ (\A s \in Reqs : JobIsSound(job'[s])) /\ \A s \in Reqs \ {r} : job'[s] = job[s]
    BY <1>1, Left
  <1>3. /\ users' \in [Users -> RowStates] /\ userRoles' \in SUBSET (Users \X Roles) /\ excused' \in SUBSET Users
        /\ excused \subseteq excused'
        /\ \A u \in Users \ hit : users'[u] = users[u]
        /\ \A u \in Users \ hit, o \in Roles : <<u, o>> \in userRoles <=> <<u, o>> \in userRoles'
        /\ \A u \in Users, o \in Roles : <<u, o>> \in userRoles' => users'[u] = "there"
        /\ \/ UNCHANGED <<users, userRoles>>
           \/ \A u \in hit : cache[u] # Miss => u \in excused'
    <2>1. CASE DropUser(r)
      <3>1. /\ users' = [users EXCEPT ![q.user] = "gone"] /\ userRoles' = {x \in userRoles : x[1] # q.user}
            /\ excused' = excused \cup {u \in {q.user} : cache[u] # Miss}
        BY <2>1 DEF DropUser, Unannounced
      <3>2. \A u \in Users, o \in Roles : <<u, o>> \in userRoles' <=> <<u, o>> \in userRoles /\ u # q.user
        BY <3>1
      <3> QED BY <1>1, <3>1, <3>2 DEF TypeInv, TypeOK, RowStates, RolesHaveUsers
    <2>2. CASE AttachRole(r) /\ roles[q.role] = "there" /\ users[q.user] = "there"
      <3>1. /\ userRoles' = userRoles \cup {<<q.user, q.role>>} /\ users' = users
            /\ excused' = excused \cup {u \in {q.user} : cache[u] # Miss} /\ q.role \in Roles
        BY <1>1, <2>2 DEF AttachRole, Unannounced, JobIsSound
      <3> QED BY <1>1, <2>2, <3>1 DEF TypeInv, TypeOK, RolesHaveUsers
    <2>3. CASE UNCHANGED <<users, userRoles, excused>>
      BY <2>3 DEF TypeInv, TypeOK, RolesHaveUsers
    <2> QED BY <2>1, <2>2, <2>3 DEF AttachRole
  <1>4. TypeInv'
    BY <1>1, <1>2, <1>3 DEF TypeInv, TypeOK, RolesHaveUsers
  <1>5. Due(r) = {}
    BY <1>1, DueSays
  <1>6. CASE UNCHANGED <<users, userRoles>>
    <2>1. UNCHANGED tables
      BY <1>1, <1>6 DEF tables
    <2> QED BY <1>1, <1>2, <1>3, <1>4, <1>5, <2>1, QuietStep
  <1>7. CASE \A u \in hit : cache[u] # Miss => u \in excused'
    <2>1. /\ \A u \in Users \ hit : Authz(u)' = Authz(u)
          /\ \A u \in Users \ hit, o \in Roles : <<u, o>> \in userRoles => <<u, o>> \in userRoles'
          /\ \A u \in Users \ hit : users[u] = "there" => users'[u] = "there"
          /\ \A u \in Users : u \in hit /\ cache[u] # Miss => u \in excused' \/ u \in Due(r)'
      BY <1>1, <1>3, <1>7, SameAuthz
    <2>2. StaleEntriesAreExplained'
      <3> HIDE DEF hit
      <3> QED BY <1>1, <1>2, <1>3, <1>5, <2>1, WriteStep
    <2> QED BY <1>4, <2>2
  <1> QED BY <1>3, <1>6, <1>7

\* New rows have no links.
LEMMA CreatesKeep ==
  ASSUME RbacInv, NEW r \in Reqs, CreateRole(r) \/ CreatePerm(r) \/ CreateUser(r)
  PROVE  RbacInv'
  <1> USE DEF RbacInv
  <1>1. /\ job[r].pc = "write" /\ UNCHANGED <<userRoles, rolePerms, cache, fills, excused>> /\ JobIsSound(job[r])
        /\ Leave(r) \/ (Goto(r, "attach") /\ job[r].req.kind = "createUser" /\ job[r].req.role # NoRole)
    BY DEF CreateRole, CreatePerm, CreateUser, Writes, Is, TypeInv
  <1>2. /\ job' \in [Reqs -> Job] /\ (\A s \in Reqs : JobIsSound(job'[s])) /\ \A s \in Reqs \ {r} : job'[s] = job[s]
    <2>1. CASE Leave(r)
      BY <2>1, Left
    <2>2. CASE Goto(r, "attach") /\ job[r].req.kind = "createUser" /\ job[r].req.role # NoRole
      <3>1. job[r].req.role \in Roles
        BY <1>1, <2>2 DEF JobIsSound, Job, Requests
      <3> QED BY <1>1, <2>2, <3>1, Gone DEF PCs
    <2> QED BY <1>1, <2>1, <2>2
  <1>3. /\ users' \in [Users -> RowStates] /\ roles' \in [Roles -> RowStates] /\ perms' \in [Perms -> RowStates]
        /\ \A u \in Users : users[u] = "there" => users'[u] = "there"
    BY DEF CreateRole, CreatePerm, CreateUser, TypeInv, TypeOK, RowStates
  <1>4. TypeInv'
    BY <1>1, <1>2, <1>3 DEF TypeInv, TypeOK, RolesHaveUsers
  <1>5. Due(r) = {}
    BY <1>1, DueSays
  <1>6. StaleEntriesAreExplained'
    <2> DEFINE hit == {}
    <2>1. /\ \A u \in Users \ hit : Authz(u)' = Authz(u)
          /\ \A u \in Users \ hit, o \in Roles : <<u, o>> \in userRoles => <<u, o>> \in userRoles'
          /\ \A u \in Users \ hit : users[u] = "there" => users'[u] = "there"
          /\ \A u \in Users : u \in hit /\ cache[u] # Miss => u \in excused' \/ u \in Due(r)'
      BY <1>1, <1>3 DEF Authz
    <2> HIDE DEF hit
    <2> QED BY <1>1, <1>2, <1>5, <2>1, WriteStep
  <1> QED BY <1>4, <1>6

\* The members found are those due.
LEMMA FindMembersKeeps ==
  ASSUME RbacInv, NEW r \in Reqs, FindMembers(r)
  PROVE  RbacInv'
  <1> USE DEF RbacInv
  <1>1. job[r].pc = "members" /\ UNCHANGED <<tables, cache, fills, excused>>
    BY DEF FindMembers
  <1>2. /\ job' \in [Reqs -> Job] /\ (\A s \in Reqs : JobIsSound(job'[s])) /\ \A s \in Reqs \ {r} : job'[s] = job[s]
        /\ \/ Reached(r) = {}
           \/ job'[r].pc = "del" /\ job'[r].keys = Reached(r)
    BY FindMembersMoves
  <1>3. TypeInv'
    BY <1>1, <1>2, TablesStayTyped DEF TypeInv, TypeOK
  <1>4. \A u \in Due(r) : u \in Due(r)'
    BY <1>1, <1>2, DueSays, DueSaysNext
  <1> QED BY <1>1, <1>2, <1>3, <1>4, QuietStep

\* A DEL leaves no entry to explain.
LEMMA DelLandsKeeps ==
  ASSUME RbacInv, NEW r \in Reqs, DelLands(r)
  PROVE  RbacInv'
  <1> USE DEF RbacInv
  <1>1. /\ job[r].pc = "del" /\ UNCHANGED <<tables, fills>> /\ Leave(r) /\ excused' = excused \ job[r].keys
        /\ cache' = [u \in Users |-> IF u \in job[r].keys THEN Miss ELSE cache[u]]
    BY DEF DelLands
  <1>2. /\ job' \in [Reqs -> Job] /\ (\A s \in Reqs : JobIsSound(job'[s])) /\ \A s \in Reqs \ {r} : job'[s] = job[s]
    BY <1>1, Left
  <1>3. cache' \in [Users -> Authzs \cup {Miss}] /\ excused' \in SUBSET Users /\ fills' = fills
    BY <1>1 DEF TypeInv, TypeOK
  <1>4. TypeInv'
    BY <1>1, <1>2, <1>3, TablesStayTyped DEF TypeInv, TypeOK
  <1>5. ASSUME NEW u \in Users, Stale(u)' PROVE u \in excused' \/ \E s \in Reqs : u \in Due(s)'
    <2>1. u \notin job[r].keys /\ Stale(u)
      BY <1>1, <1>5 DEF Stale, Authz, tables
    <2>2. CASE u \in excused
      BY <1>1, <2>1, <2>2
    <2>3. CASE \E s \in Reqs : u \in Due(s)
      <3>1. PICK s \in Reqs : u \in Due(s)
        BY <2>3
      <3>2. s # r
        BY <1>1, <2>1, <3>1, DueSays
      <3>3. Due(s)' = Due(s)
        BY <1>1, <1>2, <3>2 DEF Due, Reached, Is, Members, Existing, tables
      <3> QED BY <3>1, <3>3
    <2> QED BY <2>1, <2>2, <2>3 DEF StaleEntriesAreExplained
  <1> QED BY <1>4, <1>5 DEF StaleEntriesAreExplained

\* What a request that fails has not deleted is excused.
LEMMA FailKeeps ==
  ASSUME RbacInv, NEW r \in Reqs, Fail(r)
  PROVE  RbacInv'
  <1> USE DEF RbacInv
  <1>1. UNCHANGED <<tables, cache, fills>> /\ Leave(r) /\ excused' = excused \cup {u \in Due(r) : Stale(u)}
    BY DEF Fail
  <1>2. /\ job' \in [Reqs -> Job] /\ (\A s \in Reqs : JobIsSound(job'[s])) /\ \A s \in Reqs \ {r} : job'[s] = job[s]
    BY <1>1, Left
  <1>3. Due(r) \subseteq Users
    <2>1. job[r].keys \in SUBSET Users
      BY DEF TypeInv, JobIsSound, Job
    <2>2. Reached(r) \subseteq Users
      BY DEF Reached, Members, Existing
    <2> QED BY <2>1, <2>2, DueSays
  <1>4. excused' \in SUBSET Users /\ cache' \in [Users -> Authzs \cup {Miss}] /\ fills' = fills
    BY <1>1, <1>3 DEF TypeInv, TypeOK
  <1>5. TypeInv'
    BY <1>1, <1>2, <1>4, TablesStayTyped DEF TypeInv, TypeOK
  <1>6. excused \subseteq excused' /\ \A u \in Due(r) : Stale(u) => u \in excused'
    BY <1>1
  <1> QED BY <1>1, <1>2, <1>5, <1>6, QuietStep

\* What a request is about to invalidate depends on tables and requests alone.
LEMMA SameDues ==
  ASSUME UNCHANGED <<tables, job>>, NEW s \in Reqs
  PROVE  Due(s)' = Due(s)
  BY DEF Due, Reached, Is, Members, Existing, tables

\* Reads of the guard, late SETs and the TTL.
LEMMA CacheKeeps ==
  ASSUME RbacInv,
         \/ \E u \in Users : AskGuard(u) \/ EntryExpires(u)
         \/ \E f \in Fills : FillLands(f)
  PROVE  RbacInv'
  <1> USE DEF RbacInv
  <1>1. UNCHANGED <<tables, job>>
    BY DEF AskGuard, EntryExpires, FillLands
  <1>2. job' \in [Reqs -> Job] /\ \A s \in Reqs : JobIsSound(job'[s])
    BY <1>1 DEF TypeInv, TypeOK
  <1>3. CASE \E u \in Users : AskGuard(u)
    <2>1. PICK u \in Users : AskGuard(u)
      BY <1>3
    <2>2. /\ cache' \in [Users -> Authzs \cup {Miss}] /\ excused' \in SUBSET Users
          /\ fills' \in [Fills -> [user : Users, val : Authzs] \cup {NoFill}]
      BY <2>1, LoadType DEF AskGuard, TypeInv, TypeOK
    <2>3. TypeInv'
      BY <1>1, <1>2, <2>2, TablesStayTyped
    <2>4. StaleEntriesAreExplained'
      BY <1>1, <2>1, SameDues DEF AskGuard, StaleEntriesAreExplained, Stale, Authz, tables
    <2> QED BY <2>3, <2>4
  <1>4. CASE \E u \in Users : EntryExpires(u)
    <2>1. PICK u \in Users : EntryExpires(u)
      BY <1>4
    <2>2. cache' = [cache EXCEPT ![u] = Miss] /\ excused' = excused \ {u} /\ fills' = fills
      BY <2>1 DEF EntryExpires
    <2>3. TypeInv'
      BY <1>1, <1>2, <2>2, TablesStayTyped DEF TypeInv, TypeOK
    <2>4. ASSUME NEW v \in Users, Stale(v)' PROVE v \in excused' \/ \E s \in Reqs : v \in Due(s)'
      <3>1. v # u /\ Stale(v)
        BY <1>1, <2>2, <2>4 DEF Stale, Authz, tables, TypeInv, TypeOK
      <3> QED BY <1>1, <2>2, <3>1, SameDues DEF StaleEntriesAreExplained
    <2> QED BY <2>3, <2>4 DEF StaleEntriesAreExplained
  <1>5. CASE \E f \in Fills : FillLands(f)
    <2>1. PICK f \in Fills : FillLands(f)
      BY <1>5
    <2> DEFINE u == fills[f].user
               a == fills[f].val
    <2>2. fills[f] \in [user : Users, val : Authzs]
      BY <2>1 DEF FillLands, TypeInv, TypeOK
    <2>3. u \in Users /\ a \in Authzs
      BY <2>2
    <2>4. /\ cache' = [cache EXCEPT ![u] = a] /\ fills' = [fills EXCEPT ![f] = NoFill]
          /\ excused' = IF a = Authz(u) THEN excused \ {u} ELSE excused \cup {u}
      BY <2>1 DEF FillLands
    <2>5. /\ cache' \in [Users -> Authzs \cup {Miss}] /\ excused' \in SUBSET Users
          /\ fills' \in [Fills -> [user : Users, val : Authzs] \cup {NoFill}]
      <3> HIDE DEF u, a
      <3> QED BY <2>3, <2>4 DEF TypeInv, TypeOK
    <2>6. TypeInv'
      BY <1>1, <1>2, <2>5, TablesStayTyped
    <2>7. ASSUME NEW v \in Users, Stale(v)' PROVE v \in excused' \/ \E s \in Reqs : v \in Due(s)'
      <3>1. Authz(v)' = Authz(v) /\ cache \in [Users -> Authzs \cup {Miss}]
        BY <1>1 DEF Authz, tables, TypeInv, TypeOK
      <3>2. CASE v = u
        <4>1. cache'[u] = a /\ a # Authz(u)
          BY <2>3, <2>4, <2>7, <3>1, <3>2 DEF Stale
        <4> QED BY <2>4, <3>2, <4>1
      <3>3. CASE v # u
        <4>1. cache'[v] = cache[v]
          BY <2>4, <3>1, <3>3
        <4>2. Stale(v)
          BY <2>7, <3>1, <4>1 DEF Stale
        <4>3. v \in excused \/ \E s \in Reqs : v \in Due(s)
          BY <4>2 DEF StaleEntriesAreExplained
        <4>4. v \in excused => v \in excused'
          BY <2>4, <3>3
        <4> QED BY <1>1, <4>3, <4>4, SameDues
      <3> QED BY <3>2, <3>3
    <2> QED BY <2>6, <2>7 DEF StaleEntriesAreExplained
  <1> QED BY <1>3, <1>4, <1>5

\* Every step of the system.
LEMMA StepHolds == RbacInv /\ [Next]_vars => RbacInv'
  <1> SUFFICES ASSUME RbacInv, [Next]_vars PROVE RbacInv'
    OBVIOUS
  <1>1. CASE UNCHANGED vars
    <2>1. TypeInv'
      BY <1>1 DEF RbacInv, TypeInv, TypeOK, RolesHaveUsers, vars, tables
    <2>2. StaleEntriesAreExplained'
      BY <1>1, SameDues DEF RbacInv, StaleEntriesAreExplained, Stale, Authz, vars, tables
    <2> QED BY <2>1, <2>2 DEF RbacInv
  <1>2. CASE \E r \in Reqs, k \in Kinds \ {"fail"}, c \in Callers : \E q \in Asks(k, c) : Admit(r, q)
    BY <1>2, ChecksKeep
  <1>3. CASE \E r \in Reqs : Mutate(r) \/ Fail(r)
    <2>1. PICK r \in Reqs : Mutate(r) \/ Fail(r)
      BY <1>3
    <2>2. CASE Read(r) \/ CheckSuper(r) \/ CheckPerms(r) \/ CountSupers(r) \/ WriteThrows(r)
      BY <2>2, ChecksKeep
    <2>3. CASE AssignRole(r) \/ RemoveRole(r)
      BY <2>3, UserRolesKeep
    <2>4. CASE Grant(r) \/ Ungrant(r)
      BY <2>4, RolePermsKeep
    <2>5. CASE DropRole(r)
      BY <2>5, DropRoleKeeps
    <2>6. CASE DropPerm(r)
      BY <2>6, DropPermKeeps
    <2>7. CASE DropUser(r) \/ AttachRole(r)
      BY <2>7, UsersKeep
    <2>8. CASE CreateRole(r) \/ CreatePerm(r) \/ CreateUser(r)
      BY <2>8, CreatesKeep
    <2>9. CASE FindMembers(r)
      BY <2>9, FindMembersKeeps
    <2>10. CASE DelLands(r)
      BY <2>10, DelLandsKeeps
    <2>11. CASE Fail(r)
      BY <2>11, FailKeeps
    <2> QED BY <2>1, <2>2, <2>3, <2>4, <2>5, <2>6, <2>7, <2>8, <2>9, <2>10, <2>11 DEF Mutate
  <1>4. CASE (\E u \in Users : AskGuard(u) \/ EntryExpires(u)) \/ \E f \in Fills : FillLands(f)
    BY <1>4, CacheKeeps
  <1> QED BY <1>1, <1>2, <1>3, <1>4 DEF Next

\* RbacInv holds in every reachable state.
THEOREM InvariantHolds == Spec => []RbacInv
  BY InitHolds, StepHolds, PTL DEF Spec

\* Tables, entries, SETs under way and requests keep their types.
THEOREM TypesHold == Spec => []TypeOK
  <1>1. RbacInv => TypeOK
    BY DEF RbacInv, TypeInv
  <1> QED BY <1>1, InvariantHolds, PTL

\* PermissionResolverService: an entry that differs from the tables is about to be deleted,
\* or excused by a late SET, a lost DEL or an operation that invalidates nothing.
THEOREM StaleHasAReason == Spec => []StaleEntriesAreExplained
  <1>1. RbacInv => StaleEntriesAreExplained
    BY DEF RbacInv
  <1> QED BY <1>1, InvariantHolds, PTL
-----------------------------------------------------------------------------
(* The cache of permissions is a lagging register. *)

\* An entry becomes a SET of its own user that was under way, or goes; a SET that is sent off
\* carries what the tables say of its user.
EntriesComeFrom ==
  /\ \A u \in Users : cache'[u] \in {cache[u], Miss} \cup OnTheirWay(u)
  /\ \A f \in Fills : \/ fills'[f] \in {fills[f], NoFill}
                      \/ \E u \in Users : fills'[f] = [user |-> u, val |-> Authz(u)]

\* What a resolver does to the cache, and what everything else leaves alone.
LEMMA ResolvedEntries ==
  ASSUME TypeInv, NEW u \in Users, NEW a, Resolve(u, a), cache' = cache
  PROVE  EntriesComeFrom
  BY ResolveType DEF EntriesComeFrom

LEMMA SameEntries ==
  ASSUME UNCHANGED <<cache, fills>>
  PROVE  EntriesComeFrom
  BY DEF EntriesComeFrom

LEMMA RequestEntries ==
  ASSUME TypeInv, NEW r \in Reqs, Mutate(r) \/ Fail(r)
  PROVE  EntriesComeFrom
  <1>1. CASE CheckSuper(r) \/ CheckPerms(r)
    <2>1. job[r].pc \in {"super", "perms"} /\ cache' = cache /\ \E a \in Answers(job[r].req.caller) : Resolve(job[r].req.caller, a)
      BY <1>1 DEF CheckSuper, CheckPerms
    <2>2. job[r].req.caller \in Users
      BY <2>1, CallersAssumption DEF TypeInv, JobIsSound
    <2> QED BY <2>1, <2>2, ResolvedEntries
  <1>2. CASE DelLands(r)
    BY <1>2 DEF DelLands, EntriesComeFrom
  <1>3. CASE Read(r) \/ CountSupers(r) \/ WriteThrows(r) \/ FindMembers(r) \/ Fail(r)
    BY <1>3, SameEntries DEF Read, CountSupers, WriteThrows, FindMembers, Fail
  <1>4. CASE AssignRole(r) \/ RemoveRole(r) \/ Grant(r) \/ Ungrant(r) \/ DropRole(r) \/ DropPerm(r)
    BY <1>4, SameEntries DEF AssignRole, RemoveRole, Grant, Ungrant, DropRole, DropPerm
  <1>5. CASE DropUser(r) \/ CreateRole(r) \/ CreatePerm(r) \/ CreateUser(r) \/ AttachRole(r)
    BY <1>5, SameEntries DEF DropUser, CreateRole, CreatePerm, CreateUser, AttachRole
  <1> QED BY <1>1, <1>2, <1>3, <1>4, <1>5 DEF Mutate

LEMMA EntriesAreLeft == TypeInv /\ [Next]_vars => EntriesComeFrom
  <1> SUFFICES ASSUME TypeInv, [Next]_vars PROVE EntriesComeFrom
    OBVIOUS
  <1>1. ASSUME NEW r \in Reqs, NEW k \in Kinds \ {"fail"}, NEW c \in Callers, NEW q \in Asks(k, c), Admit(r, q)
        PROVE  EntriesComeFrom
    <2>1. q.caller = c
      BY AskedIsSound
    <2>2. cache' = cache /\ \E a \in Answers(q.caller) : Resolve(q.caller, a)
      BY <1>1 DEF Admit
    <2> QED BY <2>1, <2>2, CallersAssumption, ResolvedEntries
  <1>2. ASSUME NEW u \in Users, AskGuard(u) PROVE EntriesComeFrom
    BY <1>2, LoadType DEF AskGuard, EntriesComeFrom
  <1>3. ASSUME NEW u \in Users, EntryExpires(u) PROVE EntriesComeFrom
    BY <1>3 DEF EntryExpires, EntriesComeFrom, TypeInv, TypeOK
  <1>4. ASSUME NEW f \in Fills, FillLands(f) PROVE EntriesComeFrom
    <2> DEFINE u == fills[f].user
               a == fills[f].val
    <2>1. cache' = [cache EXCEPT ![u] = a] /\ fills' = [fills EXCEPT ![f] = NoFill] /\ fills[f] # NoFill
      BY <1>4 DEF FillLands
    <2>2. u \in Users /\ a \in OnTheirWay(u)
      BY <2>1 DEF TypeInv, TypeOK, OnTheirWay
    <2> HIDE DEF u, a
    <2> QED BY <2>1, <2>2 DEF TypeInv, TypeOK, EntriesComeFrom
  <1>5. UNCHANGED vars => EntriesComeFrom
    BY SameEntries DEF vars
  <1> QED BY <1>1, <1>2, <1>3, <1>4, <1>5, RequestEntries DEF Next

\* An authorization and the outdated copies of it are entries.
LagIsTyped ==
  /\ [u \in Users |-> Authz(u)] \in [Users -> Authzs]
  /\ [u \in Users |-> Outdated(u)] \in [Users -> SUBSET Authzs]

LEMMA EntriesAreAuthzs == RbacInv => LagIsTyped
  <1> SUFFICES ASSUME RbacInv PROVE LagIsTyped
    OBVIOUS
  <1>1. cache \in [Users -> Authzs \cup {Miss}] /\ fills \in [Fills -> [user : Users, val : Authzs] \cup {NoFill}]
    BY DEF RbacInv, TypeInv, TypeOK
  <1>2. ASSUME NEW u \in Users PROVE Outdated(u) \subseteq Authzs
    <2>1. \A f \in Fills : fills[f].user = u => fills[f].val \in Authzs
      BY <1>1, NullAssumption DEF NoFill
    <2>2. OnTheirWay(u) \subseteq Authzs
      BY <2>1 DEF OnTheirWay
    <2> QED BY <1>1, <2>2 DEF Outdated
  <1> QED BY <1>2, AuthzType DEF LagIsTyped

\* PermissionResolverService, for any users, roles, permissions and tables, and however many
\* requests and SETs are under way: the only outdated authorizations at large are such as
\* their own user had before, and one that is gone from the cache and from the SETs under
\* way is gone for good.
THEOREM CacheOnlyLags == Spec => ImplementsLaggingRegister
  <1>1. Init /\ LagIsTyped => Lagging!Init
    <2> SUFFICES ASSUME Init, LagIsTyped PROVE Lagging!Init
      OBVIOUS
    <2>1. ASSUME NEW u \in Users PROVE Outdated(u) = {}
      <3>1. OnTheirWay(u) = {}
        BY NullAssumption DEF Init, NoFill, OnTheirWay
      <3> QED BY <3>1 DEF Init, Outdated
    <2> QED BY <2>1 DEF LagIsTyped, Lagging!Init
  <1>2. LagIsTyped' /\ EntriesComeFrom => [Lagging!Next]_(Lagging!vars)
    <2> SUFFICES ASSUME LagIsTyped', EntriesComeFrom PROVE Lagging!Next
      OBVIOUS
    <2>1. /\ [u \in Users |-> Authz(u)]' \in [Users -> Authzs \cup {Miss}]
          /\ [u \in Users |-> Outdated(u)]' \in [Users -> SUBSET Authzs]
      BY DEF LagIsTyped
    <2>2. ASSUME NEW u \in Users
          PROVE  Outdated(u)' \subseteq (Outdated(u) \cup ({Authz(u)} \ {Miss})) \ {Authz(u)'}
      <3>1. ASSUME NEW f \in Fills, fills'[f].user = u
            PROVE  fills'[f].val = Authz(u) \/ fills'[f].val \in OnTheirWay(u)
        <4>1. ASSUME fills'[f] = fills[f] PROVE fills'[f].val \in OnTheirWay(u)
          <5>1. fills[f].user = u
            BY <3>1, <4>1
          <5>2. fills[f].val \in OnTheirWay(u)
            BY <5>1 DEF OnTheirWay
          <5> QED BY <4>1, <5>2
        <4>2. fills'[f] # NoFill
          BY <3>1, NullAssumption DEF NoFill
        <4>3. CASE \E v \in Users : fills'[f] = [user |-> v, val |-> Authz(v)]
          BY <3>1, <4>3
        <4> QED BY <4>1, <4>2, <4>3 DEF EntriesComeFrom
      <3>2. OnTheirWay(u)' \subseteq OnTheirWay(u) \cup {Authz(u)}
        BY <3>1 DEF OnTheirWay
      <3>3. cache'[u] \in {cache[u], Miss} \cup OnTheirWay(u)
        BY DEF EntriesComeFrom
      <3> QED BY <3>2, <3>3 DEF Outdated
    <2> QED BY <2>1, <2>2 DEF Lagging!Next, Lagging!Copied
  <1>3. RbacInv => LagIsTyped /\ TypeInv
    BY EntriesAreAuthzs DEF RbacInv
  <1> QED BY <1>1, <1>2, <1>3, EntriesAreLeft, InvariantHolds, PTL DEF Spec, ImplementsLaggingRegister, Lagging!Spec

\* After a DEL that found no SET under way, nothing outdated is answered about a user until
\* his roles or their permissions change again, whatever other requests do in between.
THEOREM NothingComesBack == Spec => Lagging!CleanStaysClean
  <1>1. [Lagging!Next]_(Lagging!vars) => [Lagging!Clean]_(Lagging!vars)
    BY DEF Lagging!Next, Lagging!Copied, Lagging!Clean, Lagging!vars
  <1> QED BY <1>1, CacheOnlyLags, PTL DEF ImplementsLaggingRegister, Lagging!Spec, Lagging!CleanStaysClean
-----------------------------------------------------------------------------
(* Callers who are not superadmins, and requests that create no users: permissions in *)
(* Reserved and the role Super go nowhere they have not been at first. *)

\* A role that gives nothing reserved.
Harmless(role) == \A p \in Reserved : <<role, p>> \notin rolePerms

\* An answer about u that reports no more of the reserved than u had at first.
Modest(u, a) ==
  /\ Super \in a.roles => <<u, Super>> \in InitUserRoles
  /\ \A p \in a.perms \cap Reserved : HeldAtFirst(u, p)

LinksAreOld ==
  /\ \A role \in Roles, p \in Reserved : <<role, p>> \in rolePerms => <<role, p>> \in InitRolePerms
  /\ \A u \in Users, role \in Roles :
       <<u, role>> \in userRoles => <<u, role>> \in InitUserRoles \/ (role # Super /\ Harmless(role))

AnswersAreModest ==
  /\ \A u \in Users : cache[u] # Miss => Modest(u, cache[u])
  /\ \A f \in Fills : fills[f] # NoFill => Modest(fills[f].user, fills[f].val)

\* A request on its way to a write that could spread something has what it takes to be
\* refused, or has been found harmless.
JobIsHarmless(j) ==
  /\ j.pc \in {"super", "perms"} /\ j.req.kind = "assignRole" =>
       \A p \in Reserved : <<j.req.role, p>> \in rolePerms => p \in j.need
  /\ j.pc = "perms" /\ j.req.kind = "assignRole" => j.req.role # Super
  /\ j.pc \in {"super", "perms"} /\ j.req.kind = "grant" => j.need = {j.req.perm}
  /\ j.pc = "write" /\ j.req.kind = "assignRole" => j.req.role # Super /\ Harmless(j.req.role)
  /\ j.pc = "write" /\ j.req.kind = "grant" => j.req.perm \notin Reserved

AuthorityInv == RbacInv /\ LinksAreOld /\ AnswersAreModest /\ \A r \in Reqs : JobIsHarmless(job[r])

\* Nobody who sends requests is a superadmin, and no request creates a user.
Delegation == (\A c \in Callers : <<c, Super>> \notin InitUserRoles) /\ "createUser" \notin Kinds

\* What is reserved is a permission, and what is privileged is reserved.
LEMMA ReservedPerms == Reserved \subseteq Perms /\ Privileged \subseteq Reserved
  BY RolesAssumption DEF Reserved, Privileged

\* A caller is told of no role Super, and of nothing reserved that is not privileged.
LEMMA CallersAreModest ==
  ASSUME Delegation, NEW c \in Callers, NEW a, Modest(c, a)
  PROVE  Super \notin a.roles /\ a.perms \cap Reserved \subseteq Privileged
  BY DEF Delegation, Modest, Reserved

\* What the tables say is modest.
LEMMA TablesAreModest ==
  ASSUME LinksAreOld, NEW u \in Users
  PROVE  Modest(u, Authz(u))
  <1> DEFINE a == Authz(u)
  <1>1. /\ \A o \in a.roles : o \in Roles /\ <<u, o>> \in userRoles
        /\ \A p \in a.perms : \E o \in Roles : <<u, o>> \in userRoles /\ <<o, p>> \in rolePerms
    BY DEF Authz
  <1>2. Super \in a.roles => <<u, Super>> \in InitUserRoles
    BY <1>1 DEF LinksAreOld
  <1>3. \A p \in a.perms \cap Reserved : HeldAtFirst(u, p)
    BY <1>1 DEF LinksAreOld, Harmless, HeldAtFirst
  <1> HIDE DEF a
  <1>4. Modest(u, a)
    BY <1>2, <1>3 DEF Modest
  <1> QED BY <1>4 DEF a

\* What getUserAuthz answers is modest.
LEMMA AnswerIsModest ==
  ASSUME AuthorityInv, NEW u \in Users, NEW a, Resolve(u, a)
  PROVE  Modest(u, a)
  BY TablesAreModest, ResolveType DEF AuthorityInv, RbacInv, AnswersAreModest

\* A step that adds no reserved permission to a role, and to a user no role that matters.
LEMMA HarmlessStep ==
  ASSUME AuthorityInv, RbacInv',
         \A role \in Roles, p \in Reserved : <<role, p>> \in rolePerms' => <<role, p>> \in rolePerms,
         \A u \in Users, role \in Roles :
           <<u, role>> \in userRoles' => <<u, role>> \in userRoles \/ (role # Super /\ Harmless(role)),
         \A u \in Users : \/ cache'[u] \in {cache[u], Miss}
                          \/ \E f \in Fills : fills[f] # NoFill /\ fills[f].user = u /\ cache'[u] = fills[f].val,
         \A f \in Fills : \/ fills'[f] \in {fills[f], NoFill}
                          \/ \E u \in Users : fills'[f] = [user |-> u, val |-> Authz(u)],
         \A r \in Reqs : job'[r] = job[r] \/ JobIsHarmless(job[r])'
  PROVE  AuthorityInv'
  <1> USE DEF AuthorityInv
  <1>1. \A role \in Roles : Harmless(role) => Harmless(role)'
    BY DEF Harmless
  <1>2. LinksAreOld'
    BY <1>1 DEF LinksAreOld
  <1>3. ASSUME NEW u \in Users, cache'[u] # Miss PROVE Modest(u, cache'[u])
    BY <1>3 DEF AnswersAreModest
  <1>4. ASSUME NEW f \in Fills, fills'[f] # NoFill PROVE Modest(fills'[f].user, fills'[f].val)
    <2>1. CASE fills'[f] = fills[f]
      BY <1>4, <2>1 DEF AnswersAreModest
    <2>2. CASE \E u \in Users : fills'[f] = [user |-> u, val |-> Authz(u)]
      BY <2>2, TablesAreModest
    <2> QED BY <1>4, <2>1, <2>2
  <1>5. AnswersAreModest'
    BY <1>3, <1>4 DEF AnswersAreModest, Modest, HeldAtFirst
  <1>6. ASSUME NEW r \in Reqs, job'[r] = job[r] PROVE JobIsHarmless(job[r])'
    <2>1. JobIsHarmless(job[r]) /\ JobIsSound(job[r])
      BY DEF RbacInv, TypeInv
    <2>2. job[r].req.kind = "assignRole" => job[r].req.role \in Roles
      BY <2>1 DEF JobIsSound
    <2> QED BY <1>1, <1>6, <2>1, <2>2 DEF JobIsHarmless
  <1> QED BY <1>2, <1>5, <1>6

\* A request that is at none of the points that matter.
LEMMA ElsewhereIsHarmless ==
  ASSUME NEW r \in Reqs, \/ job'[r].pc \notin {"super", "perms", "write"}
                         \/ job'[r].req.kind \notin {"assignRole", "grant"}
  PROVE  JobIsHarmless(job[r])'
  BY DEF JobIsHarmless

\* A check that changes no table.
LEMMA QuietlyHarmless ==
  ASSUME AuthorityInv, RbacInv', NEW r \in Reqs, UNCHANGED <<tables, cache>>,
         \A f \in Fills : \/ fills'[f] \in {fills[f], NoFill}
                          \/ \E u \in Users : fills'[f] = [user |-> u, val |-> Authz(u)],
         \A s \in Reqs \ {r} : job'[s] = job[s], JobIsHarmless(job[r])'
  PROVE  AuthorityInv'
  BY HarmlessStep DEF tables

\* What happens before a write sees to it that the write is harmless.
LEMMA ChecksAreStrict ==
  ASSUME Delegation, AuthorityInv, RbacInv', NEW r \in Reqs,
         \/ \E k \in Kinds \ {"fail"}, c \in Callers : \E q \in Asks(k, c) : Admit(r, q)
         \/ Read(r) \/ CheckSuper(r) \/ CheckPerms(r) \/ CountSupers(r)
  PROVE  AuthorityInv'
  <1> USE DEF AuthorityInv
  <1> DEFINE q == job[r].req
  <1>0. TypeInv /\ JobIsSound(job[r]) /\ JobIsHarmless(job[r])
    BY DEF RbacInv, TypeInv
  <1>1. CASE \E k \in Kinds \ {"fail"}, c \in Callers : \E x \in Asks(k, c) : Admit(r, x)
    <2>1. PICK k \in Kinds \ {"fail"}, c \in Callers : \E x \in Asks(k, c) : Admit(r, x)
      BY <1>1
    <2>2. PICK x \in Asks(k, c) : Admit(r, x)
      BY <2>1
    <2>3. x.caller = c /\ JobIsSound([NoJob EXCEPT !.pc = "read", !.req = x]) /\ x \in Requests
      BY AskedIsSound
    <2>4. c \in Users /\ \E a \in Answers(c) : Resolve(c, a)
      BY <2>2, <2>3, CallersAssumption DEF Admit
    <2>5. job'[r].pc = "read" /\ \A s \in Reqs \ {r} : job'[s] = job[s]
      <3>1. job'[r] = [NoJob EXCEPT !.pc = "read", !.req = x] /\ \A s \in Reqs \ {r} : job'[s] = job[s]
        BY <1>0, <2>2, <2>3, Entered DEF Admit
      <3> QED BY <2>3, <3>1, Taken
    <2>6. UNCHANGED <<tables, cache>>
      BY <2>2 DEF Admit
    <2> QED BY <1>0, <2>4, <2>5, <2>6, ResolveType, ElsewhereIsHarmless, QuietlyHarmless
  <1>2. CASE Read(r)
    <2>1. UNCHANGED <<tables, cache, fills>>
      BY <1>2 DEF Read
    <2>2. JobIsHarmless(job[r])'
      <3>1. q.kind = "assignRole" => \A p \in Reserved : <<q.role, p>> \in rolePerms' => p \in job'[r].need
        BY <1>0, <1>2, <2>1, ReadMoves, ReservedPerms DEF tables
      <3> QED BY <1>0, <1>2, <3>1, ReadMoves DEF JobIsHarmless
    <2> QED BY <1>0, <1>2, <2>1, <2>2, ReadMoves, QuietlyHarmless
  <1>3. CASE CheckSuper(r)
    <2>1. UNCHANGED <<tables, cache>> /\ job[r].pc = "super" /\ q.caller \in Callers /\ q.caller \in Users
      BY <1>0, <1>3, CallersAssumption DEF CheckSuper, JobIsSound
    <2>2. PICK a \in Answers(q.caller) :
            /\ Resolve(q.caller, a)
            /\ \/ job'[r] = NoJob
               \/ /\ job'[r].req = job[r].req /\ job'[r].need = job[r].need
                  /\ \/ Super \in a.roles /\ job'[r].pc = IF job[r].req.kind = "removeRole" THEN "count" ELSE "write"
                     \/ /\ Super \notin a.roles /\ job'[r].pc = "perms"
                        /\ job[r].req.role # Super \/ job[r].req.kind \in {"grant", "ungrant"}
      BY <1>0, <1>3, CheckSuperMoves
    <2>3. Super \notin a.roles
      BY <2>1, <2>2, AnswerIsModest, CallersAreModest
    <2>4. \/ job'[r] = NoJob
          \/ /\ job'[r].req = job[r].req /\ job'[r].need = job[r].need /\ job'[r].pc = "perms"
             /\ job[r].req.role # Super \/ job[r].req.kind \in {"grant", "ungrant"}
      BY <2>2, <2>3
    <2>5. JobIsHarmless(job[r])'
      <3>1. CASE job'[r] = NoJob
        BY <3>1, NoJobIsSound, ElsewhereIsHarmless
      <3>2. CASE job'[r] # NoJob
        BY <1>0, <2>1, <2>4, <3>2 DEF JobIsHarmless, tables
      <3> QED BY <3>1, <3>2
    <2>6. \A s \in Reqs \ {r} : job'[s] = job[s]
      BY <1>0, <1>3, CheckSuperMoves
    <2> QED BY <1>0, <2>1, <2>2, <2>5, <2>6, ResolveType, QuietlyHarmless
  <1>4. CASE CheckPerms(r)
    <2>1. UNCHANGED <<tables, cache>> /\ job[r].pc = "perms" /\ q.caller \in Callers /\ q.caller \in Users
      BY <1>0, <1>4, CallersAssumption DEF CheckPerms, JobIsSound
    <2>2. PICK a \in Answers(q.caller) :
            /\ Resolve(q.caller, a)
            /\ \/ job'[r] = NoJob
               \/ /\ job'[r].pc = "write" /\ job'[r].req = job[r].req
                  /\ job[r].need \cap Privileged = {} /\ job[r].need \subseteq a.perms
      BY <1>0, <1>4, CheckPermsMoves
    <2>3. a.perms \cap Reserved \subseteq Privileged
      BY <2>1, <2>2, AnswerIsModest, CallersAreModest
    <2>4. JobIsHarmless(job[r])'
      <3>1. CASE job'[r] = NoJob
        BY <3>1, NoJobIsSound, ElsewhereIsHarmless
      <3>2. CASE job'[r] # NoJob
        <4>1. job'[r].pc = "write" /\ job'[r].req = q /\ \A p \in Reserved : p \notin job[r].need
          BY <2>2, <2>3, <3>2
        <4>2. q.kind = "assignRole" => q.role # Super /\ Harmless(q.role)'
          BY <1>0, <2>1, <4>1 DEF JobIsHarmless, Harmless, tables
        <4>3. q.kind = "grant" => q.perm \notin Reserved
          BY <1>0, <2>1, <4>1 DEF JobIsHarmless
        <4> QED BY <4>1, <4>2, <4>3 DEF JobIsHarmless
      <3> QED BY <3>1, <3>2
    <2>5. \A s \in Reqs \ {r} : job'[s] = job[s]
      BY <1>0, <1>4, CheckPermsMoves
    <2> QED BY <1>0, <2>1, <2>2, <2>4, <2>5, ResolveType, QuietlyHarmless
  <1>5. CASE CountSupers(r)
    <2>1. UNCHANGED <<tables, cache, fills>> /\ q.kind = "removeRole"
      BY <1>0, <1>5 DEF CountSupers, JobIsSound
    <2>2. JobIsHarmless(job[r])'
      BY <1>0, <1>5, <2>1, CountSupersMoves, NoJobIsSound, ElsewhereIsHarmless
    <2> QED BY <1>0, <1>5, <2>1, <2>2, CountSupersMoves, QuietlyHarmless
  <1> QED BY <1>1, <1>2, <1>3, <1>4, <1>5

\* The writes that could spread something have been found harmless.
LEMMA WritesAreHarmless ==
  ASSUME Delegation, AuthorityInv, RbacInv', NEW r \in Reqs,
         \/ AssignRole(r) \/ RemoveRole(r) \/ Grant(r) \/ Ungrant(r) \/ DropRole(r) \/ DropPerm(r) \/ DropUser(r)
         \/ CreateRole(r) \/ CreatePerm(r) \/ CreateUser(r) \/ AttachRole(r) \/ WriteThrows(r)
  PROVE  AuthorityInv'
  <1> USE DEF AuthorityInv
  <1> DEFINE q == job[r].req
  <1>0. TypeInv /\ JobIsSound(job[r]) /\ JobIsHarmless(job[r])
    BY DEF RbacInv, TypeInv
  <1>1. ~CreateUser(r) /\ ~AttachRole(r)
    BY <1>0 DEF CreateUser, AttachRole, Writes, Is, JobIsSound, Delegation
  <1>2. job[r].pc = "write" /\ UNCHANGED <<cache, fills>>
    BY <1>1 DEF AssignRole, RemoveRole, Grant, Ungrant, DropRole, DropPerm, DropUser, CreateRole, CreatePerm,
                WriteThrows, Writes
  <1>3. \A role \in Roles, p \in Reserved : <<role, p>> \in rolePerms' => <<role, p>> \in rolePerms
    <2>1. CASE Grant(r)
      BY <1>0, <2>1 DEF Grant, Writes, Is, JobIsHarmless
    <2>2. CASE ~Grant(r)
      BY <1>1, <2>2 DEF AssignRole, RemoveRole, Ungrant, DropRole, DropPerm, DropUser, CreateRole, CreatePerm,
                        WriteThrows, tables
    <2> QED BY <2>1, <2>2
  <1>4. \A u \in Users, role \in Roles :
          <<u, role>> \in userRoles' => <<u, role>> \in userRoles \/ (role # Super /\ Harmless(role))
    <2>1. CASE AssignRole(r)
      BY <1>0, <2>1 DEF AssignRole, Writes, Is, JobIsHarmless
    <2>2. CASE ~AssignRole(r)
      BY <1>1, <2>2 DEF RemoveRole, Grant, Ungrant, DropRole, DropPerm, DropUser, CreateRole, CreatePerm,
                        WriteThrows, tables
    <2> QED BY <2>1, <2>2
  <1>5. job'[r].pc \in {"idle", "members", "del"} /\ \A s \in Reqs \ {r} : job'[s] = job[s]
    <2>1. CASE AssignRole(r) \/ RemoveRole(r)
      BY <1>0, <1>2, <2>1, Invalidating DEF AssignRole, RemoveRole, Writes, Is
    <2>2. CASE Grant(r) \/ Ungrant(r) \/ DropRole(r) \/ DropPerm(r)
      <3>1. Goto(r, "members") /\ q.kind \in {"grant", "ungrant", "dropRole", "dropPerm"}
        BY <2>2 DEF Grant, Ungrant, DropRole, DropPerm, Writes, Is
      <3> QED BY <1>0, <1>2, <3>1, Gone DEF PCs
    <2>3. CASE DropUser(r) \/ CreateRole(r) \/ CreatePerm(r) \/ WriteThrows(r)
      BY <1>0, <2>3, Left, NoJobIsSound DEF DropUser, CreateRole, CreatePerm, WriteThrows
    <2> QED BY <1>1, <2>1, <2>2, <2>3
  <1>6. JobIsHarmless(job[r])'
    BY <1>5, ElsewhereIsHarmless
  <1> QED BY <1>2, <1>3, <1>4, <1>5, <1>6, HarmlessStep

\* Invalidations, failures and what happens to the cache.
LEMMA RestIsHarmless ==
  ASSUME AuthorityInv, RbacInv',
         \/ \E r \in Reqs : FindMembers(r) \/ DelLands(r) \/ Fail(r)
         \/ \E u \in Users : AskGuard(u) \/ EntryExpires(u)
         \/ \E f \in Fills : FillLands(f)
         \/ UNCHANGED vars
  PROVE  AuthorityInv'
  <1> USE DEF AuthorityInv
  <1>0. TypeInv
    BY DEF RbacInv
  <1>1. UNCHANGED tables
    BY DEF FindMembers, DelLands, Fail, AskGuard, EntryExpires, FillLands, vars
  <1>2. \A r \in Reqs : job'[r] = job[r] \/ JobIsHarmless(job[r])'
    <2>1. CASE \E r \in Reqs : FindMembers(r)
      BY <1>0, <2>1, FindMembersMoves, NoJobIsSound, ElsewhereIsHarmless
    <2>2. CASE \E r \in Reqs : DelLands(r) \/ Fail(r)
      BY <1>0, <2>2, Left, NoJobIsSound, ElsewhereIsHarmless DEF DelLands, Fail
    <2>3. CASE UNCHANGED job
      BY <2>3
    <2> QED BY <2>1, <2>2, <2>3 DEF AskGuard, EntryExpires, FillLands, vars
  <1>3. \A u \in Users : \/ cache'[u] \in {cache[u], Miss}
                         \/ \E f \in Fills : fills[f] # NoFill /\ fills[f].user = u /\ cache'[u] = fills[f].val
    <2>1. CASE \E f \in Fills : FillLands(f)
      <3>1. PICK f \in Fills : FillLands(f)
        BY <2>1
      <3>2. fills[f] # NoFill /\ cache' = [cache EXCEPT ![fills[f].user] = fills[f].val]
        BY <3>1 DEF FillLands
      <3> QED BY <1>0, <3>2 DEF TypeInv, TypeOK
    <2>2. CASE ~\E f \in Fills : FillLands(f)
      BY <1>0, <2>2 DEF FindMembers, DelLands, Fail, AskGuard, EntryExpires, vars, TypeInv, TypeOK
    <2> QED BY <2>1, <2>2
  <1>4. \A f \in Fills : \/ fills'[f] \in {fills[f], NoFill}
                         \/ \E u \in Users : fills'[f] = [user |-> u, val |-> Authz(u)]
    <2>1. CASE \E u \in Users : AskGuard(u)
      BY <1>0, <2>1, LoadType DEF AskGuard
    <2>2. CASE ~\E u \in Users : AskGuard(u)
      BY <1>0, <2>2 DEF FindMembers, DelLands, Fail, FillLands, EntryExpires, vars, TypeInv, TypeOK
    <2> QED BY <2>1, <2>2
  <1> QED BY <1>1, <1>2, <1>3, <1>4, HarmlessStep DEF tables

\* RolesService's checks: among callers who are not superadmins, from whatever caches the
\* requests are decided and however they interleave, nobody comes by a permission in
\* Reserved or the role Super.
THEOREM AuthorityStays == ASSUME Delegation PROVE Spec => []AuthorityDoesNotSpread
  <1>1. Init => AuthorityInv
    <2> SUFFICES ASSUME Init PROVE AuthorityInv
      OBVIOUS
    <2>1. LinksAreOld /\ AnswersAreModest
      BY DEF LinksAreOld, AnswersAreModest, Init
    <2>2. \A r \in Reqs : JobIsHarmless(job[r])
      BY NoJobIsSound DEF Init, JobIsHarmless
    <2> QED BY <2>1, <2>2, InitHolds DEF AuthorityInv
  <1>2. AuthorityInv /\ [Next]_vars => AuthorityInv'
    <2> SUFFICES ASSUME AuthorityInv, [Next]_vars PROVE AuthorityInv'
      OBVIOUS
    <2>1. RbacInv'
      BY StepHolds DEF AuthorityInv
    <2>2. CASE \E r \in Reqs, k \in Kinds \ {"fail"}, c \in Callers : \E q \in Asks(k, c) : Admit(r, q)
      BY <2>1, <2>2, ChecksAreStrict
    <2>3. CASE \E r \in Reqs : Mutate(r) \/ Fail(r)
      <3>1. PICK r \in Reqs : Mutate(r) \/ Fail(r)
        BY <2>3
      <3> QED BY <2>1, <3>1, ChecksAreStrict, WritesAreHarmless, RestIsHarmless DEF Mutate
    <2>4. CASE \/ \E u \in Users : AskGuard(u) \/ EntryExpires(u)
               \/ \E f \in Fills : FillLands(f)
               \/ UNCHANGED vars
      BY <2>1, <2>4, RestIsHarmless
    <2> QED BY <2>2, <2>3, <2>4 DEF Next
  <1>3. AuthorityInv => AuthorityDoesNotSpread
    <2> SUFFICES ASSUME AuthorityInv, NEW u \in Users
                 PROVE  /\ \A p \in Authz(u).perms \cap Reserved : HeldAtFirst(u, p)
                        /\ <<u, Super>> \in userRoles => <<u, Super>> \in InitUserRoles
      BY DEF AuthorityDoesNotSpread
    <2>1. Modest(u, Authz(u))
      BY TablesAreModest DEF AuthorityInv
    <2>2. <<u, Super>> \in userRoles => <<u, Super>> \in InitUserRoles
      BY RolesAssumption DEF AuthorityInv, LinksAreOld
    <2> QED BY <2>1, <2>2 DEF Modest
  <1> QED BY <1>1, <1>2, <1>3, PTL DEF Spec
-----------------------------------------------------------------------------
(* The last superadmin. *)

\* A removal of the role Super that has been let through counted more than one superadmin.
Counted == \A r \in Reqs : job[r].pc = "write" /\ job[r].req.kind = "removeRole" /\ job[r].req.role = Super
                            => ~(Cardinality(job[r].counted) <= 1)

\* A step is of one request at most: the others keep their jobs.
LEMMA OthersWait ==
  ASSUME TypeInv, [Next]_vars, NEW r \in Reqs, job'[r] # job[r]
  PROVE  \/ \E k \in Kinds \ {"fail"}, c \in Callers : \E q \in Asks(k, c) : Admit(r, q)
         \/ Mutate(r) \/ Fail(r)
  <1>1. ASSUME NEW s \in Reqs, NEW j, Enter(s, j) PROVE s = r
    BY <1>1 DEF Enter, TypeInv, TypeOK
  <1>2. CASE \E s \in Reqs, k \in Kinds \ {"fail"}, c \in Callers : \E q \in Asks(k, c) : Admit(s, q)
    <2>1. PICK s \in Reqs : \E k \in Kinds \ {"fail"}, c \in Callers : \E q \in Asks(k, c) : Admit(s, q)
      BY <1>2
    <2>2. s = r
      BY <1>1, <2>1 DEF Admit
    <2> QED BY <2>1, <2>2
  <1>3. CASE \E s \in Reqs : Mutate(s) \/ Fail(s)
    <2>1. PICK s \in Reqs : Mutate(s) \/ Fail(s)
      BY <1>3
    <2>2. \E j : Enter(s, j)
      <3>1. CASE Read(s) \/ CheckSuper(s) \/ CheckPerms(s)
        BY <3>1 DEF Read, CheckSuper, CheckPerms, Goto, Leave
      <3>2. CASE CountSupers(s) \/ FindMembers(s) \/ DelLands(s) \/ Fail(s)
        BY <3>2 DEF CountSupers, FindMembers, DelLands, Fail, Leave
      <3>3. CASE AssignRole(s) \/ RemoveRole(s) \/ Grant(s) \/ Ungrant(s) \/ DropRole(s) \/ DropPerm(s)
        BY <3>3 DEF AssignRole, RemoveRole, Grant, Ungrant, DropRole, DropPerm, InvalidateUser, Goto
      <3>4. CASE DropUser(s) \/ CreateRole(s) \/ CreatePerm(s) \/ CreateUser(s) \/ AttachRole(s) \/ WriteThrows(s)
        BY <3>4 DEF DropUser, CreateRole, CreatePerm, CreateUser, AttachRole, WriteThrows, Goto, Leave
      <3> QED BY <2>1, <3>1, <3>2, <3>3, <3>4 DEF Mutate
    <2>3. s = r
      BY <1>1, <2>2
    <2> QED BY <2>1, <2>3
  <1>4. CASE UNCHANGED job
    BY <1>4
  <1> QED BY <1>2, <1>3, <1>4 DEF Next, vars, AskGuard, EntryExpires, FillLands

\* The count is made before the write.
LEMMA CountingStep ==
  ASSUME TypeInv, Counted, [Next]_vars
  PROVE  Counted'
  <1> SUFFICES ASSUME NEW r \in Reqs,
                      job'[r].pc = "write", job'[r].req.kind = "removeRole", job'[r].req.role = Super
               PROVE  ~(Cardinality(job'[r].counted) <= 1)
    BY DEF Counted
  <1>0. JobIsSound(job[r])
    BY DEF TypeInv
  <1>1. CASE job'[r] = job[r]
    BY <1>1 DEF Counted
  <1>2. CASE \E k \in Kinds \ {"fail"}, c \in Callers : \E q \in Asks(k, c) : Admit(r, q)
    <2>1. PICK k \in Kinds \ {"fail"}, c \in Callers : \E q \in Asks(k, c) : Admit(r, q)
      BY <1>2
    <2>2. PICK q \in Asks(k, c) : Admit(r, q)
      BY <2>1
    <2>3. q \in Requests /\ JobIsSound([NoJob EXCEPT !.pc = "read", !.req = q])
      BY AskedIsSound
    <2>4. job'[r] = [NoJob EXCEPT !.pc = "read", !.req = q]
      BY <2>2, <2>3, Entered DEF Admit
    <2> QED BY <2>3, <2>4, Taken
  <1>3. CASE Read(r)
    BY <1>0, <1>3, ReadMoves
  <1>4. CASE CheckSuper(r)
    BY <1>0, <1>4, CheckSuperMoves, NoJobIsSound
  <1>5. CASE CheckPerms(r)
    BY <1>0, <1>5, CheckPermsMoves, NoJobIsSound DEF CheckPerms, JobIsSound
  <1>6. CASE CountSupers(r)
    BY <1>6, CountSupersMoves, NoJobIsSound
  <1>7. CASE AssignRole(r) \/ RemoveRole(r)
    BY <1>0, <1>7, Invalidating DEF AssignRole, RemoveRole, Writes, Is
  <1>8. CASE Grant(r) \/ Ungrant(r) \/ DropRole(r) \/ DropPerm(r)
    <2>1. /\ Goto(r, "members") /\ job[r].pc = "write"
          /\ job[r].req.kind \in {"grant", "ungrant", "dropRole", "dropPerm"}
      BY <1>8 DEF Grant, Ungrant, DropRole, DropPerm, Writes, Is
    <2> QED BY <1>0, <2>1, Gone DEF PCs
  <1>9. CASE \/ DropUser(r) \/ CreateRole(r) \/ CreatePerm(r) \/ AttachRole(r)
             \/ WriteThrows(r) \/ DelLands(r) \/ Fail(r)
    BY <1>0, <1>9, Left, NoJobIsSound
       DEF DropUser, CreateRole, CreatePerm, AttachRole, WriteThrows, DelLands, Fail
  <1>10. CASE CreateUser(r)
    BY <1>0, <1>10, Left, Gone, NoJobIsSound DEF CreateUser, Writes, Is, PCs, JobIsSound, Job, Requests
  <1>11. CASE FindMembers(r)
    BY <1>0, <1>11, FindMembersMoves, NoJobIsSound
  <1> QED BY <1>1, <1>2, <1>3, <1>4, <1>5, <1>6, <1>7, <1>8, <1>9, <1>10, <1>11, OthersWait DEF Mutate

\* A removal that takes the role from the last user who has it.
LastRemoval(r) == /\ Writes(r, "removeRole") /\ job'[r].pc # "write"
                  /\ Members(Super) # {} /\ Members(Super)' = {}

\* RolesService.removeRoleFromUser, any number of removals at a time: the count is of more than
\* the user it is about, so nobody is left only when another of those it counted is gone by then.
THEOREM LastRemovalIsOvertaken == Spec => LastRemovalWasOvertaken
  <1>1. Init => Counted
    BY NoJobIsSound DEF Init, Counted
  <1>2. RbacInv /\ Counted /\ [Next]_vars => Counted'
    BY CountingStep DEF RbacInv
  <1>3. RbacInv /\ Counted /\ [Next]_vars =>
          [\A r \in Reqs :
             /\ Writes(r, "removeRole") /\ job'[r].pc # "write"
             /\ Members(Super) # {} /\ Members(Super)' = {}
             => \E u \in job[r].counted \ {job[r].req.user} : u \notin Members(Super)]_vars
    <2> SUFFICES ASSUME RbacInv, Counted, Next, NEW r \in Reqs, LastRemoval(r)
                 PROVE  \E u \in job[r].counted \ {job[r].req.user} : u \notin Members(Super)
      BY DEF LastRemoval
    <2> DEFINE u == job[r].req.user
               others == job[r].counted \ {u}
    <2>1. job[r].pc = "write" /\ job[r].req.kind = "removeRole" /\ job'[r] # job[r] /\ TypeInv
      BY DEF LastRemoval, Writes, Is, RbacInv
    <2>2. Mutate(r) \/ Fail(r)
      BY <2>1, OthersWait, NoJobIsSound DEF Admit
    <2>3. CASE RemoveRole(r)
      <3>1. userRoles' = userRoles \ {<<u, job[r].req.role>>}
        BY <2>3 DEF RemoveRole
      <3>2. job[r].req.role = Super
        BY <3>1 DEF LastRemoval, Members
      <3>3. ~(Cardinality(job[r].counted) <= 1)
        BY <2>1, <3>2 DEF Counted
      <3>4. Members(Super) \subseteq {u}
        BY <3>1, <3>2 DEF LastRemoval, Members
      <3>5. ASSUME \A v \in others : v \in Members(Super) PROVE FALSE
        <4>1. job[r].counted \subseteq {u}
          BY <3>4, <3>5
        <4>2. IsFiniteSet({u}) /\ Cardinality({u}) = 1
          BY FS_Singleton
        <4>3. Cardinality(job[r].counted) <= 1
          BY <4>1, <4>2, FS_Subset
        <4> QED BY <3>3, <4>3
      <3> QED BY <3>5
    <2>4. CASE ~RemoveRole(r)
      <3>1. UNCHANGED userRoles
        BY <2>1, <2>2, <2>4
           DEF Mutate, Read, CheckSuper, CheckPerms, CountSupers, AssignRole, Grant, Ungrant, DropRole, DropPerm,
               DropUser, CreateRole, CreatePerm, CreateUser, AttachRole, WriteThrows, FindMembers, DelLands, Fail,
               Writes, Is, tables
      <3> QED BY <3>1 DEF LastRemoval, Members
    <2> QED BY <2>3, <2>4
  <1> QED BY <1>1, <1>2, <1>3, InvariantHolds, PTL DEF Spec, LastRemovalWasOvertaken
=============================================================================
