\* A delegated administrator's requests, two at a time, decided from caches.
SPECIFICATION Spec
CONSTANTS
  root = root  root2 = root2  mgr = mgr  op = op
  manager = manager  basic = basic  read = read
  Users = {mgr, op}
  Roles = {super, manager, basic}
  Perms = {pManage, pAssign, pUser, read}
  Super = super
  Manage = pManage  Assign = pAssign  UserAdmin = pUser
  Callers = {mgr}
  Reqs = {r1, r2}
  Fills = {f1}
  NoUser = NoUser  NoRole = NoRole  NoPerm = NoPerm  Miss = Miss
  Kinds = {"assignRole", "grant", "ungrant", "dropRole"}
  AskUsers = {op}  AskRoles = {manager, basic}  AskPerms = {pManage, read}
  InitUserRoles <- Delegated
  InitRolePerms <- DelegatedPerms
INVARIANT AuthorityDoesNotSpread
CHECK_DEADLOCK FALSE
