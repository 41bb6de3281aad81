\* A role is deleted while its member is being served.
SPECIFICATION Spec
CONSTANTS
  root = root  root2 = root2  mgr = mgr  op = op
  manager = manager  basic = basic  read = read
  Users = {root, op}
  Roles = {super, basic}
  Perms = {pManage, pAssign, pUser, read}
  Super = super
  Manage = pManage  Assign = pAssign  UserAdmin = pUser
  Callers = {root}
  Reqs = {r1}
  Fills = {f1}
  NoUser = NoUser  NoRole = NoRole  NoPerm = NoPerm  Miss = Miss
  Kinds = {"dropRole"}
  AskUsers = {op}  AskRoles = {basic}  AskPerms = {read}
  InitUserRoles <- OneRoot
  InitRolePerms <- BasicPerms
PROPERTY RoleRemovalInvalidates
CHECK_DEADLOCK FALSE
