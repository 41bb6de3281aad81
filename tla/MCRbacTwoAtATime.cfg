\* Superadmins removing each other's role, two requests at a time.
SPECIFICATION Spec
CONSTANTS
  root = root  root2 = root2  mgr = mgr  op = op
  manager = manager  basic = basic  read = read
  Users = {root, root2}
  Roles = {super, basic}
  Perms = {pManage, pAssign, pUser, read}
  Super = super
  Manage = pManage  Assign = pAssign  UserAdmin = pUser
  Callers = {root, root2}
  Reqs = {r1, r2}
  Fills = {f1}
  NoUser = NoUser  NoRole = NoRole  NoPerm = NoPerm  Miss = Miss
  Kinds = {"removeRole"}
  AskUsers = {root, root2}  AskRoles = {super, basic}  AskPerms = {pManage}
  InitUserRoles <- TwoRoots
  InitRolePerms <- BasicPerms
PROPERTY SuperadminRemains
CHECK_DEADLOCK FALSE
