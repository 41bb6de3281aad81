\* Two administrators, one request at a time, of every kind, from a first superadmin on.
SPECIFICATION FairSpec
CONSTANTS
  root = root  root2 = root2  mgr = mgr  op = op
  manager = manager  basic = basic  read = read
  Users = {root, op}
  Roles = {super, basic}
  Perms = {pManage, pAssign, pUser, read}
  Super = super
  Manage = pManage  Assign = pAssign  UserAdmin = pUser
  Callers = {root, op}
  Reqs = {r1}
  Fills = {f1}
  NoUser = NoUser  NoRole = NoRole  NoPerm = NoPerm  Miss = Miss
  Kinds = {"assignRole", "removeRole", "grant", "ungrant", "createRole", "dropRole", "createPerm", "dropPerm", "createUser", "dropUser", "fail"}
  AskUsers = {root, op}  AskRoles = {super}  AskPerms = {read}
  InitUserRoles <- OnlyRoot
  InitRolePerms <- NoPerms
INVARIANTS TypeOK StaleEntriesAreExplained
PROPERTIES LastRemovalWasOvertaken ChangesTakeEffect ImplementsLaggingRegister
CHECK_DEADLOCK FALSE
