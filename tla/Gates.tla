------------------------------- MODULE Gates -------------------------------
(***************************************************************************)
(* Who may see and do what, as three places say it that have to agree: the *)
(* menu of MainLayout, the routes and buttons of admin web, and the guards *)
(* of the API.                                                             *)
(***************************************************************************)

Superadmin == "superadmin"
\* PermissionsGuard on the API, hasPermission in admin web: an authority is a set of
\* permissions and perhaps the role superadmin.
Has(authority, permission) == Superadmin \in authority \/ permission \in authority
HasAll(authority, needs) == \A permission \in needs : Has(authority, permission)

\* RequirePermission around the element of a route; the dashboard has none.
RouteNeeds ==
  [dashboard |-> {}, opsUsers |-> {"ops_user:read"},
   roles |-> {"rbac:manage"}, permissions |-> {"rbac:manage"}, auditLogs |-> {"audit:read"},
   featureFlags |-> {"feature_flag:read"}, remoteConfigs |-> {"remote_config:read"},
   announcements |-> {"announcement:read"}, i18n |-> {"i18n:read"},
   jobs |-> {"job:read"}, appUpload |-> {"app:upload"}]
Routes == DOMAIN RouteNeeds

\* Mutant: the entry of the roles is shown to whoever may assign one.
MenuNeedsAssign == [RouteNeeds EXCEPT !["roles"] = {"role:assign"}]

\* show of a menu item, whose strings are written out once more; both pages of rbac are
\* children of one item.
MenuNeeds ==
  [dashboard |-> {}, opsUsers |-> {"ops_user:read"},
   roles |-> {"rbac:manage"}, permissions |-> {"rbac:manage"}, auditLogs |-> {"audit:read"},
   featureFlags |-> {"feature_flag:read"}, remoteConfigs |-> {"remote_config:read"},
   announcements |-> {"announcement:read"}, i18n |-> {"i18n:read"},
   jobs |-> {"job:read"}, appUpload |-> {"app:upload"}]

\* The guard of the request a page fills itself with; the dashboard takes what it is given
\* and the page of uploads asks for nothing.
ListNeeds ==
  [dashboard |-> {}, opsUsers |-> {"ops_user:read"},
   roles |-> {"rbac:manage"}, permissions |-> {"rbac:manage"}, auditLogs |-> {"audit:read"},
   featureFlags |-> {"feature_flag:read"}, remoteConfigs |-> {"remote_config:read"},
   announcements |-> {"announcement:read"}, i18n |-> {"i18n:read"},
   jobs |-> {"job:read"}, appUpload |-> {}]

\* What a page lets its visitor do: the permission the page asks for, and what the guards of the
\* requests ask for that the control sends.
Control(route, name, shown, needs) == [route |-> route, name |-> name, shown |-> shown, needs |-> needs]

\* loadRoles, which three of the dialogs start with, is a request for the list of the roles.
OpsUserControls ==
  {Control("opsUsers", "create", {"ops_user:create"}, {"rbac:manage", "ops_user:create"}),
   Control("opsUsers", "edit", {"ops_user:update"}, {"rbac:manage", "ops_user:update"}),
   Control("opsUsers", "password", {"ops_user:update"}, {"ops_user:update"}),
   Control("opsUsers", "status", {"ops_user:update"}, {"ops_user:update"}),
   Control("opsUsers", "role", {"ops_user:update"}, {"rbac:manage", "role:assign"}),
   Control("opsUsers", "delete", {"ops_user:delete"}, {"ops_user:delete"})}

\* The page of the roles and that of the permissions show these buttons to whoever may
\* manage, which is what it takes to get there.
RbacControls ==
  {Control(route, name, {"rbac:manage"}, {"rbac:manage"}) :
     route \in {"roles", "permissions"}, name \in {"create", "delete"}}
  \cup {Control("roles", name, {"rbac:manage"}, {"rbac:manage"}) : name \in {"edit", "permissions"}}

\* Flags, configs and announcements keep reading and managing apart.
ManagedControls ==
  {Control("featureFlags", name, {"feature_flag:manage"}, {"feature_flag:manage"}) :
     name \in {"create", "edit", "toggle", "delete"}}
  \cup {Control("remoteConfigs", name, {"remote_config:manage"}, {"remote_config:manage"}) :
     name \in {"create", "edit", "delete"}}
  \cup {Control("announcements", name, {"announcement:manage"}, {"announcement:manage"}) :
     name \in {"create", "edit", "publish", "unpublish", "archive", "delete"}}
  \cup {Control("jobs", "enqueue", {"job:manage"}, {"job:manage"})}

\* No conditions on the page of the translations; an export writes a log of itself.
I18nControls ==
  {Control("i18n", "search", {}, {"i18n:read"}), Control("i18n", "logs", {}, {"i18n:read"})}
  \cup {Control("i18n", name, {}, {"i18n:manage"}) : name \in {"create", "edit", "import", "export"}}

UploadControls == {Control("appUpload", "upload", {}, {"app:upload"})}

Controls == OpsUserControls \cup RbacControls \cup ManagedControls \cup I18nControls \cup UploadControls

\* Whether someone with this authority sees the page, the menu item, the control.
SeesPage(authority, route) == HasAll(authority, RouteNeeds[route])
SeesItem(authority, route) == HasAll(authority, MenuNeeds[route])
SeesControl(authority, c) == SeesPage(authority, c.route) /\ HasAll(authority, c.shown)
=============================================================================
