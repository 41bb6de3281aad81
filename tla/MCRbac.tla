------------------------------- MODULE MCRbac -------------------------------
EXTENDS Rbac, TLC

CONSTANTS root, root2, mgr, op,   \* two superadmins, a delegated admin, an operator
          manager, basic,         \* their roles, beside Super
          read                    \* a plain permission

\* One superadmin and an operator with one permission.
OneRoot == {<<root, Super>>, <<op, basic>>}
BasicPerms == {<<basic, read>>}

\* One superadmin, everything else still to be created.
OnlyRoot == {<<root, Super>>}
NoPerms == {}

\* Two superadmins, one of them an operator as well.
TwoRoots == {<<root, Super>>, <<root2, Super>>, <<root2, basic>>}

\* A delegated admin, who holds what the role of operators gives, and a user without roles.
Delegated == {<<mgr, manager>>}
DelegatedPerms == {<<manager, Manage>>, <<manager, Assign>>, <<manager, read>>, <<basic, read>>}
=============================================================================
