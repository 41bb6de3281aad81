---------------------------- MODULE MCAdminTasks ----------------------------
EXTENDS AdminTasks

\* One who may do all, and one who may do a part of what the pages offer.
MCAuthorities == {{"superadmin"}, {"ops_user:read", "ops_user:update", "role:assign", "i18n:read"}}
\* One permission that operators get too, and one they do not.
MCPermOrder == <<"job:read", "job:manage">>
MCOperatorOrder == <<"job:read">>
=============================================================================
