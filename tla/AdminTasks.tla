----------------------------- MODULE AdminTasks -----------------------------
(***************************************************************************)
(* What operators do with admin web once they are logged in, page by page, *)
(* and the seed that they run beside it.  The parts have no state in       *)
(* common: what one does to another (a page is mounted anew, a record is   *)
(* changed by somebody else) may happen in it at any time.  So a behaviour *)
(* follows one of them, part, and leaves the others as they started.       *)
(***************************************************************************)
CONSTANTS Parts,                                                    \* the parts that a run follows
          Users, NoUser, Authorities, Tokens, NoToken, Calls,       \* AuthContext
          Langs, Queries,                                           \* I18nPage
          Perms, Saves,                                             \* RolePermissions
          Rows, NoRow, Texts, Empty, RecordCalls,                   \* RecordDialogs
          Files, Uploads,                                           \* AppUpload
          Tabs,                                                     \* TwoFactorModal
          PermOrder, OperatorOrder                                  \* Seed

VARIABLES part,
          authority, owner, claims, stored, ctx, me, login, seen, crossed, failed,
          has, query, latest, table, searching, dialog, submit, shown, excused,
          granted, opening, role, opened, checked, saving,
          view, text, listed, editing, modal, form, typed, base, call,
          package, readable, served, page, up, letDown,
          secret, enabled, authenticator, modal2FA, setup, enable, stray, meddled,
          rows, active, own, at, held, undone, disturbed

Auth == INSTANCE AuthContext
Translations == INSTANCE I18nPage
Grants == INSTANCE RolePermissions
Records == INSTANCE RecordDialogs WITH Calls <- RecordCalls
Upload == INSTANCE AppUpload WITH stored <- package
TwoFactor == INSTANCE TwoFactorModal WITH modal <- modal2FA
Seeding == INSTANCE Seed

auth == <<authority, owner, claims, stored, ctx, me, login, seen, crossed, failed>>
translations == <<has, query, latest, table, searching, dialog, submit, shown, excused>>
grants == <<granted, opening, role, opened, checked, saving>>
records == <<view, text, listed, editing, modal, form, typed, base, call>>
upload == <<package, readable, served, page, up, letDown>>
twoFactor == <<secret, enabled, authenticator, modal2FA, setup, enable, stray, meddled>>
seed == <<rows, active, own, at, held, undone, disturbed>>
vars == <<part, auth, translations, grants, records, upload, twoFactor, seed>>

ASSUME TasksAssumption == Auth!NoneAssumption /\ Records!NoneAssumption /\ Queries # {} /\ Seeding!SeedAssumption

TypeOK ==
  /\ part \in Parts
  /\ Auth!TypeOK /\ Translations!TypeOK /\ Grants!TypeOK /\ Records!TypeOK
  /\ Upload!TypeOK /\ TwoFactor!TypeOK /\ Seeding!TypeOK

\* Of a part that is not followed, one initial state will do.
Init ==
  /\ part \in Parts
  /\ Auth!Init /\ Translations!Init /\ Grants!Init /\ Records!Init
  /\ Upload!Init /\ TwoFactor!Init /\ Seeding!Init
  /\ part # "auth" => \A u \in Users : authority[u] = CHOOSE a \in Authorities : TRUE
  /\ part # "translations" => has = {}
  /\ part # "grants" => granted = {}
  /\ part # "records" => view = {} /\ \A r \in Rows : text[r] = "unused"
  /\ part # "upload" => package = CHOOSE f \in Files : TRUE

Next ==
  \/ part = "auth" /\ Auth!Next /\ UNCHANGED <<part, translations, grants, records, upload, twoFactor, seed>>
  \/ part = "translations" /\ Translations!Next /\ UNCHANGED <<part, auth, grants, records, upload, twoFactor, seed>>
  \/ part = "grants" /\ Grants!Next /\ UNCHANGED <<part, auth, translations, records, upload, twoFactor, seed>>
  \/ part = "records" /\ Records!Next /\ UNCHANGED <<part, auth, translations, grants, upload, twoFactor, seed>>
  \/ part = "upload" /\ Upload!Next /\ UNCHANGED <<part, auth, translations, grants, records, twoFactor, seed>>
  \/ part = "twoFactor" /\ TwoFactor!Next /\ UNCHANGED <<part, auth, translations, grants, records, upload, seed>>
  \/ part = "seed" /\ Seeding!Next /\ UNCHANGED <<part, auth, translations, grants, records, upload, twoFactor>>

\* Nothing in a part that is not followed can be waited for.
Spec == Init /\ [][Next]_vars /\ Auth!Fairness
-----------------------------------------------------------------------------
\* AuthContext: the permissions a tab shows are its user's.
ShownPermissionsAreTheirs == Auth!ShownPermissionsAreTheirs

\* AuthContext: menu, routes, controls and API agree, but where they are known not to.
OffersWereAllowed == Auth!OffersWereAllowed

\* AuthContext: a tab does not wait for its permissions for ever.
SpinnerEnds == Auth!SpinnerEnds

\* AuthContext: controls on show are backed by the API.
OfferedIsAllowed == Auth!OfferedIsAllowed

\* I18nPage: an edit takes back nothing its operator has not touched.
EditsSendWhatWasTyped == Translations!EditsSendWhatWasTyped

\* I18nPage: the table is what the page says it is.
MixedTableIsExplained == Translations!MixedTableIsExplained

\* RolePermissions: success means that the role is as checked.
SavedMeansAsChecked == Grants!SavedMeansAsChecked

\* RecordDialogs: what nobody typed is the record's own.
UntypedTextOnlyReverts == Records!UntypedTextOnlyReverts

\* AppUpload: why a stored package is not the one that is served.
StalePackageIsExplained == Upload!StalePackageIsExplained

\* TwoFactorModal: success means that the user can log in.
EnabledIsUsable == TwoFactor!EnabledIsUsable

\* Seed: the superadmin role of the admin user comes last.
MembershipComesLast == Seeding!MembershipComesLast

\* Seed: a run that gets to its end has put everything back.
CompletedSeedsAreWhole == Seeding!CompletedSeedsAreWhole
=============================================================================
