# A verification of the CatWallet operations back end

TLA+ models of the operations back end (`apps/api`, NestJS over PostgreSQL, Redis and BullMQ) and of
its admin web app (`apps/admin-web`, React), TLC configurations that check them on small instances,
and proofs checked by TLAPS. Paths below are relative to the root of the repository.

## 1. The system

Any number of instances of the API share one PostgreSQL database (through Prisma) and one Redis.
A handler is a coroutine: between two `await`s nothing else of its process runs, at an `await` any
other request of this or another instance may. There is not one database transaction in the code, so
**every statement is a step of its own** and every operation of several statements can be interleaved
or cut short. Redis errors are swallowed by `RedisService`, so a lost `DEL` looks like a success.
The admin app talks to the API through one axios client per browser tab; the tabs share localStorage.
A page of the admin app is a coroutine too: what its user does while a call is under way, and what other
administrators do, comes between the click and the answer.

### Inventory

| Component | State it keeps | Operations | What is hard about it | What makes it correct |
|---|---|---|---|---|
| **AuthService** (`auth/auth.service.ts`) | `refresh_tokens` rows; password, status and 2FA columns of `ops_users` | login, verify2FA, issueTokens, refresh, logout, setup2FA, enable2FA | read, `await argon2`, write; two refreshes of one token; a rotation has no live row between its two statements | a session is never forked; what is revoked stays revoked; enrolment implies a secret |
| **OpsUsersService** (`ops-users/ops-users.service.ts`) | `ops_users`, `ops_user_roles` | create, update, resetPassword, setStatus, remove | update and mass revocation are two statements | after a reset or a deactivation, old sessions end |
| **PermissionResolverService, PermissionsGuard** (`auth/`) | `authz:<user>` entries in Redis, TTL 60 s | resolve (read through), invalidate a user, a role, everybody | the SET of a miss is not awaited and may land after a DEL; DEL errors are swallowed | an entry is stale only for a known reason and not for ever |
| **RolesService, PermissionsService** (`rbac/`) | `ops_roles`, `ops_permissions` and two link tables | assign/remove role, grant/ungrant permission, create/delete role and permission | checks and writes are separate statements, decided on cached permissions | privileges do not spread; a superadmin remains; every change invalidates |
| **Jobs** (`jobs/`) | `jobs` rows, the BullMQ queue | enqueue, process, onFailed | row and queue are written separately; retries, stalls and lost locks re-run a job | bounded execution; the row agrees with the queue; jobs settle |
| **FeatureFlagsService, RemoteConfigsService** | a table each, `feature_flag:<key>` / `remote_config:<key>` in Redis, TTL 60 s | create, read through, update, toggle, remove | a SET computed before an update may land after its DEL | as for permissions |
| **I18nService** (`i18n/`) | the upstream's list (external), list and freshness marker in Redis, `i18n_op_logs` | list, background refresh, search, add, update, batchImport | refresh races invalidation; non-idempotent calls are retried after time-outs | an edit becomes visible; retries are bounded |
| **AnnouncementsService** | a status per row | create, update, publish, unpublish, archive, remove | read, check, write by id | whoever changed a row is told so, and so is the audit trail, unless the answer was lost |
| **Audit trail** (`common/interceptors/audit.interceptor.ts`) | `audit_logs` | one record per mutating request, after the response | fire and forget | a record only for what was attempted, at most one each |
| **Seed** (`prisma/seed.ts`) | roles, permissions, the admin user | a sequence of upserts | may be cut short and re-run over live data | the superadmin role comes last; a completed run has put everything back |
| **Admin web session** (`api/http.ts`, `utils/storage.ts`, log-in, log-out) | localStorage, `isRefreshing` and `queue` of each tab | attach token, refresh once and queue, log in, log out, redirect | many requests get 401 at once; several tabs; lost answers; reloads | one refresh at a time; nobody waits for ever; logging out ends the session |
| **Permissions of a tab** (`hooks/useAuth.tsx`, `RequirePermission.tsx`, `MainLayout.tsx`, `utils/permissions.ts`) | token, roles, permissions in React state | load `/auth/me`, follow token changes, show menu, pages and buttons | the answer of `me` is applied to whatever is held when it arrives; other tabs change the token in silence | guards are evaluated on the permissions of the current user; what is offered is allowed |
| **Pages of records** (`pages/ops-users`, `rbac`, `feature-flags`, `remote-configs`, `announcements`, `jobs`) | the table as last loaded, one form and `editingId` per page | list, create, edit, row actions, delete; grant permissions to a role | the form outlives the dialog and is sent whole; the table is overtaken; several calls in one save | nobody writes what nobody typed; success means done |
| **Translations page** (`pages/i18n/I18nPage.tsx`) | items, `searching`, dialog | list, search, create, edit, import, export, logs | answers arrive in any order | the table is what the page says; an edit sends what was typed |
| **App upload** (`pages/app-upload`, `app-package/`) | a presigned URL, the upload under way; S3 and the upstream's cache (external) | get URL, put, wait, refresh | nothing is repeated and nobody remembers a failure | a stored package is served |
| **Setup2FAModal** (`components/Setup2FAModal.tsx`) | step, QR code, loading | set up, scan, verify | several tabs, calls given up | who is told that 2FA is on can log in |
| HTTP pipeline, validation, filters, health, configuration, Prisma set-up, Docker, dashboard and audit-log pages | none beyond the last answer | wiring, tables | - | - |

### Interactions

- `OpsUsersService` writes what `AuthService` reads (password, status) and revokes the tokens it issues.
- `PermissionsGuard` asks the resolver before every guarded handler; `RolesService` asks it again inside
  the handler and calls its invalidations after the write. Deleting a role, permission or user cascades
  to the link tables in the database.
- `JobsService` and `JobsProcessor` meet only in Redis (the queue) and in the `jobs` row.
- The admin app sees of the API: access tokens that expire on their own, refresh tokens that are used up
  by one refresh, and 401. Inside a tab, `setAccess` of the interceptor tells `AuthProvider` of a new token by
  an event of the window; `AuthProvider` asks `/auth/me`, and while the answer is out `RequirePermission`
  unmounts the page, whose calls go on without it.
- The pages meet other administrators in the records. The permission dialog turns one save into many calls
  of `RolesService`; the translations page works on lists that `I18nService` may serve late and on edits it may
  carry out unheard; the 2FA modal meets the two handlers of `AuthService`, each with its read and its write.

## 2. The modules

| Module | Models | Abstracts from |
|---|---|---|
| `SessionRegister` | abstract specification of the token store: a session opens once, carries at most one usable token, is closed for good | requests, tables, users |
| `LaggingRegister` | abstract specification of a read-through cache: beside the value of a key only earlier ones are at large, left behind by a change and gone for good once gone | readers, commands, TTL |
| `AuthSessions` | `AuthService` and the revoking operations of `OpsUsersService`, statement by statement | hashes, JWTs (time-limited and checked nowhere here), 5-attempt throttling, logging of failures |
| `Rbac` | the five RBAC tables, the permission cache, the guard and the twelve statements that change the tables, each with its invalidation | names and descriptions; `update` of descriptions |
| `Jobs` | enqueue and process; BullMQ as an external queue with attempts, backoff, locks and a stalled checker | payloads other than `fail`, results, timestamps |
| `KeyedCache` | feature flags and remote configs: one cache-aside algorithm, twice in the code | the columns of a row: an edit makes a new version |
| `I18nProxy` | list, background refresh, edits with time-outs and retries; the upstream as external state | the texts; `search`; the table of operation logs |
| `Announcements` | the status of a row under read, decide, write by id | titles, contents, dates |
| `Content` | the three above and `AuditInterceptor` over them | whether a record that was sent off arrives |
| `AdminSession` | interceptors, refresh queue, log-in and log-out of several tabs over one localStorage, composed with `SessionRegister` as the server | what pages show; the second factor of a log-in, which stores its tokens the same way |
| `Gates` | what menu, routes and buttons ask for, and what the API's guards ask for behind them; no state | labels, icons |
| `AuthContext` | one tab's `AuthProvider` between tokens and answers of `me`, with the interceptor, other tabs and administrators as its surroundings | what `AdminSession` has in detail |
| `I18nPage` | table, search and dialog of the translations page | the texts: which languages have one, differ, were typed |
| `RolePermissions` | the dialog that grants permissions to a role by many single calls | other roles and columns |
| `RecordDialogs` | table, dialog and row buttons of seven pages | all columns but one text; passwords and roles, sent by calls that leave it alone |
| `AppUpload` | `handleGetUrl`, `handleUpload`, `AppPackageService`; S3 and upstream external | the contents of a package |
| `TwoFactorModal` | the modal in several tabs of one user, and the handlers behind it | codes: the secret behind them |
| `Seed` | every upsert of `main` in its order, and administrators at the same tables | descriptions |
| `AdminTasks` | the seven above side by side (see below) | |
| `MCAuthSessions`, `MCRbac`, `MCContent`, `MCAdminSession`, `MCAdminTasks` | values, symmetry and constraints for TLC | |
| `SessionRegisterProofs`, `AuthSessionsProofs`, `RbacProofs`, `JobsProofs`, `KeyedCacheProofs`, `ContentProofs`, `AdminSessionProofs`, `AdminTasksProofs` | what is proved | |

How state and actions correspond to the code:

- **AuthSessions.** `status`, `passwordHash`, `twoFASecret`, `twoFAEnabled` are columns of `OpsUser`;
  `tstate`, `owner`, `expired` are the rows of `RefreshToken`; `job` holds the local variables of handlers
  suspended at an `await`. `refresh` is four steps: `RefreshRead` (findUnique and three checks),
  `RefreshRotate`/`RefreshBeaten` (`updateMany` where `revoked: false`, and its count), `RefreshReload`/
  `RefreshDenied` (the user again), `Issue`/`IssueRefused` (insert; the foreign key). `Fail` ends a request
  anywhere: a throwing statement, or the instance. SUSPENDED and INACTIVE are one value, as every check in
  the code is "is it ACTIVE". `origin` and `cut` are history variables that no action reads. The log-in of a user
  with 2FA is two requests: `LoginAsks2FA` checks password and status and leaves nothing at the server but an answer,
  which `passed` remembers on the client's behalf with the password it was given for, and `Verify2FARead` comes from
  a client that has one of these answers, however old, or none.
- **Rbac.** A request passes `Admit` (the guard), `Read` (the `findUnique`s), `CheckSuper`, `CheckPerms`
  or `CountSupers` (each with its own resolution of the caller, from the cache or the tables), one write,
  `FindMembers` and `DelLands`. `fills` are SETs sent and not yet arrived. `excused` records whose stale
  entry has lost its invalidation.
- **Jobs.** `worker[w]` is where an execution is in `process`; a worker whose lock was lost goes on
  writing the row by id, as the code does. Either update may throw having done nothing (`UpdateThrows`) or having
  written the row (`UpdateUnheard`); `unheard` are the jobs whose COMPLETED update did the latter.
- **KeyedCache, I18nProxy, Announcements, Content.** A request is handled once: `job[q].pc` is the `await` it is
  suspended at, and "ok", "failed", "unheard" or "dead" at the end: "unheard" is failed at a statement that took effect,
  whose answer was lost. The rest of the handler, such as the `DEL`, is then not run, and the interceptor sees an error.
  `Get`, `Load`, `Set` are the three statements of
  `findByKey`; a command to Redis may get lost wherever there is one, since `RedisService` swallows errors.
  `refresh[q]` is the `refreshList` that request `q` waits for or has left behind. A try of an upstream edit may be
  carried out and answered, answered unreadably, carried out unheard, lost, given up and carried out `late`, or
  refused. `overtaken` of a reader and `excused` are history variables that no action reads. `Tap` is the interceptor: it
  compares the requests before and after a step and sends off a record for those just answered.
- **AdminSession.** `store` is the pair in localStorage, `refreshing` the variable `isRefreshing`, the
  queue is the set `Waiting(b)`. A page that set `window.location.href` is "leaving" and goes on running
  until `Unload`. What an aborted request has started at the server goes on there without a tab. The two
  `setItem` calls of a refresh are one step: another tab that reads between them gets an access token and
  a refresh token it could also have read, one just after and the other just before. `Expire` ages every
  access token issued so far, since all live equally long.
- **AuthContext.** `ctx` is the state of `AuthProvider`, `me[c]` a call of `/auth/me` from the request to the
  answer that sets the state, whichever token is held by then. `Renewed` and `RenewalFails` are the end of the
  interceptor's refresh on behalf of any request of the tab; calls that waited for it are sent again. `OtherTab`
  changes localStorage only, as the token event is heard in one window. `seen` collects what the user has been
  allowed since the token came, `crossed` and `failed` name the two things that may show something else.
- **I18nPage.** `query[q]` is a list or a search under way; `Arrive` puts its answer into the table whatever was
  asked for since. `dialog.text` survives `Shut`, as the form does. `Click` computes the payload as `handleSubmit`
  does; `Succeed` closes the dialog that is open by now and asks again as at the click.
- **RolePermissions.** `Click` computes `toAdd` and `toRemove` against the row the list had, `Made` and `Refused`
  are its calls one by one, `Fail` is the rejected `Promise.all` and waits until the other calls have ended as well.
- **RecordDialogs.** `view` is the set of buttons the rows of a page offer; `Init` takes any of the seven pages.
  `Submit` sends the whole form under `editing`; `Press` is every other button of a row.
- **AppUpload.** `up[u].pc` is where a `handleUpload` is; `here` says whether its page is still mounted (a `Remount`
  stops nothing, a `Close` does). `readable` is what S3 hands out, one moment behind `stored`.
- **TwoFactorModal.** Secrets are numbered; a code stands for the secret behind it. `CheckCode` and `ServeEnable` are
  the read and the write of `enable2FA`; `ServeStray` is a set-up whose tab has given up waiting.
- **Seed.** `at` counts the upserts of `Steps`. `held` are the rows whose ids the run has in hand: a link to a row
  that was deleted and created anew fails (`Refused`). A deletion takes the rows that refer to it along (`Cascade`).
- **AdminTasks.** The parts have no state in common, and what one could do to another (mount a page anew, change a record)
  may happen in it at any time anyway. So a behaviour follows one of them, `part`, and the others stay as they
  started: the states of the parts add up in a run and do not multiply. Liveness is asked of `AuthContext` alone.

## 3. What is checked

| Run | Result | What it shows |
|---|---|---|
| `auth_sessions` | holds, 270 000 states | with every operation: `OneTokenPerSession`, `OldPasswordSessionsEnd`, `InactiveUsersHaveNoSession`, `EnabledUsersHaveASecret`; and the tables with the requests in flight implement `SessionRegister` (`ImplementsSessionRegister`) |
| `rbac_cache` | holds, 600 000 | with one administrative request at a time, of every kind: stale entries are explained and end with the TTL (`ChangesTakeEffect`), the cache implements `LaggingRegister` (`ImplementsLaggingRegister`), a removal takes the last superadmin only if another one it counted lost the role in between (`LastRemovalWasOvertaken`) |
| `rbac_authority` | holds, 1 940 000 | a delegated administrator deciding from caches, two requests at a time, spreads no reserved permission by assigning, granting or deleting roles (`AuthorityDoesNotSpread`); creating users is left out of this run, as `create` attaches any role it is asked for |
| `rbac_two_at_a_time` | **violated** | two removals at once leave no superadmin |
| `rbac_drop_role` | **violated** | deleting a role invalidates nobody |
| `jobs` | holds, 250 000 | two workers, every fault: executions are bounded, rows agree, a COMPLETED row is reopened only when the job had stalled or the update that wrote it had thrown (`CompletedRowsReopenUnheard`), jobs settle |
| `jobs_exhausted` | **violated** | an exhausted job's row stays RUNNING |
| `content` | holds, 180 000 | flags, configs, translations, announcements and their audit trail: outdated copies are explained, flags and configs implement `LaggingRegister` (`FlagsOnlyLag`), edits are bounded, every change leaves a record (`ChangesAreAudited`), and it says what happened unless the answer of the database or of the upstream was lost (`RecordsTellTheTruth`) |
| `admin_session` | holds, 370 000 | two tabs, two requests in flight: one refresh per tab, the queue is emptied, no tab defeats itself |
| `admin_logout` | **violated** | logging out with an expired access token leaves the session open |
| `admin_tasks` | holds, 470 000 | the pages and the seed, part by part (below) |
| `admin_gates` | **violated** | controls are on show that the API refuses |

What `admin_tasks` asks of each part:

| Part | Property | In words |
|---|---|---|
| AuthContext | `ShownPermissionsAreTheirs` | permissions on show are, or have been since the token came, the user's, unless `me` failed or an older answer was under way |
| | `OffersWereAllowed` | what is on show, menu items and controls alike, the API would have let the user do at some time since the token came; but for seven controls, `Drifted`, which the fifth disagreement below is about |
| | `SpinnerEnds` | nobody waits for their permissions for ever |
| I18nPage | `MixedTableIsExplained` | at rest the table is what the flag `searching` says, unless the last request failed or was overtaken |
| | `EditsSendWhatWasTyped` | an edit takes back nothing its operator has not touched |
| RolePermissions | `SavedMeansAsChecked` | after a reported success the role differs from what was checked only where the row was out of date or others were at work |
| RecordDialogs | `UntypedTextOnlyReverts` | text nobody typed is never one record's written over another's |
| AppUpload | `StalePackageIsExplained` | a stored package is served or about to be, or a named event has prevented it |
| TwoFactorModal | `EnabledIsUsable` | whoever is told that 2FA is on has the secret, unless another tab or an abandoned set-up meddled |
| Seed | `MembershipComesLast`, `CompletedSeedsAreWhole` | the superadmin role of the admin user is the last thing seeded; a run that ends undisturbed has put everything back |

### The five disagreements with what the code says of itself

1. **The last superadmin** (`rbac/roles.service.ts:186-194`, "Never allow removing the last superadmin").
   The count and the delete are two statements: two requests that remove the last two superadmins both
   count two. That is the only way in which count and removal fail (`LastRemovalWasOvertaken`, proved for any number of
   requests): whoever else was counted has to lose the role in between, which with one request at a time nobody does.
2. **Deleting a role** (`rbac/roles.service.ts:69-74`, "Delete first, then invalidate"). The delete cascades
   to `ops_user_roles`, and the invalidation then looks there for the members it should invalidate. Their
   cached permissions live on until the TTL.
3. **Exhausted jobs** (`jobs/jobs.processor.ts:53`, "Called when BullMQ exhausts all retries"). `onFailed`
   carries no `@OnWorkerEvent('failed')`; nothing calls it outside its unit test.
4. **Logging out** (`auth/auth.controller.ts:58`, "Revoke refresh token"; `README.md:151`).
   `handleLogout` reads the refresh token first. If the access token has expired the interceptor refreshes,
   which uses this token up, and repeats the log-out with the old body: 200, and nothing revoked.
5. **Gates** (`utils/permissions.ts:1-3`, "Centralized here so frontend gating cannot drift from backend
   enforcement"). The buttons that create a user, edit one and set the roles (`OpsUsersPage.tsx:37-49`, `:150`) are shown
   for `ops_user:create` or `ops_user:update`, while their dialogs ask for the list of roles, which needs `rbac:manage`,
   and the last one sends a request that needs `role:assign`; the translations page shows every control to whoever may
   read.

More things the models, or their making, brought up, without a property of their own:

- `OpsUsersService.remove` leaves the permission entry in place although `docs/ARCHITECTURE.md:270` says it is
  deleted (it counts among the explained stale ones). `verify2FA` reads neither status nor password and asks for no
  trace of the first step, so a TOTP code opens a session of a deactivated user, or one that rests on a password
  replaced since, or on none (the exceptions `totp` in `InactiveUsersHaveNoSession` and `SecondStepSince` in
  `OldPasswordSessionsEnd`: such a session ends with the next revocation, like any other). `setup2FA` overwrites the secret of a user
  who is already enrolled.
- Deleting the last superadmin's account, or the role itself, is guarded by nothing: only `removeRoleFromUser` counts.
- An edit of the translations deletes the durable copy that `i18n/i18n.service.ts:11-12` keeps "so we always have
  something to serve", so readers wait for the upstream again after every edit. An edit whose answer is lost
  leaves the old list in place although the upstream has changed (an `excused` copy).
- `publish` accepts archived announcements, where `announcements.controller.ts:49` says "DRAFT → PUBLISHED".
  `FeatureFlagsPage` cannot empty a payload: a blank field is left out of the request. `UpdateOpsUserDto` drops the
  `roleName` it is sent.
- The form of `PermissionsPage` sends `name`, while `CreatePermissionDto` requires `resource` and `action`: 400, always.
- `RequirePermission.tsx:7-11` promises not to flash 403 while permissions load; a failed `me` counts as loaded, with none.
- The event of a new token reaches one window: another tab's log-in changes whose requests a tab sends, not what it shows.
- Forms keep what a previous row left in fields the next one does not set; a late success closes whichever dialog is open
  by then; OK can be clicked twice everywhere but on the translations page. Text typed on that page for a language
  whose cell is missing is dropped, and success reported (`I18nPage.tsx:156-163`). Its export leaves out selected keys that
  are not among the current rows, and for a user who may only read its operation log is refused in silence.
- After a permission save that failed half-way, a second attempt computes its difference from the row of before.
- `README.md:121` counts 13 permissions, the seed has 18. `README.md:297` and `:422` say that seeding again overwrites roles,
  permissions and users: it restores missing rows, the admin's password and ACTIVE, and leaves the rest alone.
- An answer without a URL in it makes `extractUrl` throw where nobody shows the error. `Can.tsx` is used nowhere.

### Bounds, and why they are enough

- Sessions: one user (rows of different users never interact), two requests, three tokens, one reset and one
  2FA set-up. A fork needs two requests and the token they share; an escape from a revocation needs one
  request in memory and one that revokes. `ExpiryAlone` lets time pass only in histories without a set-up, a reset or a
  suspension. `View` tells passwords apart only as the stored one and those before it, as no action compares older ones
  with each other. The proofs below remove these bounds.
- RBAC: two users, two or three roles, four permissions; one or two requests. The races are between one
  request and late cache writes, or between two requests. `AskUsers`, `AskRoles` and `AskPerms` bound the rows
  that requests name. `rbac_cache` starts with one superadmin and everything else still to be created and attached,
  `rbac_authority` with a delegated administrator and a role of operators. The proofs remove these bounds too.
- Jobs: two jobs (one succeeds, one throws) and two workers, `MaxAttempts = 2` (the code: 3; the violating run
  uses 3), one stall. Two workers suffice for two executions of one job; one retry for every branch of it.
- Content: three requests in all, to any service in any mix; two of them race, and a third shows what they left
  behind. One key (keys share nothing), a row that exists and may be deleted and created anew, one announcement
  and one still to be created, `Retries = 1` as in the code.
- Admin session: two tabs, two requests, two sessions, three tokens, so that one expiry and the refreshes of
  both requests fit. `Supply` stops new trouble, never reactions, when tokens may run out; the rotation that
  finds none left fails, which the server may do anyway. `View` forgets what the history variables say of tokens
  no longer stored or presented, which none of the properties asks.
- Admin tasks: two of everything that has to meet. Two users and two tokens (the second is another user's, or the same
  one's after a renewal), two calls, queries, uploads and tabs; one record with two texts, its form and another's
  edits; two permissions, so that one call of a save may fail and one succeed. `Saves` has one slot: the saves of
  others are `Other`'s, and a second click on OK during the first is covered by the theorem alone. `MaxOpening = 2` bounds the
  rows being opened, `MaxSecrets = 3` the set-ups: one in each tab and one that was given up. One submission of the
  translations page at a time. `Free` and `Slot` hand out slots, `Fresh` tokens, in a fixed order; which one is taken
  makes no difference.

### Fairness

Three runs have liveness properties. `Rbac!FairSpec`: Redis expires entries and a SET that was sent
arrives; no fairness on requests. `Jobs!FairSpec`: workers continue with what they took (`Work`), some worker
takes a waiting job, BullMQ promotes delayed jobs and its stalled checker finds jobs without a worker, and an
`enqueue` that does not fail reaches the queue. `AuthContext!Fairness`: a call of `me` is served, answered or given up,
since the http client has a timeout; the refresh behind a 401 ends one way or the other, which is an assumption about the
network, as it is posted by plain axios without one. A user who reloads the page for ever is named in `SpinnerEnds`
itself. Nothing bad is fair: `Crash`, `UpdateThrows`, `UpdateUnheard`, lost locks and failures may happen or not. Deadlock is not
checked where tokens, rows or jobs are finite supplies that a run uses up; in the admin session it is checked.

## 4. What is proved

Every safety property of every passing run is a theorem, for any values of the constants under the assumptions that
the modules name; so are the refinements of `SessionRegister` and `LaggingRegister`. Each is an invariant of `Init` and preserved by every
action, one step per action; the last step is temporal. The action properties follow from such an invariant step by step.

| Module | Theorems | Properties |
|---|---|---|
| `AuthSessionsProofs` | `Typing`, `SessionsDoNotFork`, `PasswordResetEndsSessions`, `DeactivationEndsSessions`, `EnrolmentHasASecret`, `SessionsFormARegister`, `EndedSessionsStayEnded` | `TypeOK`, `OneTokenPerSession`, `OldPasswordSessionsEnd`, `InactiveUsersHaveNoSession`, `EnabledUsersHaveASecret`, `ImplementsSessionRegister`; `ClosedForGood` and `UsedForGood` of the register |
| `SessionRegisterProofs` | `TokensStayExclusive`, `OverIsOver` | `TokensAreExclusive`, `ClosedForGood`, `UsedForGood`, of every register of sessions |
| `RbacProofs` | `TypesHold`, `StaleHasAReason`, `CacheOnlyLags`, `NothingComesBack`, `AuthorityStays`, `LastRemovalIsOvertaken` | `TypeOK`, `StaleEntriesAreExplained`, `ImplementsLaggingRegister`, `CleanStaysClean` of that register, `AuthorityDoesNotSpread`, `LastRemovalWasOvertaken` |
| `JobsProofs` | `TypesHold`, `ExecutionsStayBounded`, `CompletedRowsStayRight`, `OnlyUnheardReopen` | `TypeOK`, `ExecutionsAreBounded`, `CompletedRowsAgree`, `CompletedRowsReopenUnheard` |
| `KeyedCacheProofs` | `CacheTypes`, `StalenessIsExplained` | `TypeOK` and `StaleRowsAreExplained` of `KeyedCache` |
| `ContentProofs` | `TypesHold`, `StalenessIsExplained`, `OutdatedListsAreExplained`, `FlagsLag`, `TranslationsLag`, `RetriesAreBounded`, `NothingGoesUnrecorded`, `RecordsAreTrue` | `TypeOK`, `StaleRowsAreExplained`, `StaleListIsExplained`, `FlagsOnlyLag`, `TranslationsOnlyLag`, `EditsAreBounded`, `ChangesAreAudited`, `RecordsTellTheTruth` |
| `AdminSessionProofs` | `TypesHold`, `OneRefreshAtATime`, `StoreIsExplained`, `TabsDoNotBeatThemselves`, `ServerIsARegister`, `LogoutRevokes` | `TypeOK`, `RefreshesAreExclusive`, `StoredTokenIsLive`, `ATabNeverBeatsItself`; `Spec` of `SessionRegister`; `LogoutRevokesToken` |
| `AdminTasksProofs` | `TypesHold`, `PermissionsAreTheirs`, `OffersAreTrue`, `DriftIsAsNamed`, `TableIsExplained`, `OnlyTypedIsSent`, `SuccessIsAsChecked`, `FormsKeepToTheirRecords`, `StaleHasAReason`, `EnabledMeansUsable`, `RoleComesLast`, `SeedsAreWhole` | all safety properties of `admin_tasks` |

Some of these no run checks. `TokensAreExclusive`, `ClosedForGood`, `UsedForGood` and `CleanStaysClean` follow from the
abstract specifications which the runs show implemented, and `ServerIsARegister` is that of the same register again.
`TranslationsOnlyLag` and `LogoutRevokesToken` can be checked as `PROPERTY` or `INVARIANT` of `content` and
of `admin_session` (the last with the tokens that log-outs name, `req[r].body`, added to `InUse`); TLC agrees with them.
`DriftIsAsNamed` has no states: it is about what the code asks for where.

The arguments:

- **AuthSessions** (`NoneAssumption`, `BoundAssumption`, `KindsAssumption`). `TypeInv` adds to the types what handlers
  rely on: a request in flight has a user, a rotation has its token, a row has an owner.
  `OneTokenPerSession` is not inductive: a login could name its session after a token whose value some other
  session already bears. `SessionInv` adds `RootsTaken`: a session is named after its first token, whose row
  exists from then on, and sessions in memory are named after existing rows too. The crucial step is
  `RefreshRotate`, where the one live token of a session turns into the one request carrying it.
  `OldPasswordSessionsEnd` and `InactiveUsersHaveNoSession` speak of rows, but a row inherits its guilt from the
  request that inserts it. `RevocationInv` states the same of the sessions requests hold in memory, that whoever has
  just updated a user still owes the revocation (`RevocationOwed`) until it ran or was cut, and that only a session of
  `verify2FA` rests on another password (`gen`) than the one stored when it was opened (`since`).
  `SecretInv` adds that the secret `enable2FA` found is still there, if not the same one, when it sets the flag.
- **The refinement.** A session is open while one of its tokens is live, rotating while a request carries it, closed once
  its first token exists and neither is the case. Every action but `RefreshRotate` and `Issue` is `Quiet`: it makes no token
  live and no request a carrier, so it closes the sessions that lost theirs, or stutters. `RefreshRotate` is
  `BeginRotation`; `Issue` is `Open` for a log-in and `FinishRotation` for a refresh. `RootInv` is what this needs beside
  `TypeInv` and `SessionInv`: a session's first token names its own session. `SessionRegisterProofs` then argues about the
  abstract register alone (`RegisterInv`: a session has a token just while it is open, an issued one, and no other
  session's), and `EndedSessionsStayEnded` carries the conclusion back to the tables: no race of refreshes, failures and
  revocations reopens a session or makes a used refresh token usable again.
- **Rbac** (the five assumptions of the module). `RbacInv` adds to the types what a request has been asked for at the
  point it has got to (`JobIsSound`) and the foreign key of the links, and `StaleEntriesAreExplained` itself, which is
  inductive: whatever changes the permissions of a user puts the user among those whose entry the request has yet to
  delete (`Due`), or excuses them. `AuthorityStays` has an assumption of its own, `Delegation`: no caller is a
  superadmin, and no request creates users. `AuthorityInv` then says of answers in the cache and in SETs under way
  that they report nothing reserved the user did not have at first, and of a request past its checks that its write is
  harmless. For `LastRemovalIsOvertaken`, `Counted` says of a removal of the role superadmin that has been let through
  that it counted at least two users (`counted` is history: the code keeps their number). Only removals of roles, users
  and the role itself make users lose it, so if nobody is left after the removal, one of the counted lost it before.
- **The lagging registers.** What is at large of a user's authorization are the entry in the cache and the SETs under way
  (`OnTheirWay`); outdated are those that differ from the tables. `EntriesComeFrom` says of a step that whatever is at
  large after it was so before, for the same user, or is what the tables say as the step begins, and `EntriesAreLeft`
  shows it of every step; the refinement follows from that and the types. It is here that a SET for the wrong key,
  the answer of one user kept for another, or a cached absence would break the cache. `CopiesComeFrom` and `ListsComeFrom`
  say the same of flags and configs and of the translations, whose copies are also in the hands of readers, in the two
  Redis keys and in answers of the upstream. `NothingComesBack` is the use of it: once a DEL finds no SET under way
  nothing outdated is answered about that user until something changes again.
- **Jobs** (four assumptions). `JobsInv`: jobs are active exactly while locked, the queue takes a job up only
  with attempts left, executions are counted as an attempt or a stall but for the one under way; what the queue
  has completed is settled in its row, or an execution that lost its lock is at it; a job that never stalled has one
  execution at most, and none once its row reads COMPLETED but the one that wrote it, unless that update was `unheard`.
- **KeyedCache, Content.** `StaleRowsAreExplained` speaks of the cache, but an outdated entry is born in the memory of
  a reader: it loads a row, is overtaken by a change together with its DEL, and then sends its SET. The strengthening
  is `LoadsAreTracked`: a reader about to SET holds a row, the current one unless it was overtaken (`WriteKeeps`
  raises the flag for all such readers at once, in the step that hands the blame to the writer's DEL). `InsertKeeps`
  is where the cache would break if an absent row were cached. `ContentProofs` carries this over (`FlagsAreACache`:
  every step of `Content` is a step of its `KeyedCache` or leaves it alone), and does the same for the other two
  services: `ProxyInv` has `FetchesAreTracked`, the same argument for lists fetched from the upstream;
  `AnnouncementInv` says that a request has changed a row exactly if it ended "ok" or "unheard";
  `ContentInv` relates services and trail: a request is for one service, and there is a record exactly for those
  answered and audited, which tells how it ended. From `ContentAssumption`.
- **AdminSession** (`NoneAssumption`, `SupplyAssumption`). `SessionInv`: `isRefreshing` is set while exactly one
  refresh of the tab is under way and while anybody waits (`OneRefresh`); a pair on its way to a page is known to
  nobody else (`PairsAreSecret`), which is why a refresh makes nobody's stored token stale but the presented one; a
  token presented and no longer current is lost or was taken by another tab (`TraceIsKnown`). `EveryMove` adds that
  every step is one of the server's register or none, from which `ServerIsARegister` follows, and that of a token which is
  used up it stays known how (`Traced`). For `LogoutRevokes`, `LogoutsFollow` shows that no step changes the token a
  log-out names, through queue, refresh and repetition, and none lets it be answered with that token usable; so what
  `LogoutEndsSession` misses is exactly the token that was refreshed in between.
- **AdminTasks** (`TasksAssumption`). `PartsStep` says that a step of the whole is a step of each part or leaves it
  alone, so each part has an invariant of its own, and `TasksInv` is their conjunction. `UploadInv` adds types only.
  `GrantsInv`: the calls a save has yet to make are where the role and what was checked still differ.
  `TranslationsInv`: only touched fields differ, and the last request agrees with the flag. `RecordsInv`: an untouched
  form holds what the table said. `TwoFactorInv`: the button's flag keeps a tab from having two calls, and the code
  under way is the authenticator's. `SeedInv`: what was upserted so far is there or was deleted. `AuthInv`: while
  nothing older is under way, the calls of a tab are its user's and bring what that user may, or might, do. `OffersAreTrue`
  goes from there through `ControlsAreBacked`, page by page: whoever sees a control holds what its request needs, but for
  the drifted ones; and `DriftIsAsNamed` has for each of these a set of permissions that sees it and is refused, and shows
  that no other control has one.
  `MaxOpening` and `MaxSecrets` stay fixed numbers here.

Only model-checked: liveness under fairness (`ChangesTakeEffect`, `QueuedJobsSettle`, `SpinnerEnds`), which is out of the
provers' reach, as `ENABLED` is; and the violations.

## 5. Plan

Done: `SessionRegister` and `AuthSessions`; `Rbac`; `Jobs`; `AdminSession` over `SessionRegister`; `KeyedCache`,
`I18nProxy` and `Announcements`, composed in `Content`; `AuthContext` and the pages, and `Seed`, side by side in
`AdminTasks`; `LaggingRegister` and the three caches that implement it; the proofs of all safety properties and of the
refinements.

Left, in this order:

1. For `I18nProxy`, the abstract service its comments promise (something is served at once after the first warm-up) and the
   run that shows the invalidation breaking it.
2. `AuthContext` composed with `AdminSession` instead of its summary of it (`Renewed`, `RenewalFails`, `OtherTab`).
3. The dialogs for passwords and for the roles of users in detail, as `RolePermissions` has those for permissions.
4. The operation logs that the admin app writes after each edit of the translations, and the export: two requests, of
   which the second may not happen.

## 6. What is not modelled, and why

- The HTTP pipeline (envelopes, exception filter, validation, throttling), health, configuration and Prisma
  set-up: no state of their own. The order guard, handler, audit is taken for granted.
- The dashboard and the page of audit logs: they show the last answer and change nothing.
- A statement that throws takes effect before it throws, or not at all: a database that carries it out later still, as
  the upstream of the translations may, is left out.
- `OpsUsersService.update` and the `update` of roles: columns nothing else reads. In the pages they are the text of
  `RecordDialogs`.
- `I18nService.search`, the export and the operation logs; whether an audit record that was sent off arrives.
- In `RolePermissions`, that the checkbox group drops values whose option is missing. In `Seed`, a database that
  existed before the seed: it starts from empty tables.
- That `create` attaches a role under `ops_user:create` alone is modelled (`AttachRole`) without a property: what that
  permission ought to allow is written nowhere. `PROJECT.json` lists this and the other hazards without a property,
  with the reason.
