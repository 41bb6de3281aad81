--------------------------- MODULE RecordDialogs ---------------------------
(***************************************************************************)
(* The pages of users, roles, permissions, flags, configs, announcements   *)
(* and jobs are one program written seven times: a table, a dialog whose   *)
(* form and editingId outlive it, and buttons in a row that send calls for *)
(* the record as the table last had it.  Of a record the model keeps the   *)
(* text that the dialog edits; switches, passwords and roles are sent by   *)
(* calls that leave it alone.  Other administrators edit the same records. *)
(***************************************************************************)
CONSTANTS Rows,    \* ids: given out once
          NoRow, Texts, Empty,
          Calls    \* slots for calls in flight

VARIABLES view,           \* the page
          text,           \* the records
          listed,         \* the same as the table has it
          editing,        \* editingId
          modal,          \* modalOpen
          form,           \* the text in the form
          typed, base,    \* history: whether it was touched; what the table said
          call

dialog == <<editing, modal, form, typed, base>>
vars == <<view, text, listed, dialog, call>>

NoneAssumption == NoRow \notin Rows /\ Texts \cap {Empty, "unused", "gone"} = {}

\* What the rows of each page offer, beside the button that creates: the dialog, other
\* changes, and Delete.
OpsUsersPage == {"update", "act", "delete"}
RolesPage == {"update", "delete"}
PermissionsPage == {"delete"}
FeatureFlagsPage == {"update", "act", "delete"}
RemoteConfigsPage == {"update", "delete"}
AnnouncementsPage == {"update", "act", "delete"}
JobsPage == {}
Views == {OpsUsersPage, RolesPage, PermissionsPage, FeatureFlagsPage, RemoteConfigsPage, AnnouncementsPage, JobsPage}

States == Texts \cup {"unused", "gone"}
Call == [kind : {"none", "create", "update", "act", "delete"}, row : Rows \cup {NoRow},
         text : Texts \cup {Empty}, typed : BOOLEAN, base : Texts \cup {Empty}]
NoCall == [kind |-> "none", row |-> NoRow, text |-> Empty, typed |-> FALSE, base |-> Empty]

TypeOK ==
  /\ view \in Views
  /\ text \in [Rows -> States] /\ listed \in [Rows -> States]
  /\ editing \in Rows \cup {NoRow} /\ modal \in BOOLEAN
  /\ form \in Texts \cup {Empty} /\ typed \in BOOLEAN /\ base \in Texts \cup {Empty}
  /\ call \in [Calls -> Call]

Init ==
  /\ view \in Views
  /\ text \in [Rows -> Texts \cup {"unused"}] /\ listed = text
  /\ editing = NoRow /\ modal = FALSE /\ form = Empty /\ typed = FALSE /\ base = Empty
  /\ call = [c \in Calls |-> NoCall]
-----------------------------------------------------------------------------
(* The page. *)

\* The request of the table: after every success, and when its user asks for it.
Load ==
  /\ listed' = text
  /\ UNCHANGED <<view, text, dialog, call>>

OpenCreate ==
  /\ ~modal /\ modal' = TRUE
  /\ editing' = NoRow /\ form' = Empty /\ typed' = FALSE /\ base' = Empty
  /\ UNCHANGED <<view, text, listed, call>>

\* Mutant: a field of the form is not filled with the record.
OpenEditBare(r) ==
  /\ "update" \in view /\ ~modal /\ listed[r] \in Texts /\ modal' = TRUE
  /\ editing' = r /\ form' = form /\ typed' = FALSE /\ base' = listed[r]
  /\ UNCHANGED <<view, text, listed, call>>

\* setFieldsValue fills what the form shows with the record.
OpenEdit(r) ==
  /\ "update" \in view /\ ~modal /\ listed[r] \in Texts /\ modal' = TRUE
  /\ editing' = r /\ form' = listed[r] /\ typed' = FALSE /\ base' = listed[r]
  /\ UNCHANGED <<view, text, listed, call>>

Type(t) ==
  /\ modal
  /\ form' = t /\ typed' = TRUE
  /\ UNCHANGED <<view, text, listed, editing, modal, base, call>>

Cancel ==
  /\ modal /\ modal' = FALSE
  /\ UNCHANGED <<view, text, listed, editing, form, typed, base, call>>

Sent(c, q) == call[c].kind = "none" /\ call' = [call EXCEPT ![c] = q]

\* handleSubmit sends the whole form.  OK stays clickable while it does.
Submit(c) ==
  /\ modal /\ form # Empty
  /\ Sent(c, [kind |-> IF editing = NoRow THEN "create" ELSE "update",
              row |-> editing, text |-> form, typed |-> typed, base |-> base])
  /\ UNCHANGED <<view, text, listed, dialog>>

\* The buttons of a row: switches and actions, the other dialogs, and Delete.
Press(c, r, kind) ==
  /\ kind \in view /\ ~modal /\ listed[r] \in Texts
  /\ Sent(c, [NoCall EXCEPT !.kind = kind, !.row = r])
  /\ UNCHANGED <<view, text, listed, dialog>>
-----------------------------------------------------------------------------
(* The API. *)

\* What a call makes of the records; a record that is gone is not found.
Made(q) ==
  \/ q.kind = "create" /\ \E r \in Rows : text[r] = "unused" /\ text' = [text EXCEPT ![r] = q.text]
  \/ q.kind = "update" /\ text[q.row] \in Texts /\ text' = [text EXCEPT ![q.row] = q.text]
  \/ q.kind = "delete" /\ text[q.row] \in Texts /\ text' = [text EXCEPT ![q.row] = "gone"]
  \/ q.kind = "act" /\ text[q.row] \in Texts /\ UNCHANGED text

Ends(c) == call[c].kind # "none" /\ call' = [call EXCEPT ![c] = NoCall]

\* The answer to handleSubmit closes whatever dialog is open by now.
Succeed(c) ==
  /\ Made(call[c]) /\ Ends(c)
  /\ modal' = (modal /\ call[c].kind \notin {"create", "update"})
  /\ UNCHANGED <<view, listed, editing, form, typed, base>>

\* An error, be it that the call was made and its answer lost: the dialog stays.
Fail(c) ==
  /\ Ends(c) /\ (Made(call[c]) \/ UNCHANGED text)
  /\ UNCHANGED <<view, listed, dialog>>

\* Another administrator.
Other(r, t) ==
  /\ text[r] \in Texts /\ t # text[r]
  /\ text' = [text EXCEPT ![r] = t]
  /\ UNCHANGED <<view, listed, dialog, call>>

\* The token is renewed and RequirePermission mounts the page anew; its calls go on.
Remount ==
  /\ listed' = text
  /\ editing' = NoRow /\ modal' = FALSE /\ form' = Empty /\ typed' = FALSE /\ base' = Empty
  /\ UNCHANGED <<view, text, call>>

Next ==
  \/ Load \/ OpenCreate \/ Cancel \/ Remount
  \/ \E r \in Rows : OpenEdit(r) \/ (\E t \in Texts : Other(r, t))
  \/ \E t \in Texts : Type(t)
  \/ \E c \in Calls : Submit(c) \/ Succeed(c) \/ Fail(c)
  \/ \E c \in Calls, r \in Rows, kind \in {"act", "delete"} : Press(c, r, kind)
-----------------------------------------------------------------------------
\* One form serves all records and is sent as a whole.  Text that its operator did not type
\* is still the record's own: an update can change a record to it only by putting back
\* what the table had said, when others have changed the record since.
UntypedTextOnlyReverts ==
  [][\A c \in Calls : call[c].kind = "update" /\ call'[c].kind = "none" /\ ~call[c].typed =>
       text' \in {text, [text EXCEPT ![call[c].row] = call[c].base]}]_vars
=============================================================================
