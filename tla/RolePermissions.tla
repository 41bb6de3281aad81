-------------------------- MODULE RolePermissions --------------------------
(***************************************************************************)
(* The dialog of RolesPage that grants permissions to a role and takes     *)
(* them away.  The API knows single grants only: the page compares what is *)
(* checked with the role as its list had it, and sends the difference as   *)
(* so many calls at once.  One role, one tab, and other administrators.    *)
(***************************************************************************)
EXTENDS Naturals

CONSTANTS Perms,
          Saves    \* slots for clicks on OK whose calls are under way

VARIABLES granted,   \* the permissions of the role
          opening,   \* calls of loadPerms that are awaited before the dialog opens
          role,      \* permissions of assigningRole
          opened, checked,
          saving

vars == <<granted, opening, role, opened, checked, saving>>

MaxOpening == 2    \* bound on opening

\* calls: those under way; want: what was checked; rejected: one has failed.
\* off: history, permissions on which the role differed from the list at the click, or that
\* somebody changed since.
Saving == [pc : {"none", "saving"}, calls : SUBSET Perms, want : SUBSET Perms,
           rejected : BOOLEAN, off : SUBSET Perms]
NoSaving == [pc |-> "none", calls |-> {}, want |-> {}, rejected |-> FALSE, off |-> {}]

TypeOK ==
  /\ granted \in SUBSET Perms /\ role \in SUBSET Perms
  /\ opening \in 0..MaxOpening /\ opened \in BOOLEAN
  /\ checked \in SUBSET Perms
  /\ saving \in [Saves -> Saving]

Init ==
  /\ granted \in SUBSET Perms /\ role = {}
  /\ opening = 0 /\ opened = FALSE
  /\ checked = {}
  /\ saving = [s \in Saves |-> NoSaving]

Differ(a, b) == (a \ b) \cup (b \ a)
-----------------------------------------------------------------------------
\* openAssignPerms: the dialog is for the row as the list had it, whenever that was.
Open ==
  /\ ~opened /\ opening < MaxOpening
  /\ role' \in SUBSET Perms /\ opening' = opening + 1
  /\ UNCHANGED <<granted, opened, checked, saving>>

\* loadPerms is done, perhaps in vain.  As it opens, afterOpenChange checks what the row has.
Show ==
  /\ opening > 0
  /\ opening' = opening - 1 /\ opened' = TRUE
  /\ checked' = IF opened THEN checked ELSE role
  /\ UNCHANGED <<granted, role, saving>>

Toggle(p) ==
  /\ opened
  /\ checked' = Differ(checked, {p})
  /\ UNCHANGED <<granted, opening, role, opened, saving>>

Cancel ==
  /\ opened /\ opened' = FALSE /\ checked' = {}
  /\ UNCHANGED <<granted, opening, role, saving>>

\* Mutant: what is unchecked is not removed.
DifferenceAdded == checked \ role
\* toAdd and toRemove.
Difference == Differ(checked, role)

\* OK, which nothing keeps from being clicked again.
Click(s) ==
  /\ opened /\ saving[s].pc = "none"
  /\ saving' = [saving EXCEPT ![s] =
       [pc |-> "saving", calls |-> Difference, want |-> checked, rejected |-> FALSE, off |-> Differ(granted, role)]]
  /\ UNCHANGED <<granted, opening, role, opened, checked>>

\* Everyone but s notes that p has changed.
Noted(s, p) ==
  [t \in Saves |-> IF t # s /\ saving[t].pc # "none" THEN [saving[t] EXCEPT !.off = @ \cup {p}] ELSE saving[t]]

\* RolesService.assignPermission and removePermission: the call for p is made, and its
\* answer perhaps lost.
Made(s, p) ==
  /\ p \in saving[s].calls
  /\ granted' = IF p \in saving[s].want THEN granted \cup {p} ELSE granted \ {p}
  /\ \E rejected \in {saving[s].rejected, TRUE} :
       saving' = [Noted(s, p) EXCEPT ![s].calls = @ \ {p}, ![s].rejected = rejected]
  /\ UNCHANGED <<opening, role, opened, checked>>

Refused(s, p) ==
  /\ p \in saving[s].calls
  /\ saving' = [saving EXCEPT ![s].calls = @ \ {p}, ![s].rejected = TRUE]
  /\ UNCHANGED <<granted, opening, role, opened, checked>>

Done(s) == saving[s].pc = "saving" /\ ~saving[s].rejected /\ saving[s].calls = {}

\* Promise.all: the dialog that is open by now is closed.
Succeed(s) ==
  /\ Done(s)
  /\ saving' = [saving EXCEPT ![s] = NoSaving]
  /\ opened' = FALSE /\ checked' = {}
  /\ UNCHANGED <<granted, opening, role>>

\* After a failure the dialog stays as it is, with the row it was opened for, while the
\* other calls go on.
Fail(s) ==
  /\ saving[s].pc = "saving" /\ saving[s].rejected /\ saving[s].calls = {}
  /\ saving' = [saving EXCEPT ![s] = NoSaving]
  /\ UNCHANGED <<granted, opening, role, opened, checked>>

\* Another administrator, or the permission is deleted.
Other(p) ==
  /\ granted' = Differ(granted, {p})
  /\ saving' = [s \in Saves |-> IF saving[s].pc = "none" THEN saving[s] ELSE [saving[s] EXCEPT !.off = @ \cup {p}]]
  /\ UNCHANGED <<opening, role, opened, checked>>

Next ==
  \/ Open \/ Show \/ Cancel
  \/ \E p \in Perms : Toggle(p) \/ Other(p)
  \/ \E s \in Saves : Click(s) \/ Succeed(s) \/ Fail(s) \/ (\E p \in Perms : Made(s, p) \/ Refused(s, p))
-----------------------------------------------------------------------------
\* When the page reports success, the role has what was checked and nothing else, but for
\* permissions on which the row in the page was out of date at the click, be it by an
\* earlier attempt of its own that failed half-way, or that others changed while it saved.
SavedMeansAsChecked ==
  [][\A s \in Saves :
       saving[s].pc = "saving" /\ saving'[s].pc = "none" /\ ~saving[s].rejected =>
         Differ(granted, saving[s].want) \subseteq saving[s].off]_vars
=============================================================================
