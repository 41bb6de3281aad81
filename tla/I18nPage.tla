------------------------------ MODULE I18nPage ------------------------------
(***************************************************************************)
(* The page of the translations, open in one tab: a table filled by a list *)
(* or a search, and a dialog that edits the row that was shown.  One key   *)
(* stands for all, and of the texts the model keeps only in which          *)
(* languages there are any.  The API is what I18nProxy makes of it: lists  *)
(* may be old, and edits may be made although they failed.                 *)
(***************************************************************************)
CONSTANTS Langs,    \* zh and en
          Queries   \* slots for lists and searches

VARIABLES has,                  \* the languages the key has upstream
          query, latest,        \* lists and searches in flight; history: the last one
          table, searching,     \* items and searching of the page
          dialog,               \* the dialog and its form
          submit,               \* handleSubmit or handleImportFile under way
          shown, excused        \* history: what filled the table; why it may not be the last

page == <<table, searching, dialog>>
history == <<shown, excused>>
vars == <<has, query, latest, page, submit, history>>

Kinds == {"list", "search"}
\* cells: the languages of editingRow.  Of the fields: text, not empty; differs, not what the
\* cell says; typed, history, touched by the operator.
Dialog == [kind : {"closed", "create", "edit"},
           cells : SUBSET Langs, text : SUBSET Langs, differs : SUBSET Langs, typed : SUBSET Langs]
Closed == [kind |-> "closed", cells |-> {}, text |-> {}, differs |-> {}, typed |-> {}]
\* searching: as it was at the click; gone: the page that clicked is.
Submit == [pc : {"none", "sent", "ok"}, kind : {"create", "edit", "import"}, payload : SUBSET Langs,
           searching : BOOLEAN, gone : BOOLEAN]
NoSubmit == [pc |-> "none", kind |-> "create", payload |-> {}, searching |-> FALSE, gone |-> FALSE]

TypeOK ==
  /\ has \in SUBSET Langs
  /\ query \in [Queries -> {"none"} \cup Kinds] /\ latest \in Queries
  /\ table \in SUBSET Langs /\ searching \in BOOLEAN /\ dialog \in Dialog
  /\ submit \in Submit
  /\ shown \in {"none"} \cup Kinds /\ excused \in BOOLEAN

\* A page that has just been mounted has asked for the list.
First == CHOOSE q \in Queries : TRUE
Mounted == [q \in Queries |-> IF q = First THEN "list" ELSE "none"]

Init ==
  /\ has \in SUBSET Langs
  /\ query = Mounted /\ latest = First
  /\ table = {} /\ searching = FALSE /\ dialog = Closed
  /\ submit = NoSubmit
  /\ shown = "none" /\ excused = FALSE
-----------------------------------------------------------------------------
(* fetchList and handleSearch. *)

\* Which free slot a request takes makes no difference.
Free == {q \in Queries : query[q] = "none"}
Slot == CHOOSE q \in Free : TRUE

\* Mutant: fetchList leaves the page searching.
AskHalf(kind) ==
  /\ Free # {}
  /\ query' = [query EXCEPT ![Slot] = kind]
  /\ latest' = Slot
  /\ searching' = (searching \/ kind = "search")

Ask(kind) ==
  /\ Free # {}
  /\ query' = [query EXCEPT ![Slot] = kind]
  /\ latest' = Slot
  /\ searching' = (kind = "search")

\* The search box, or the button that resets it.
Look(kind) ==
  /\ dialog.kind = "closed"
  /\ Ask(kind)
  /\ UNCHANGED <<has, table, dialog, submit, history>>

\* setItems, whatever was asked for since.  A list may be old, and a search may find the
\* key in some of its languages only.
Arrive(q) ==
  /\ query[q] # "none"
  /\ table' \in SUBSET has
  /\ query' = [query EXCEPT ![q] = "none"]
  /\ shown' = query[q] /\ excused' = (q # latest)
  /\ UNCHANGED <<has, latest, searching, dialog, submit>>

\* An error leaves the items alone.
Fail(q) ==
  /\ query[q] # "none"
  /\ query' = [query EXCEPT ![q] = "none"]
  /\ excused' = (excused \/ q = latest)
  /\ UNCHANGED <<has, latest, page, submit, shown>>
-----------------------------------------------------------------------------
(* The dialog. *)

OpenCreate ==
  /\ dialog.kind = "closed"
  /\ dialog' = [Closed EXCEPT !.kind = "create"]
  /\ UNCHANGED <<has, query, latest, table, searching, submit, history>>

\* setFieldsValue for the languages of the table: other fields keep what was last in them.
OpenEdit ==
  /\ dialog.kind = "closed" /\ table # {}
  /\ dialog' = [Closed EXCEPT !.kind = "edit", !.cells = table, !.text = dialog.text \cup table]
  /\ UNCHANGED <<has, query, latest, table, searching, submit, history>>

\* The operator types something new, or what had been there.
Type(l) ==
  /\ dialog.kind # "closed"
  /\ \E differs \in {dialog.differs \cup {l}, dialog.differs \ {l}} :
       /\ differs = dialog.differs \ {l} => l \in dialog.cells
       /\ dialog' = [dialog EXCEPT !.text = @ \cup {l}, !.differs = differs, !.typed = @ \cup {l}]
  /\ UNCHANGED <<has, query, latest, table, searching, submit, history>>

\* The form outlives its dialog.
Shut == [Closed EXCEPT !.text = dialog.text]

Cancel ==
  /\ dialog.kind # "closed"
  /\ dialog' = Shut
  /\ UNCHANGED <<has, query, latest, table, searching, submit, history>>

\* Mutant: whatever the form holds is sent.
PayloadWhole(d) == d.text

\* An edit sends the languages that the row shown had and the form has changed.
Payload(d) == IF d.kind = "create" THEN d.text ELSE d.cells \cap d.differs

\* submitting keeps OK from being clicked twice.  A new key needs every language.
\* Bound: one submission or import at a time.
Click ==
  LET payload == Payload(dialog) IN
  /\ dialog.kind # "closed" /\ submit.pc = "none"
  /\ dialog.kind = "create" => dialog.text = Langs
  /\ IF payload = {}
     THEN dialog' = Shut /\ UNCHANGED submit
     ELSE /\ submit' = [NoSubmit EXCEPT !.pc = "sent", !.kind = dialog.kind, !.payload = payload,
                                        !.searching = searching]
          /\ UNCHANGED dialog
  /\ UNCHANGED <<has, query, latest, table, searching, history>>

\* handleImportFile, which ends by asking for the list.  The file has every language.
Import ==
  /\ dialog.kind = "closed" /\ submit.pc = "none"
  /\ submit' = [NoSubmit EXCEPT !.pc = "sent", !.kind = "import", !.payload = Langs]
  /\ UNCHANGED <<has, query, latest, page, history>>
-----------------------------------------------------------------------------
(* The API. *)

\* The upstream makes the edit, heard or not; a key that is there cannot be created.
Carry ==
  /\ submit.pc = "sent"
  /\ submit.kind = "create" => has = {}
  /\ has' = has \cup submit.payload
  /\ submit' \in {[submit EXCEPT !.pc = "ok", !.payload = {}], NoSubmit}
  /\ UNCHANGED <<query, latest, page, history>>

\* An error: the dialog stays open.
Refuse ==
  /\ submit.pc = "sent"
  /\ submit' = NoSubmit
  /\ UNCHANGED <<has, query, latest, page, history>>

\* The operation log is sent off, which nobody waits for and nothing here depends on.  The
\* dialog that is open by now is closed, and the table filled again as it was at the click.
Succeed ==
  /\ submit.pc = "ok"
  /\ submit' = NoSubmit
  /\ IF submit.gone THEN UNCHANGED <<query, latest, searching, dialog>>
     ELSE /\ Ask(IF submit.searching THEN "search" ELSE "list")
          /\ dialog' = IF submit.kind = "import" THEN dialog ELSE Shut
  /\ UNCHANGED <<has, table, history>>

\* The token is renewed, RequirePermission waits for permissions and the page is mounted anew.
Remount ==
  /\ query' = Mounted /\ latest' = First
  /\ table' = {} /\ searching' = FALSE /\ dialog' = Closed
  /\ shown' = "none" /\ excused' = FALSE
  /\ submit' = [submit EXCEPT !.gone = submit.pc # "none", !.searching = FALSE]
  /\ UNCHANGED <<has>>

Next ==
  \/ \E kind \in Kinds : Look(kind)
  \/ \E q \in Queries : Arrive(q) \/ Fail(q)
  \/ \E l \in Langs : Type(l)
  \/ OpenCreate \/ OpenEdit \/ Cancel \/ Click \/ Import
  \/ Carry \/ Refuse \/ Succeed \/ Remount
-----------------------------------------------------------------------------
\* However old the row in the dialog and whatever an earlier row has left in the form, an
\* edit sends no language whose field its operator left alone: what others have made of
\* that language is not taken back.
EditsSendWhatWasTyped ==
  [][submit.pc = "none" /\ submit'.pc = "sent" /\ submit'.kind = "edit" =>
       submit'.payload # {} /\ submit'.payload \subseteq dialog.typed]_vars

\* At rest, a page that says it is searching shows what a search found, and one that does
\* not shows the list, unless the last request failed or was overtaken by an older answer.
MixedTableIsExplained ==
  (\A q \in Queries : query[q] = "none") /\ shown # "none" =>
    excused \/ (searching <=> shown = "search")
=============================================================================
