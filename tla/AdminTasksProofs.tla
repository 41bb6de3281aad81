-------------------------- MODULE AdminTasksProofs --------------------------
(***************************************************************************)
(* What holds on the pages of admin web and in the tables of the seed, for *)
(* any users, records, languages, permissions, files and requests under    *)
(* way.  Each part has an invariant of its own, and each of its actions a  *)
(* step in the proof that the invariant goes on.                           *)
(***************************************************************************)
EXTENDS AdminTasks, Naturals, Sequences, SequenceTheorems, TLAPS

\* Whatever part a behaviour follows, it starts like each of the parts.
LEMMA PartsStart ==
  Init => /\ Auth!Init /\ Translations!Init /\ Grants!Init /\ Records!Init
          /\ Upload!Init /\ TwoFactor!Init /\ Seeding!Init
  BY DEF Init

\* And each of its steps is one of that part, or none of it.
LEMMA PartsStep ==
  ASSUME [Next]_vars
  PROVE  /\ [Auth!Next]_(Auth!vars) /\ [Translations!Next]_(Translations!vars)
         /\ [Grants!Next]_(Grants!vars) /\ [Records!Next]_(Records!vars)
         /\ [Upload!Next]_(Upload!vars) /\ [TwoFactor!Next]_(TwoFactor!vars)
         /\ [Seeding!Next]_(Seeding!vars)
  BY DEF Next, vars, auth, translations, grants, records, upload, twoFactor, seed,
         Auth!vars, Translations!vars, Translations!page, Translations!history, Grants!vars,
         Records!vars, Records!dialog, Upload!vars, TwoFactor!vars, Seeding!vars
-----------------------------------------------------------------------------
(* Upload: a package that is stored and not served has a reason. *)

\* The page, the uploads under way and the packages, with the reason.
UploadInv == Upload!TypeOK /\ Upload!StalePackageIsExplained

\* The three packages are files, and a run of handleUpload has a state.
LEMMA UploadTypes ==
  ASSUME Upload!TypeOK, [Upload!Next]_(Upload!vars)
  PROVE  Upload!TypeOK'
  <1> USE DEF Upload!TypeOK, Upload!At, Upload!Up, Upload!Page
  <1>1. CASE Upload!GetUrl
    BY <1>1 DEF Upload!GetUrl
  <1>2. CASE Upload!UrlFails
    BY <1>2 DEF Upload!UrlFails
  <1>3. CASE Upload!Settle
    BY <1>3 DEF Upload!Settle
  <1>4. CASE Upload!UrlArrives
    BY <1>4 DEF Upload!UrlArrives, Upload!Mounted
  <1>5. CASE Upload!Remount
    BY <1>5 DEF Upload!Remount, Upload!Mounted
  <1>6. CASE Upload!Close
    BY <1>6 DEF Upload!Close, Upload!Mounted
  <1>7. ASSUME NEW u \in Uploads, NEW f \in Files, Upload!Put(u, f) PROVE Upload!TypeOK'
    BY <1>7 DEF Upload!Put
  <1>8. ASSUME NEW u \in Uploads, Upload!Store(u) PROVE Upload!TypeOK'
    BY <1>8, ZenonT(60) DEF Upload!Store
  <1>9. ASSUME NEW u \in Uploads, Upload!Heard(u) PROVE Upload!TypeOK'
    BY <1>9 DEF Upload!Heard
  <1>10. ASSUME NEW u \in Uploads, Upload!WaitEnds(u) PROVE Upload!TypeOK'
    BY <1>10 DEF Upload!WaitEnds
  <1>11. ASSUME NEW u \in Uploads, Upload!PutFails(u) PROVE Upload!TypeOK'
    BY <1>11, ZenonT(60) DEF Upload!PutFails, Upload!Finish
  <1>12. ASSUME NEW u \in Uploads, Upload!Refresh(u) PROVE Upload!TypeOK'
    BY <1>12, ZenonT(60) DEF Upload!Refresh, Upload!Finish
  <1>13. CASE UNCHANGED Upload!vars
    BY <1>13 DEF Upload!vars
  <1> QED BY <1>1, <1>2, <1>3, <1>4, <1>5, <1>6, <1>7, <1>8, <1>9, <1>10, <1>11, <1>12, <1>13
             DEF Upload!Next

\* At first what is stored is served.
LEMMA UploadStart == Upload!Init => UploadInv
  <1> SUFFICES ASSUME Upload!Init PROVE UploadInv
    OBVIOUS
  <1>1. page \in Upload!Page
    BY DEF Upload!Init, Upload!Page, Upload!Mounted
  <1>2. [pc |-> "none", file |-> package, here |-> FALSE, current |-> FALSE] \in Upload!Up
    BY DEF Upload!Init, Upload!Up
  <1>3. up \in [Uploads -> Upload!Up]
    BY <1>2 DEF Upload!Init
  <1>4. {package, readable, served} \subseteq Files /\ letDown \in BOOLEAN /\ package = served
    BY DEF Upload!Init
  <1> QED BY <1>1, <1>3, <1>4 DEF UploadInv, Upload!TypeOK, Upload!StalePackageIsExplained

\* Only a refresh that falls short, a lost answer or a closed tab leaves it stale.
LEMMA UploadStep ==
  ASSUME UploadInv, [Upload!Next]_(Upload!vars)
  PROVE  UploadInv'
  <1>0. Upload!TypeOK /\ Upload!TypeOK' /\ Upload!StalePackageIsExplained
    BY UploadTypes DEF UploadInv
  <1> SUFFICES Upload!StalePackageIsExplained'
    BY <1>0 DEF UploadInv
  <1> USE <1>0 DEF Upload!TypeOK, Upload!StalePackageIsExplained, Upload!At, Upload!Up
  <1>1. CASE Upload!GetUrl \/ Upload!UrlFails \/ Upload!Settle
    BY <1>1 DEF Upload!GetUrl, Upload!UrlFails, Upload!Settle
  <1>9. CASE Upload!UrlArrives \/ Upload!Remount
    <2>1. ASSUME NEW u \in Uploads PROVE up'[u].pc = up[u].pc
      <3>1. up[u] \in Upload!Up
        OBVIOUS
      <3>2. up'[u] = [up[u] EXCEPT !.current = FALSE] \/ up'[u] = [up[u] EXCEPT !.here = FALSE, !.current = FALSE]
        BY <1>9 DEF Upload!UrlArrives, Upload!Remount
      <3> QED BY <3>1, <3>2
    <2>2. UNCHANGED <<package, served, letDown>>
      BY <1>9 DEF Upload!UrlArrives, Upload!Remount
    <2> QED BY <2>1, <2>2
  <1>2. CASE Upload!Close
    BY <1>2 DEF Upload!Close
  <1>3. ASSUME NEW u \in Uploads, NEW f \in Files, Upload!Put(u, f)
        PROVE  Upload!StalePackageIsExplained'
    BY <1>3 DEF Upload!Put
  <1>4. ASSUME NEW u \in Uploads, Upload!Store(u) PROVE Upload!StalePackageIsExplained'
    BY <1>4 DEF Upload!Store
  <1>5. ASSUME NEW u \in Uploads, Upload!PutFails(u) PROVE Upload!StalePackageIsExplained'
    BY <1>5 DEF Upload!PutFails, Upload!Finish
  <1>6. ASSUME NEW u \in Uploads, Upload!Heard(u) \/ Upload!WaitEnds(u)
        PROVE  Upload!StalePackageIsExplained'
    BY <1>6 DEF Upload!Heard, Upload!WaitEnds
  <1>7. ASSUME NEW u \in Uploads, Upload!Refresh(u) PROVE Upload!StalePackageIsExplained'
    BY <1>7 DEF Upload!Refresh, Upload!Finish
  <1>8. CASE UNCHANGED Upload!vars
    BY <1>8 DEF Upload!vars
  <1> QED BY <1>1, <1>2, <1>3, <1>4, <1>5, <1>6, <1>7, <1>8, <1>9 DEF Upload!Next
-----------------------------------------------------------------------------
(* Translations: the dialog and the table. *)

\* Only a field that was touched can differ from its cell.  The page says what its last
\* request was, while that is under way; afterwards, what it shows.
TranslationsInv ==
  /\ Translations!TypeOK
  /\ dialog.differs \subseteq dialog.typed
  /\ query[latest] # "none" => (searching <=> query[latest] = "search")
  /\ query[latest] = "none" /\ shown # "none" => excused \/ (searching <=> shown = "search")

\* The page has requests, a dialog and a submission.
LEMMA TranslationsTypes ==
  ASSUME Translations!TypeOK, [Translations!Next]_(Translations!vars)
  PROVE  Translations!TypeOK'
  <1> USE DEF Translations!TypeOK, Translations!Dialog, Translations!Submit, Translations!Kinds,
              Translations!page, Translations!history
  <1>1. ASSUME NEW kind \in Translations!Kinds, Translations!Look(kind) PROVE Translations!TypeOK'
    BY <1>1 DEF Translations!Look, Translations!Ask, Translations!Slot, Translations!Free
  <1>2. ASSUME NEW q \in Queries, Translations!Arrive(q) PROVE Translations!TypeOK'
    BY <1>2 DEF Translations!Arrive
  <1>3. ASSUME NEW q \in Queries, Translations!Fail(q) PROVE Translations!TypeOK'
    BY <1>3 DEF Translations!Fail
  <1>4. ASSUME NEW l \in Langs, Translations!Type(l) PROVE Translations!TypeOK'
    <2>1. PICK differs \in SUBSET Langs :
               dialog' = [dialog EXCEPT !.text = @ \cup {l}, !.differs = differs, !.typed = @ \cup {l}]
      BY <1>4 DEF Translations!Type
    <2>2. dialog' \in Translations!Dialog
      BY <2>1
    <2> QED BY <1>4, <2>2 DEF Translations!Type
  <1>5. CASE Translations!OpenCreate
    BY <1>5 DEF Translations!OpenCreate, Translations!Closed, Translations!Shut
  <1>6. CASE Translations!OpenEdit
    BY <1>6 DEF Translations!OpenEdit, Translations!Closed, Translations!Shut
  <1>7. CASE Translations!Cancel
    BY <1>7 DEF Translations!Cancel, Translations!Closed, Translations!Shut
  <1>8. CASE Translations!Click
    <2>1. Translations!Payload(dialog) \in SUBSET Langs
      BY DEF Translations!Payload
    <2>2. Translations!Shut \in Translations!Dialog
      BY DEF Translations!Shut, Translations!Closed
    <2>3. dialog' \in Translations!Dialog
      BY <1>8, <2>2 DEF Translations!Click
    <2>4. submit' \in Translations!Submit
      BY <1>8, <2>1 DEF Translations!Click, Translations!NoSubmit
    <2> QED BY <1>8, <2>3, <2>4 DEF Translations!Click
  <1>9. CASE Translations!Import
    BY <1>9 DEF Translations!Import, Translations!NoSubmit, Translations!Payload, Translations!Closed,
       Translations!Shut
  <1>10. CASE Translations!Carry
    <2>1. [submit EXCEPT !.pc = "ok", !.payload = {}] \in Translations!Submit
      OBVIOUS
    <2>2. Translations!NoSubmit \in Translations!Submit
      BY DEF Translations!NoSubmit
    <2>3. submit' \in Translations!Submit
      BY <1>10, <2>1, <2>2 DEF Translations!Carry
    <2>4. has' \in SUBSET Langs
      BY <1>10 DEF Translations!Carry
    <2> QED BY <1>10, <2>3, <2>4 DEF Translations!Carry
  <1>11. CASE Translations!Refuse
    BY <1>11 DEF Translations!Refuse, Translations!NoSubmit
  <1>12. CASE Translations!Succeed
    BY <1>12, ZenonT(60) DEF Translations!Succeed, Translations!NoSubmit, Translations!Closed, Translations!Shut,
       Translations!Ask, Translations!Slot, Translations!Free
  <1>13. CASE Translations!Remount
    BY <1>13, TasksAssumption DEF Translations!Remount, Translations!Mounted, Translations!First,
       Translations!Closed
  <1>14. CASE UNCHANGED Translations!vars
    BY <1>14 DEF Translations!vars
  <1> QED BY <1>1, <1>2, <1>3, <1>4, <1>5, <1>6, <1>7, <1>8, <1>9, <1>10, <1>11, <1>12, <1>13,
             <1>14 DEF Translations!Next

\* A page that has just been mounted waits for the list.
LEMMA TranslationsStart == Translations!Init => TranslationsInv
  <1> SUFFICES ASSUME Translations!Init PROVE TranslationsInv
    OBVIOUS
  <1>1. Translations!First \in Queries
    BY TasksAssumption DEF Translations!First
  <1>2. query \in [Queries -> {"none"} \cup Translations!Kinds] /\ query[Translations!First] = "list"
    BY <1>1 DEF Translations!Init, Translations!Mounted, Translations!Kinds
  <1>3. dialog \in Translations!Dialog /\ dialog.differs = {}
    BY DEF Translations!Init, Translations!Closed, Translations!Dialog
  <1>4. submit \in Translations!Submit
    BY DEF Translations!Init, Translations!NoSubmit, Translations!Submit
  <1> QED BY <1>1, <1>2, <1>3, <1>4 DEF TranslationsInv, Translations!Init, Translations!TypeOK

\* Answers come in any order, and only to the last request does the table owe anything.
LEMMA TranslationsStep ==
  ASSUME TranslationsInv, [Translations!Next]_(Translations!vars)
  PROVE  TranslationsInv'
  <1>0. Translations!TypeOK'
    BY TranslationsTypes DEF TranslationsInv
  <1> USE <1>0 DEF TranslationsInv, Translations!TypeOK, Translations!Dialog, Translations!Kinds,
                   Translations!page, Translations!history
  <1>1. ASSUME NEW kind \in Translations!Kinds, Translations!Look(kind) PROVE TranslationsInv'
    BY <1>1 DEF Translations!Look, Translations!Ask, Translations!Slot, Translations!Free
  <1>2. ASSUME NEW q \in Queries, Translations!Arrive(q) PROVE TranslationsInv'
    BY <1>2 DEF Translations!Arrive
  <1>3. ASSUME NEW q \in Queries, Translations!Fail(q) PROVE TranslationsInv'
    BY <1>3 DEF Translations!Fail
  <1>4. ASSUME NEW l \in Langs, Translations!Type(l) PROVE TranslationsInv'
    <2>1. PICK differs \in SUBSET Langs :
               /\ differs \in {dialog.differs \cup {l}, dialog.differs \ {l}}
               /\ dialog' = [dialog EXCEPT !.text = @ \cup {l}, !.differs = differs, !.typed = @ \cup {l}]
      BY <1>4 DEF Translations!Type
    <2>2. dialog'.differs \subseteq dialog'.typed
      BY <2>1
    <2> QED BY <1>4, <2>2 DEF Translations!Type
  <1>5. CASE Translations!OpenCreate
    BY <1>5 DEF Translations!OpenCreate, Translations!Closed
  <1>6. CASE Translations!OpenEdit
    BY <1>6 DEF Translations!OpenEdit, Translations!Closed
  <1>7. CASE Translations!Cancel
    BY <1>7 DEF Translations!Cancel, Translations!Closed, Translations!Shut
  <1>8. CASE Translations!Click
    BY <1>8 DEF Translations!Click, Translations!Closed, Translations!Shut
  <1>9. CASE Translations!Import
    BY <1>9 DEF Translations!Import
  <1>10. CASE Translations!Carry
    BY <1>10 DEF Translations!Carry
  <1>11. CASE Translations!Refuse
    BY <1>11 DEF Translations!Refuse
  <1>12. CASE Translations!Succeed
    <2>1. dialog'.differs \subseteq dialog'.typed
      BY <1>12 DEF Translations!Succeed, Translations!Closed, Translations!Shut
    <2> QED BY <1>12, <2>1 DEF Translations!Succeed, Translations!Ask, Translations!Slot,
               Translations!Free
  <1>13. CASE Translations!Remount
    BY <1>13, TasksAssumption DEF Translations!Remount, Translations!Mounted, Translations!First,
       Translations!Closed
  <1>14. CASE UNCHANGED Translations!vars
    BY <1>14 DEF Translations!vars
  <1> QED BY <1>1, <1>2, <1>3, <1>4, <1>5, <1>6, <1>7, <1>8, <1>9, <1>10, <1>11, <1>12, <1>13,
             <1>14 DEF Translations!Next

\* OK sends what differs, which was typed.
LEMMA EditsSend ==
  ASSUME TranslationsInv, [Translations!Next]_(Translations!vars),
         submit.pc = "none", submit'.pc = "sent", submit'.kind = "edit"
  PROVE  submit'.payload # {} /\ submit'.payload \subseteq dialog.typed
  <1>1. CASE Translations!Click
    <2>1. Translations!Payload(dialog) # {} /\ dialog.kind = "edit" /\ submit'.payload = Translations!Payload(dialog)
      BY <1>1 DEF Translations!Click, Translations!NoSubmit
    <2> QED BY <2>1 DEF Translations!Payload, TranslationsInv
  <1>2. submit # submit' /\ submit' # Translations!NoSubmit
    BY DEF Translations!NoSubmit
  <1>3. ~Translations!Import /\ ~Translations!Carry /\ ~Translations!Refuse /\ ~Translations!Succeed
    BY <1>2 DEF Translations!Import, Translations!Carry, Translations!Refuse, Translations!Succeed,
       Translations!NoSubmit
  <1>4. ~Translations!Remount
    BY DEF Translations!Remount, TranslationsInv, Translations!TypeOK, Translations!Submit
  <1>5. UNCHANGED submit \/ Translations!Click
    BY <1>3, <1>4 DEF Translations!Next, Translations!vars, Translations!page, Translations!Look,
       Translations!Arrive,
           Translations!Fail, Translations!Type, Translations!OpenCreate, Translations!OpenEdit, Translations!Cancel
  <1> QED BY <1>1, <1>2, <1>5
-----------------------------------------------------------------------------
(* Grants: the calls of a save. *)

\* While none of its calls has failed, a save has yet to make those on which the role differs
\* from what was checked, but for the differences it need not answer for.
GrantsInv ==
  /\ Grants!TypeOK
  /\ \A s \in Saves : saving[s].pc = "saving" /\ ~saving[s].rejected =>
       Grants!Differ(granted, saving[s].want) \subseteq saving[s].off \cup saving[s].calls

\* A call of a save has ended, perhaps with an error.
LEMMA SaveGoesOn ==
  ASSUME NEW n \in [Saves -> Grants!Saving], NEW m, NEW s \in Saves, NEW p, NEW rejected \in BOOLEAN,
         m = [n EXCEPT ![s].calls = @ \ {p}, ![s].rejected = rejected]
  PROVE  m \in [Saves -> Grants!Saving]
  BY ZenonT(60) DEF Grants!Saving

\* The role, the dialog and its saves are sets of permissions.
LEMMA GrantsTypes ==
  ASSUME Grants!TypeOK, [Grants!Next]_(Grants!vars)
  PROVE  Grants!TypeOK'
  <1> USE DEF Grants!TypeOK, Grants!Saving, Grants!Differ, Grants!MaxOpening
  <1>1. CASE Grants!Open
    BY <1>1 DEF Grants!Open
  <1>2. CASE Grants!Show
    BY <1>2 DEF Grants!Show
  <1>3. CASE Grants!Cancel
    BY <1>3 DEF Grants!Cancel
  <1>4. ASSUME NEW p \in Perms, Grants!Toggle(p) PROVE Grants!TypeOK'
    BY <1>4 DEF Grants!Toggle
  <1>5. ASSUME NEW p \in Perms, Grants!Other(p) PROVE Grants!TypeOK'
    BY <1>5 DEF Grants!Other
  <1>6. ASSUME NEW s \in Saves, Grants!Click(s) PROVE Grants!TypeOK'
    BY <1>6 DEF Grants!Click, Grants!Difference
  <1>7. ASSUME NEW s \in Saves, Grants!Succeed(s) PROVE Grants!TypeOK'
    BY <1>7 DEF Grants!Succeed, Grants!NoSaving, Grants!Done
  <1>8. ASSUME NEW s \in Saves, Grants!Fail(s) PROVE Grants!TypeOK'
    BY <1>8 DEF Grants!Fail, Grants!NoSaving, Grants!Done
  <1>9. ASSUME NEW s \in Saves, NEW p \in Perms, Grants!Made(s, p) PROVE Grants!TypeOK'
    <2>1. PICK n : n = Grants!Noted(s, p)
      OBVIOUS
    <2>2. n \in [Saves -> Grants!Saving]
      BY <2>1 DEF Grants!Noted
    <2>3. PICK rejected \in BOOLEAN : saving' = [n EXCEPT ![s].calls = @ \ {p}, ![s].rejected = rejected]
      BY <1>9, <2>1 DEF Grants!Made
    <2> HIDE DEF Grants!Saving
    <2>4. saving' \in [Saves -> Grants!Saving]
      BY <2>2, <2>3, SaveGoesOn
    <2>5. granted' \in SUBSET Perms
      BY <1>9 DEF Grants!Made
    <2> QED BY <1>9, <2>4, <2>5 DEF Grants!Made
  <1>10. ASSUME NEW s \in Saves, NEW p \in Perms, Grants!Refused(s, p) PROVE Grants!TypeOK'
    BY <1>10, ZenonT(60) DEF Grants!Refused
  <1>11. CASE UNCHANGED Grants!vars
    BY <1>11 DEF Grants!vars
  <1> QED BY <1>1, <1>2, <1>3, <1>4, <1>5, <1>6, <1>7, <1>8, <1>9, <1>10, <1>11 DEF Grants!Next

\* Nothing is being saved.
LEMMA GrantsStart == Grants!Init => GrantsInv
  <1> SUFFICES ASSUME Grants!Init PROVE GrantsInv
    OBVIOUS
  <1>1. saving = [s \in Saves |-> Grants!NoSaving] /\ Grants!NoSaving \in Grants!Saving
    BY DEF Grants!Init, Grants!NoSaving, Grants!Saving
  <1>2. saving \in [Saves -> Grants!Saving] /\ \A s \in Saves : saving[s].pc = "none"
    BY <1>1 DEF Grants!NoSaving
  <1>3. granted \in SUBSET Perms /\ role \in SUBSET Perms /\ checked \in SUBSET Perms /\ opened \in BOOLEAN
    BY DEF Grants!Init
  <1>5. opening \in 0..Grants!MaxOpening
    BY DEF Grants!Init, Grants!MaxOpening
  <1>4. Grants!TypeOK
    BY <1>2, <1>3, <1>5 DEF Grants!TypeOK
  <1> QED BY <1>2, <1>4 DEF GrantsInv

\* Each call settles its permission, and who else changes one is noted.
LEMMA GrantsStep ==
  ASSUME GrantsInv, [Grants!Next]_(Grants!vars)
  PROVE  GrantsInv'
  <1>0. Grants!TypeOK'
    BY GrantsTypes DEF GrantsInv
  <1> SUFFICES ASSUME NEW t \in Saves, saving'[t].pc = "saving", ~saving'[t].rejected
               PROVE  Grants!Differ(granted', saving'[t].want) \subseteq saving'[t].off \cup saving'[t].calls
    BY <1>0 DEF GrantsInv, Grants!Differ
  <1>1. saving[t] \in Grants!Saving /\ saving'[t] \in Grants!Saving
    BY <1>0 DEF GrantsInv, Grants!TypeOK
  <1>2. saving[t].pc = "saving" /\ ~saving[t].rejected =>
          Grants!Differ(granted, saving[t].want) \subseteq saving[t].off \cup saving[t].calls
    BY DEF GrantsInv
  <1> USE <1>1, <1>2 DEF GrantsInv, Grants!TypeOK, Grants!Saving, Grants!Differ
  <1>3. CASE UNCHANGED <<granted, saving>>
    BY <1>3
  <1>4. ASSUME NEW p \in Perms, Grants!Other(p)
        PROVE  Grants!Differ(granted', saving'[t].want) \subseteq saving'[t].off \cup saving'[t].calls
    BY <1>4 DEF Grants!Other
  <1>5. ASSUME NEW s \in Saves, Grants!Click(s)
        PROVE  Grants!Differ(granted', saving'[t].want) \subseteq saving'[t].off \cup saving'[t].calls
    BY <1>5 DEF Grants!Click, Grants!Difference
  <1>6. ASSUME NEW s \in Saves, Grants!Succeed(s) \/ Grants!Fail(s)
        PROVE  Grants!Differ(granted', saving'[t].want) \subseteq saving'[t].off \cup saving'[t].calls
    BY <1>6 DEF Grants!Succeed, Grants!Fail, Grants!NoSaving
  <1>7. ASSUME NEW s \in Saves, NEW p \in Perms, Grants!Made(s, p)
        PROVE  Grants!Differ(granted', saving'[t].want) \subseteq saving'[t].off \cup saving'[t].calls
    <2>1. granted' = IF p \in saving[s].want THEN granted \cup {p} ELSE granted \ {p}
      BY <1>7 DEF Grants!Made
    <2>2. PICK n : n = Grants!Noted(s, p)
      OBVIOUS
    <2>3. PICK rejected \in {saving[s].rejected, TRUE} :
               saving' = [n EXCEPT ![s].calls = @ \ {p}, ![s].rejected = rejected]
      BY <1>7, <2>2 DEF Grants!Made
    <2>4. n[t] = IF t # s /\ saving[t].pc # "none" THEN [saving[t] EXCEPT !.off = @ \cup {p}] ELSE saving[t]
      BY <2>2 DEF Grants!Noted
    <2>5. CASE t = s
      <3>1. n[t] = saving[t] /\ n \in [Saves -> Grants!Saving]
        BY <2>2, <2>4, <2>5 DEF Grants!Noted
      <3>2. saving'[t] = [saving[t] EXCEPT !.calls = @ \ {p}, !.rejected = rejected]
        BY <2>3, <2>5, <3>1
      <3>3. saving'[t].pc = saving[t].pc /\ saving'[t].want = saving[t].want /\ saving'[t].off = saving[t].off
            /\ saving'[t].calls = saving[t].calls \ {p} /\ saving'[t].rejected = rejected
        BY <3>2
      <3>4. ~saving[t].rejected
        BY <2>3, <2>5, <3>3
      <3>5. Grants!Differ(granted, saving[t].want) \subseteq saving[t].off \cup saving[t].calls
        BY <1>2, <3>3, <3>4
      <3> QED BY <2>1, <2>5, <3>3, <3>5
    <2>6. CASE t # s
      <3>1. saving'[t] = [saving[t] EXCEPT !.off = @ \cup {p}]
        BY <2>2, <2>3, <2>4, <2>6 DEF Grants!Noted
      <3> QED BY <2>1, <3>1
    <2> QED BY <2>5, <2>6
  <1>8. ASSUME NEW s \in Saves, NEW p \in Perms, Grants!Refused(s, p)
        PROVE  Grants!Differ(granted', saving'[t].want) \subseteq saving'[t].off \cup saving'[t].calls
    BY <1>8 DEF Grants!Refused
  <1>9. CASE Grants!Open \/ Grants!Show \/ Grants!Cancel \/ (\E p \in Perms : Grants!Toggle(p))
    BY <1>3, <1>9 DEF Grants!Open, Grants!Show, Grants!Cancel, Grants!Toggle
  <1>10. CASE UNCHANGED Grants!vars
    BY <1>3, <1>10 DEF Grants!vars
  <1> QED BY <1>4, <1>5, <1>6, <1>7, <1>8, <1>9, <1>10 DEF Grants!Next

\* A save without failures ends when it has no calls left.
LEMMA SavedMeans ==
  ASSUME GrantsInv, [Grants!Next]_(Grants!vars), NEW s \in Saves,
         saving[s].pc = "saving", saving'[s].pc = "none", ~saving[s].rejected
  PROVE  Grants!Differ(granted, saving[s].want) \subseteq saving[s].off
  <1> USE DEF GrantsInv, Grants!TypeOK, Grants!Saving
  <1>1. ASSUME NEW t \in Saves, Grants!Succeed(t) \/ Grants!Fail(t) PROVE saving[s].calls = {}
    BY <1>1 DEF Grants!Succeed, Grants!Done, Grants!Fail
  <1>2. ASSUME NEW p \in Perms, Grants!Other(p) PROVE FALSE
    BY <1>2 DEF Grants!Other
  <1>3. ASSUME NEW t \in Saves, Grants!Click(t) PROVE FALSE
    BY <1>3 DEF Grants!Click
  <1>4. ASSUME NEW t \in Saves, NEW p \in Perms, Grants!Made(t, p) PROVE FALSE
    <2>1. Grants!Noted(t, p) \in [Saves -> Grants!Saving] /\ Grants!Noted(t, p)[s].pc = "saving"
      BY DEF Grants!Noted
    <2> QED BY <1>4, <2>1 DEF Grants!Made
  <1>5. ASSUME NEW t \in Saves, NEW p \in Perms, Grants!Refused(t, p) PROVE FALSE
    BY <1>5 DEF Grants!Refused
  <1>6. CASE UNCHANGED saving
    BY <1>6
  <1>7. saving[s].calls = {}
    BY <1>1, <1>2, <1>3, <1>4, <1>5, <1>6
       DEF Grants!Next, Grants!vars, Grants!Open, Grants!Show, Grants!Cancel, Grants!Toggle
  <1> QED BY <1>7
-----------------------------------------------------------------------------
(* Records: the form and its calls. *)

\* An update carries text that was typed, or what the table said.
CallIsSound(c) ==
  /\ call[c].kind \in {"create", "update"} => call[c].text \in Texts
  /\ call[c].kind = "update" /\ ~call[c].typed => call[c].text = call[c].base

\* So does a form that edits a record and that nobody has touched.
RecordsInv ==
  /\ Records!TypeOK
  /\ modal /\ editing # NoRow /\ ~typed => form = base
  /\ \A c \in RecordCalls : CallIsSound(c)

\* Records, the form and the calls hold texts.
LEMMA RecordsTypes ==
  ASSUME RecordsInv, [Records!Next]_(Records!vars)
  PROVE  Records!TypeOK'
  <1> USE DEF RecordsInv, Records!TypeOK, Records!Call, Records!States, Records!dialog
  <1>1. CASE Records!Load
    BY <1>1 DEF Records!Load
  <1>2. CASE Records!OpenCreate
    BY <1>2 DEF Records!OpenCreate
  <1>3. CASE Records!Cancel
    BY <1>3 DEF Records!Cancel
  <1>4. CASE Records!Remount
    BY <1>4 DEF Records!Remount
  <1>5. ASSUME NEW r \in Rows, Records!OpenEdit(r) PROVE Records!TypeOK'
    BY <1>5 DEF Records!OpenEdit
  <1>6. ASSUME NEW r \in Rows, NEW t \in Texts, Records!Other(r, t) PROVE Records!TypeOK'
    BY <1>6 DEF Records!Other
  <1>7. ASSUME NEW t \in Texts, Records!Type(t) PROVE Records!TypeOK'
    BY <1>7 DEF Records!Type
  <1>8. ASSUME NEW c \in RecordCalls, Records!Submit(c) PROVE Records!TypeOK'
    BY <1>8 DEF Records!Submit, Records!Sent
  <1>9. ASSUME NEW c \in RecordCalls, Records!Succeed(c) PROVE Records!TypeOK'
    <2>1. call[c] \in Records!Call /\ Records!NoCall \in Records!Call
      BY DEF Records!NoCall
    <2>2. call' \in [RecordCalls -> Records!Call]
      BY <1>9, <2>1 DEF Records!Succeed, Records!Ends
    <2>3. call[c].kind \in {"create", "update"} => call[c].text \in Texts
      BY DEF RecordsInv, CallIsSound
    <2>4. text' \in [Rows -> Records!States]
      BY <1>9, <2>3 DEF Records!Succeed, Records!Made
    <2> QED BY <1>9, <2>2, <2>4 DEF Records!Succeed
  <1>10. ASSUME NEW c \in RecordCalls, Records!Fail(c) PROVE Records!TypeOK'
    <2>1. call[c] \in Records!Call /\ Records!NoCall \in Records!Call
      BY DEF Records!NoCall
    <2>2. call' \in [RecordCalls -> Records!Call]
      BY <1>10, <2>1 DEF Records!Fail, Records!Ends
    <2>3. call[c].kind \in {"create", "update"} => call[c].text \in Texts
      BY DEF RecordsInv, CallIsSound
    <2>4. text' \in [Rows -> Records!States]
      BY <1>10, <2>3 DEF Records!Fail, Records!Made
    <2> QED BY <1>10, <2>2, <2>4 DEF Records!Fail
  <1>11. ASSUME NEW c \in RecordCalls, NEW r \in Rows, NEW kind \in {"act", "delete"}, Records!Press(c, r, kind)
         PROVE  Records!TypeOK'
    BY <1>11 DEF Records!Press, Records!Sent, Records!NoCall
  <1>12. CASE UNCHANGED Records!vars
    BY <1>12 DEF Records!vars
  <1> QED BY <1>1, <1>2, <1>3, <1>4, <1>5, <1>6, <1>7, <1>8, <1>9, <1>10, <1>11, <1>12 DEF Records!Next

\* No calls, and no dialog.
LEMMA RecordsStart == Records!Init => RecordsInv
  <1> SUFFICES ASSUME Records!Init PROVE RecordsInv
    OBVIOUS
  <1>1. Records!NoCall \in Records!Call
    BY DEF Records!NoCall, Records!Call
  <1>2. call \in [RecordCalls -> Records!Call] /\ \A c \in RecordCalls : call[c].kind = "none"
    BY <1>1 DEF Records!Init, Records!NoCall
  <1>3. text \in [Rows -> Records!States] /\ listed \in [Rows -> Records!States]
    BY DEF Records!Init, Records!States
  <1>4. /\ view \in Records!Views /\ editing \in Rows \cup {NoRow} /\ modal \in BOOLEAN /\ typed \in BOOLEAN
        /\ form \in Texts \cup {Empty} /\ base \in Texts \cup {Empty} /\ ~modal
    BY DEF Records!Init
  <1>5. Records!TypeOK
    BY <1>2, <1>3, <1>4 DEF Records!TypeOK
  <1> QED BY <1>2, <1>4, <1>5 DEF RecordsInv, CallIsSound

\* The form is filled when the dialog opens, and sent as it is.
LEMMA RecordsStep ==
  ASSUME RecordsInv, [Records!Next]_(Records!vars)
  PROVE  RecordsInv'
  <1>0. Records!TypeOK'
    BY RecordsTypes
  <1>1. RecordsInv' <=> (modal' /\ editing' # NoRow /\ ~typed' => form' = base') /\ \A c \in RecordCalls : CallIsSound(c)'
    BY <1>0 DEF RecordsInv
  <1> USE DEF RecordsInv, CallIsSound, Records!TypeOK, Records!Call
  <1>2. CASE UNCHANGED call /\ (modal' /\ editing' # NoRow /\ ~typed' => form' = base')
    BY <1>1, <1>2
  <1>3. CASE Records!Load \/ Records!OpenCreate \/ Records!Cancel \/ Records!Remount
    BY <1>2, <1>3 DEF Records!Load, Records!OpenCreate, Records!Cancel, Records!Remount, Records!dialog
  <1>4. ASSUME NEW r \in Rows, Records!OpenEdit(r) PROVE RecordsInv'
    BY <1>2, <1>4 DEF Records!OpenEdit
  <1>5. ASSUME NEW r \in Rows, NEW t \in Texts, Records!Other(r, t) PROVE RecordsInv'
    BY <1>2, <1>5 DEF Records!Other, Records!dialog
  <1>6. ASSUME NEW t \in Texts, Records!Type(t) PROVE RecordsInv'
    BY <1>2, <1>6 DEF Records!Type
  <1>7. ASSUME NEW c \in RecordCalls, Records!Submit(c) PROVE RecordsInv'
    <2>1. PICK q : /\ q = [kind |-> IF editing = NoRow THEN "create" ELSE "update",
                           row |-> editing, text |-> form, typed |-> typed, base |-> base]
                   /\ call' = [call EXCEPT ![c] = q]
      BY <1>7 DEF Records!Submit, Records!Sent
    <2>2. ASSUME NEW d \in RecordCalls PROVE CallIsSound(d)'
      <3>1. CASE d = c
        <4>1. call'[d] = q
          BY <2>1, <3>1
        <4>2. form \in Texts /\ modal
          BY <1>7 DEF Records!Submit
        <4> QED BY <2>1, <4>1, <4>2
      <3>2. CASE d # c
        BY <2>1, <3>2
      <3> QED BY <3>1, <3>2
    <2> QED BY <1>1, <1>7, <2>2 DEF Records!Submit, Records!dialog
  <1>8. ASSUME NEW c \in RecordCalls, call' = [call EXCEPT ![c] = Records!NoCall]
        PROVE  \A d \in RecordCalls : CallIsSound(d)'
    BY <1>8 DEF Records!NoCall
  <1>9. ASSUME NEW c \in RecordCalls, Records!Succeed(c) \/ Records!Fail(c) PROVE RecordsInv'
    BY <1>1, <1>8, <1>9 DEF Records!Succeed, Records!Fail, Records!Ends, Records!dialog
  <1>10. ASSUME NEW c \in RecordCalls, NEW r \in Rows, NEW kind \in {"act", "delete"}, Records!Press(c, r, kind)
        PROVE  RecordsInv'
    <2>1. ASSUME NEW d \in RecordCalls PROVE CallIsSound(d)'
      <3>1. call'[d] = call[d] \/ call'[d] = [Records!NoCall EXCEPT !.kind = kind, !.row = r]
        BY <1>10 DEF Records!Press, Records!Sent
      <3> QED BY <3>1 DEF Records!NoCall
    <2> QED BY <1>1, <1>10, <2>1 DEF Records!Press, Records!dialog
  <1>11. CASE UNCHANGED Records!vars
    BY <1>2, <1>11 DEF Records!vars, Records!dialog
  <1> QED BY <1>3, <1>4, <1>5, <1>6, <1>7, <1>9, <1>10, <1>11 DEF Records!Next

\* Where an untouched form ends up.
LEMMA UntypedReverts ==
  ASSUME RecordsInv, [Records!Next]_(Records!vars), NEW c \in RecordCalls,
         call[c].kind = "update", call'[c].kind = "none", ~call[c].typed
  PROVE  text' \in {text, [text EXCEPT ![call[c].row] = call[c].base]}
  <1> USE DEF RecordsInv, CallIsSound, Records!TypeOK, Records!Call
  <1>1. CASE Records!Succeed(c) \/ Records!Fail(c)
    BY <1>1 DEF Records!Succeed, Records!Fail, Records!Made
  <1>2. ASSUME NEW d \in RecordCalls, d # c, Records!Succeed(d) \/ Records!Fail(d) PROVE FALSE
    BY <1>2 DEF Records!Succeed, Records!Fail, Records!Ends
  <1>3. ASSUME NEW d \in RecordCalls, Records!Submit(d) PROVE FALSE
    BY <1>3 DEF Records!Submit, Records!Sent
  <1>4. ASSUME NEW d \in RecordCalls, NEW r \in Rows, NEW kind \in {"act", "delete"}, Records!Press(d, r, kind)
        PROVE  FALSE
    BY <1>4 DEF Records!Press, Records!Sent
  <1>5. CASE UNCHANGED call
    BY <1>5
  <1> QED BY <1>1, <1>2, <1>3, <1>4, <1>5
             DEF Records!Next, Records!vars, Records!Load, Records!OpenCreate, Records!Cancel,
             Records!Remount, Records!OpenEdit, Records!Other, Records!Type
-----------------------------------------------------------------------------
(* TwoFactor: the modal in several tabs. *)

\* A tab that waits for one of its calls makes no other, and no scan either.  So the secret and
\* the authenticator stay with its code, unless others meddle.
TabIsSound(t) ==
  /\ setup[t].pc # "none" => modal2FA[t].loading /\ enable[t].pc = "none"
  /\ enable[t].pc # "none" =>
       /\ modal2FA[t].loading /\ modal2FA[t].step # "scan"
       /\ enable[t].code # 0
       /\ authenticator = enable[t].code \/ meddled[t]
  /\ enable[t].pc \in {"checked", "served"} => secret # 0 /\ (enable[t].code = secret \/ meddled[t])

TwoFactorInv == TwoFactor!TypeOK /\ \A t \in Tabs : TabIsSound(t)

\* The modal, its calls and the secrets.
LEMMA TwoFactorTypes ==
  ASSUME TwoFactorInv, [TwoFactor!Next]_(TwoFactor!vars)
  PROVE  TwoFactor!TypeOK'
  <1>0. TwoFactor!TypeOK
    BY DEF TwoFactorInv
  <1> USE <1>0 DEF TwoFactor!TypeOK, TwoFactor!Secrets, TwoFactor!MaxSecrets, TwoFactor!Modal, TwoFactor!Setup, TwoFactor!Enable
  <1>1. CASE TwoFactor!ServeStray
    <2>1. meddled' \in [Tabs -> BOOLEAN]
      BY <1>1 DEF TwoFactor!ServeStray, TwoFactor!Meddles
    <2>2. secret' \in 0..3 /\ secret' # 0
      BY <1>1 DEF TwoFactor!ServeStray
    <2> QED BY <1>1, <2>1, <2>2 DEF TwoFactor!ServeStray
  <1>2. ASSUME NEW t \in Tabs, TwoFactor!Open(t) PROVE TwoFactor!TypeOK'
    BY <1>2, ZenonT(60) DEF TwoFactor!Open
  <1>3. ASSUME NEW t \in Tabs, TwoFactor!Close(t) PROVE TwoFactor!TypeOK'
    <2>1. modal2FA[t] \in TwoFactor!Modal
      OBVIOUS
    <2>2. [modal2FA[t] EXCEPT !.open = FALSE, !.step = "init"] \in TwoFactor!Modal
      BY <1>3, <2>1 DEF TwoFactor!Close
    <2> HIDE DEF TwoFactor!Modal
    <2>3. modal2FA' = [modal2FA EXCEPT ![t] = [modal2FA[t] EXCEPT !.open = FALSE, !.step = "init"]]
      BY <1>3 DEF TwoFactor!Close
    <2>4. modal2FA' \in [Tabs -> TwoFactor!Modal]
      BY <2>2, <2>3
    <2> QED BY <1>3, <2>4 DEF TwoFactor!Close
  <1>4. ASSUME NEW t \in Tabs, TwoFactor!AskSetup(t) PROVE TwoFactor!TypeOK'
    <2>1. modal2FA[t] \in TwoFactor!Modal
      OBVIOUS
    <2>2. [modal2FA[t] EXCEPT !.loading = TRUE] \in TwoFactor!Modal
      BY <1>4, <2>1 DEF TwoFactor!AskSetup
    <2> HIDE DEF TwoFactor!Modal
    <2>3. modal2FA' = [modal2FA EXCEPT ![t] = [modal2FA[t] EXCEPT !.loading = TRUE]]
      BY <1>4 DEF TwoFactor!AskSetup
    <2>4. modal2FA' \in [Tabs -> TwoFactor!Modal]
      BY <2>2, <2>3
    <2> QED BY <1>4, <2>4 DEF TwoFactor!AskSetup
  <1>5. ASSUME NEW t \in Tabs, TwoFactor!ServeSetup(t) PROVE TwoFactor!TypeOK'
    BY <1>5 DEF TwoFactor!ServeSetup, TwoFactor!Meddles
  <1>6. ASSUME NEW t \in Tabs, TwoFactor!SetupArrives(t) PROVE TwoFactor!TypeOK'
    <2>1. modal2FA[t] \in TwoFactor!Modal
      OBVIOUS
    <2>2. [modal2FA[t] EXCEPT !.step = "scan", !.loading = FALSE, !.qr = setup[t].got] \in TwoFactor!Modal
      BY <1>6, <2>1 DEF TwoFactor!SetupArrives
    <2> HIDE DEF TwoFactor!Modal
    <2>3. modal2FA' = [modal2FA EXCEPT ![t] = [modal2FA[t] EXCEPT !.step = "scan", !.loading = FALSE, !.qr = setup[t].got]]
      BY <1>6 DEF TwoFactor!SetupArrives
    <2>4. modal2FA' \in [Tabs -> TwoFactor!Modal]
      BY <2>2, <2>3
    <2> QED BY <1>6, <2>4 DEF TwoFactor!SetupArrives, TwoFactor!NoSetup
  <1>7. ASSUME NEW t \in Tabs, TwoFactor!SetupFails(t) PROVE TwoFactor!TypeOK'
    <2>1. modal2FA[t] \in TwoFactor!Modal
      OBVIOUS
    <2>2. [modal2FA[t] EXCEPT !.loading = FALSE] \in TwoFactor!Modal
      BY <1>7, <2>1 DEF TwoFactor!SetupFails
    <2> HIDE DEF TwoFactor!Modal
    <2>3. modal2FA' = [modal2FA EXCEPT ![t] = [modal2FA[t] EXCEPT !.loading = FALSE]]
      BY <1>7 DEF TwoFactor!SetupFails
    <2>4. modal2FA' \in [Tabs -> TwoFactor!Modal]
      BY <2>2, <2>3
    <2>5. stray' \in BOOLEAN
      BY <1>7 DEF TwoFactor!SetupFails
    <2> QED BY <1>7, <2>4, <2>5 DEF TwoFactor!SetupFails, TwoFactor!NoSetup
  <1>8. ASSUME NEW t \in Tabs, TwoFactor!Scan(t) PROVE TwoFactor!TypeOK'
    BY <1>8 DEF TwoFactor!Scan, TwoFactor!Meddles
  <1>9. ASSUME NEW t \in Tabs, TwoFactor!Verify(t) PROVE TwoFactor!TypeOK'
    <2>1. modal2FA[t] \in TwoFactor!Modal
      OBVIOUS
    <2>2. [modal2FA[t] EXCEPT !.step = "verify"] \in TwoFactor!Modal
      BY <2>1
    <2> HIDE DEF TwoFactor!Modal
    <2>3. modal2FA' = [modal2FA EXCEPT ![t] = [modal2FA[t] EXCEPT !.step = "verify"]]
      BY <1>9 DEF TwoFactor!Verify
    <2>4. modal2FA' \in [Tabs -> TwoFactor!Modal]
      BY <2>2, <2>3
    <2> QED BY <1>9, <2>4 DEF TwoFactor!Verify
  <1>10. ASSUME NEW t \in Tabs, TwoFactor!AskEnable(t) PROVE TwoFactor!TypeOK'
    BY <1>10, ZenonT(60) DEF TwoFactor!AskEnable
  <1>11. ASSUME NEW t \in Tabs, TwoFactor!CheckCode(t) PROVE TwoFactor!TypeOK'
    BY <1>11 DEF TwoFactor!CheckCode
  <1>12. ASSUME NEW t \in Tabs, TwoFactor!ServeEnable(t) PROVE TwoFactor!TypeOK'
    <2>1. enable[t] \in TwoFactor!Enable /\ secret # 0
      BY <1>12 DEF TwoFactor!ServeEnable, TwoFactorInv, TabIsSound
    <2>2. [enable[t] EXCEPT !.pc = "served"] \in TwoFactor!Enable
      BY <2>1
    <2>3. enable' = [enable EXCEPT ![t] = [enable[t] EXCEPT !.pc = "served"]]
      BY <1>12 DEF TwoFactor!ServeEnable
    <2>4. enable' \in [Tabs -> TwoFactor!Enable]
      BY <2>2, <2>3
    <2> QED BY <1>12, <2>1, <2>4 DEF TwoFactor!ServeEnable
  <1>13. ASSUME NEW t \in Tabs, TwoFactor!EnableArrives(t) PROVE TwoFactor!TypeOK'
    <2>1. modal2FA[t] \in TwoFactor!Modal
      OBVIOUS
    <2>2. [modal2FA[t] EXCEPT !.open = FALSE, !.step = "init", !.loading = FALSE] \in TwoFactor!Modal
      BY <1>13, <2>1 DEF TwoFactor!EnableArrives
    <2> HIDE DEF TwoFactor!Modal
    <2>3. modal2FA' = [modal2FA EXCEPT ![t] = [modal2FA[t] EXCEPT !.open = FALSE, !.step = "init", !.loading = FALSE]]
      BY <1>13 DEF TwoFactor!EnableArrives
    <2>4. modal2FA' \in [Tabs -> TwoFactor!Modal]
      BY <2>2, <2>3
    <2> QED BY <1>13, <2>4 DEF TwoFactor!EnableArrives, TwoFactor!NoEnable
  <1>14. ASSUME NEW t \in Tabs, TwoFactor!EnableFails(t) PROVE TwoFactor!TypeOK'
    <2>1. modal2FA[t] \in TwoFactor!Modal
      OBVIOUS
    <2>2. [modal2FA[t] EXCEPT !.loading = FALSE] \in TwoFactor!Modal
      BY <1>14, <2>1 DEF TwoFactor!EnableFails
    <2> HIDE DEF TwoFactor!Modal
    <2>3. modal2FA' = [modal2FA EXCEPT ![t] = [modal2FA[t] EXCEPT !.loading = FALSE]]
      BY <1>14 DEF TwoFactor!EnableFails
    <2>4. modal2FA' \in [Tabs -> TwoFactor!Modal]
      BY <2>2, <2>3
    <2>5. enabled' \in BOOLEAN /\ (enabled' => secret # 0)
      BY <1>14 DEF TwoFactor!EnableFails, TwoFactorInv, TabIsSound
    <2> QED BY <1>14, <2>4, <2>5 DEF TwoFactor!EnableFails, TwoFactor!NoEnable
  <1>15. CASE UNCHANGED TwoFactor!vars
    BY <1>15 DEF TwoFactor!vars
  <1> QED BY <1>1, <1>2, <1>3, <1>4, <1>5, <1>6, <1>7, <1>8, <1>9, <1>10, <1>11, <1>12, <1>13, <1>14,
             <1>15 DEF TwoFactor!Next

\* No secret, and nothing under way.
LEMMA TwoFactorStart == TwoFactor!Init => TwoFactorInv
  <1> SUFFICES ASSUME TwoFactor!Init PROVE TwoFactorInv
    OBVIOUS
  <1>1. /\ TwoFactor!NoModal \in TwoFactor!Modal /\ TwoFactor!NoSetup \in TwoFactor!Setup
        /\ TwoFactor!NoEnable \in TwoFactor!Enable
    BY DEF TwoFactor!NoModal, TwoFactor!Modal, TwoFactor!NoSetup, TwoFactor!Setup, TwoFactor!NoEnable,
       TwoFactor!Enable,
           TwoFactor!Secrets, TwoFactor!MaxSecrets
  <1>2. 0 \in TwoFactor!Secrets
    BY DEF TwoFactor!Secrets, TwoFactor!MaxSecrets
  <1>3. TwoFactor!TypeOK
    BY <1>1, <1>2 DEF TwoFactor!Init, TwoFactor!TypeOK
  <1>4. \A t \in Tabs : TabIsSound(t)
    BY DEF TwoFactor!Init, TabIsSound, TwoFactor!NoSetup, TwoFactor!NoEnable
  <1> QED BY <1>3, <1>4 DEF TwoFactorInv

\* Loading keeps a tab from its own other call.
LEMMA TwoFactorStep ==
  ASSUME TwoFactorInv, [TwoFactor!Next]_(TwoFactor!vars)
  PROVE  TwoFactorInv'
  <1>0. TwoFactor!TypeOK'
    BY TwoFactorTypes
  <1> SUFFICES ASSUME NEW v \in Tabs PROVE TabIsSound(v)'
    BY <1>0 DEF TwoFactorInv
  <1>1. TabIsSound(v) /\ TwoFactor!TypeOK
    BY DEF TwoFactorInv
  <1> USE <1>1 DEF TabIsSound, TwoFactor!TypeOK, TwoFactor!Secrets, TwoFactor!MaxSecrets, TwoFactor!Modal,
                   TwoFactor!Setup, TwoFactor!Enable
  <1>2. CASE TwoFactor!ServeStray
    BY <1>2 DEF TwoFactor!ServeStray, TwoFactor!Meddles
  <1>3. ASSUME NEW t \in Tabs, TwoFactor!Open(t) PROVE TabIsSound(v)'
    BY <1>3 DEF TwoFactor!Open
  <1>4. ASSUME NEW t \in Tabs, TwoFactor!Close(t) PROVE TabIsSound(v)'
    BY <1>4 DEF TwoFactor!Close
  <1>5. ASSUME NEW t \in Tabs, TwoFactor!AskSetup(t) PROVE TabIsSound(v)'
    BY <1>5 DEF TwoFactor!AskSetup
  <1>6. ASSUME NEW t \in Tabs, TwoFactor!ServeSetup(t) PROVE TabIsSound(v)'
    BY <1>6 DEF TwoFactor!ServeSetup, TwoFactor!Meddles
  <1>7. ASSUME NEW t \in Tabs, TwoFactor!SetupArrives(t) PROVE TabIsSound(v)'
    BY <1>7 DEF TwoFactor!SetupArrives, TwoFactor!NoSetup
  <1>8. ASSUME NEW t \in Tabs, TwoFactor!SetupFails(t) PROVE TabIsSound(v)'
    BY <1>8 DEF TwoFactor!SetupFails, TwoFactor!NoSetup
  <1>9. ASSUME NEW t \in Tabs, TwoFactor!Scan(t) PROVE TabIsSound(v)'
    BY <1>9 DEF TwoFactor!Scan, TwoFactor!Meddles
  <1>10. ASSUME NEW t \in Tabs, TwoFactor!Verify(t) PROVE TabIsSound(v)'
    BY <1>10 DEF TwoFactor!Verify
  <1>11. ASSUME NEW t \in Tabs, TwoFactor!AskEnable(t) PROVE TabIsSound(v)'
    BY <1>11 DEF TwoFactor!AskEnable
  <1>12. ASSUME NEW t \in Tabs, TwoFactor!CheckCode(t) PROVE TabIsSound(v)'
    BY <1>12 DEF TwoFactor!CheckCode
  <1>13. ASSUME NEW t \in Tabs, TwoFactor!ServeEnable(t) PROVE TabIsSound(v)'
    BY <1>13 DEF TwoFactor!ServeEnable
  <1>14. ASSUME NEW t \in Tabs, TwoFactor!EnableArrives(t) PROVE TabIsSound(v)'
    BY <1>14 DEF TwoFactor!EnableArrives, TwoFactor!NoEnable
  <1>15. ASSUME NEW t \in Tabs, TwoFactor!EnableFails(t) PROVE TabIsSound(v)'
    BY <1>15 DEF TwoFactor!EnableFails, TwoFactor!NoEnable
  <1>16. CASE UNCHANGED TwoFactor!vars
    BY <1>16 DEF TwoFactor!vars
  <1> QED BY <1>2, <1>3, <1>4, <1>5, <1>6, <1>7, <1>8, <1>9, <1>10, <1>11, <1>12, <1>13, <1>14, <1>15,
             <1>16 DEF TwoFactor!Next

\* What success means.
LEMMA EnabledUsable ==
  ASSUME TwoFactorInv, NEW t \in Tabs, enable[t].pc = "served"
  PROVE  authenticator = secret \/ meddled[t]
  BY DEF TwoFactorInv, TabIsSound
-----------------------------------------------------------------------------
(* Seed: the order of the upserts. *)

\* The permissions of the list, and the rows that come before the admin user.
SeedPerms == {PermOrder[i] : i \in DOMAIN PermOrder}
OtherRows ==
  {Seeding!Role(r) : r \in {"superadmin", "operator"}} \cup {Seeding!Perm(p) : p \in SeedPerms}
  \cup {Seeding!Link(r, p) : r \in {"superadmin", "operator"}, p \in SeedPerms}

\* A row that was ever there is there or was deleted.  The membership comes after all others;
\* a run that nobody disturbs has what it has upserted so far.
SeedInv ==
  /\ Seeding!TypeOK
  /\ \A i \in 1..Len(Seeding!Steps) : i < at => Seeding!Steps[i] \in rows \cup undone
  /\ Seeding!Member \in rows \cup undone => Seeding!Wanted \subseteq rows \cup undone
  /\ ~disturbed => \A i \in 1..Len(Seeding!Steps) : i < at => Seeding!Steps[i] \in held
  /\ ~disturbed /\ Seeding!Admin \in held => active /\ ~own

\* What a row refers to refers to nothing.
LEMMA NeedsEnd == \A row : \A other \in Seeding!Needs(row) : Seeding!Needs(other) = {}
  BY DEF Seeding!Needs, Seeding!Role, Seeding!Perm, Seeding!Admin, Seeding!Member

\* Sequences of rows of two kinds, one after the other.
LEMMA Appended ==
  ASSUME NEW R, NEW S, NEW s \in Seq(R), NEW t \in Seq(S)
  PROVE  /\ s \o t \in Seq(R \cup S) /\ Len(s \o t) = Len(s) + Len(t)
         /\ \A i \in 1..Len(s) : (s \o t)[i] \in R
         /\ \A i \in 1..Len(t) : (s \o t)[Len(s) + i] = t[i]
  <1>1. s \in Seq(R \cup S) /\ t \in Seq(R \cup S)
    OBVIOUS
  <1>2. \A i \in 1..Len(s) : s[i] \in R
    OBVIOUS
  <1> QED BY <1>1, <1>2, ConcatProperties

\* The admin user and its role come last, after all others.
LEMMA StepsEnd ==
  LET last == Len(Seeding!Steps) IN
  /\ last \in Nat /\ last >= 2
  /\ Seeding!Steps[last] = Seeding!Member /\ Seeding!Steps[last - 1] = Seeding!Admin
  /\ \A i \in 1..last - 2 : Seeding!Steps[i] # Seeding!Member /\ Seeding!Steps[i] # Seeding!Admin
  <1> USE DEF Seeding!Role, Seeding!Perm, Seeding!Link
  <1>1. PermOrder \in Seq(SeedPerms) /\ OperatorOrder \in Seq(SeedPerms)
    BY TasksAssumption DEF Seeding!SeedAssumption, SeedPerms
  <1>2. PICK perms : perms = [i \in 1..Len(PermOrder) |-> Seeding!Perm(PermOrder[i])]
    OBVIOUS
  <1>3. perms \in Seq(OtherRows)
    BY <1>1, <1>2 DEF OtherRows
  <1>4. PICK roles : roles = <<Seeding!Role("superadmin"), Seeding!Role("operator")>>
    OBVIOUS
  <1>5. roles \in Seq(OtherRows)
    BY <1>4 DEF OtherRows
  <1>6. Seeding!Tables \in Seq(OtherRows)
    BY <1>2, <1>3, <1>4, <1>5, Appended DEF Seeding!Tables
  <1>7. ASSUME NEW r \in {"superadmin", "operator"}, NEW order \in Seq(SeedPerms)
        PROVE  Seeding!LinksOf(r, order) \in Seq(OtherRows)
    BY <1>7 DEF Seeding!LinksOf, OtherRows
  <1>8. Seeding!Links \in Seq(OtherRows)
    BY <1>1, <1>7, Appended DEF Seeding!Links
  <1>9. PICK body : body = Seeding!Tables \o Seeding!Links
    OBVIOUS
  <1>10. body \in Seq(OtherRows)
    BY <1>6, <1>8, <1>9, Appended
  <1>11. PICK ending : ending = <<Seeding!Admin, Seeding!Member>>
    OBVIOUS
  <1>12. ending \in Seq({Seeding!Admin, Seeding!Member}) /\ Len(ending) = 2
    BY <1>11
  <1>13. Seeding!Steps = body \o ending
    BY <1>9, <1>11 DEF Seeding!Steps
  <1>14. /\ Len(Seeding!Steps) = Len(body) + 2
         /\ \A i \in 1..Len(body) : Seeding!Steps[i] \in OtherRows
         /\ Seeding!Steps[Len(body) + 1] = Seeding!Admin /\ Seeding!Steps[Len(body) + 2] = Seeding!Member
    BY <1>10, <1>11, <1>12, <1>13, Appended
  <1>15. \A row \in OtherRows : row # Seeding!Member /\ row # Seeding!Admin
    BY DEF OtherRows, Seeding!Member, Seeding!Admin
  <1>16. Len(body) \in Nat
    BY <1>10
  <1> QED BY <1>14, <1>15, <1>16

\* Empty tables.
LEMMA SeedStart == Seeding!Init => SeedInv
  <1> SUFFICES ASSUME Seeding!Init PROVE SeedInv
    OBVIOUS
  <1>3. 0 \in Seeding!Stopped..Seeding!Done
    BY StepsEnd DEF Seeding!Stopped, Seeding!Done
  <1> HIDE DEF Seeding!Stopped, Seeding!Done
  <1>1. Seeding!TypeOK
    BY <1>3 DEF Seeding!Init, Seeding!TypeOK, Seeding!Stopped
  <1>2. at = 0 /\ rows = {} /\ undone = {} /\ held = {}
    BY DEF Seeding!Init, Seeding!Stopped
  <1> QED BY <1>1, <1>2, StepsEnd DEF SeedInv

\* An upsert adds a row, and a row that goes takes along only what refers to it.
LEMMA SeedStep ==
  ASSUME SeedInv, [Seeding!Next]_(Seeding!vars)
  PROVE  SeedInv'
  <1> PICK last : last = Len(Seeding!Steps)
    OBVIOUS
  <1>1. last \in Nat /\ last >= 2 /\ Seeding!Steps[last] = Seeding!Member /\ Seeding!Steps[last - 1] = Seeding!Admin
        /\ \A i \in 1..last - 2 : Seeding!Steps[i] # Seeding!Member /\ Seeding!Steps[i] # Seeding!Admin
        /\ Seeding!Admin # Seeding!Member
    BY StepsEnd DEF Seeding!Admin, Seeding!Member
  <1>2. Seeding!Wanted = {Seeding!Steps[i] : i \in 1..last} /\ Seeding!Done = last + 1 /\ Seeding!Stopped = 0
    BY DEF Seeding!Wanted, Seeding!Done, Seeding!Stopped
  <1> HIDE DEF Seeding!Steps
  <1> USE <1>1, <1>2 DEF SeedInv, Seeding!TypeOK
  <1>3. CASE Seeding!Start
    <2>1. at' = 1 /\ held' = {} /\ disturbed' = FALSE /\ UNCHANGED <<rows, active, own, undone>>
      BY <1>3 DEF Seeding!Start
    <2>2. at' \in Seeding!Stopped..Seeding!Done
      BY <2>1
    <2>3. Seeding!TypeOK'
      BY <2>1, <2>2
    <2> QED BY <2>1, <2>3
  <1>4. CASE Seeding!Upsert
    <2>1. PICK row : row = Seeding!Steps[at]
      OBVIOUS
    <2>2. /\ at \in 1..last /\ row \in Seeding!Wanted /\ Seeding!Needs(row) \subseteq held
          /\ rows' = rows \cup {row} /\ held' = held \cup {row} /\ at' = at + 1
          /\ undone' = undone \ {row} /\ disturbed' = disturbed
          /\ IF row = Seeding!Admin THEN active' = TRUE /\ own' = FALSE ELSE UNCHANGED <<active, own>>
      BY <1>4, <2>1 DEF Seeding!Upsert, Seeding!Running, Seeding!Refreshed
    <2>8. at' \in Seeding!Stopped..Seeding!Done
      BY <2>2
    <2>11. (active' = TRUE /\ own' = FALSE) \/ (active' = active /\ own' = own)
      BY <2>2
    <2>12. active' \in BOOLEAN /\ own' \in BOOLEAN
      BY <2>11
    <2>9. \A r \in rows' : Seeding!Needs(r) \subseteq rows'
      BY <2>2
    <2>10. rows' \in SUBSET Seeding!Wanted /\ held' \in SUBSET rows' /\ undone' \in SUBSET (Seeding!Wanted \ rows')
      BY <2>2
    <2>3. Seeding!TypeOK'
      BY <2>2, <2>8, <2>9, <2>10, <2>12
    <2>4. \A i \in 1..last : i < at' => Seeding!Steps[i] \in rows' \cup undone'
      BY <2>1, <2>2
    <2>5. Seeding!Member \in rows' \cup undone' => Seeding!Wanted \subseteq rows' \cup undone'
      BY <2>1, <2>2, <2>4
    <2>6. ~disturbed' => \A i \in 1..last : i < at' => Seeding!Steps[i] \in held'
      BY <2>1, <2>2
    <2>7. ~disturbed' /\ Seeding!Admin \in held' => active' /\ ~own'
      BY <2>2
    <2> QED BY <2>3, <2>4, <2>5, <2>6, <2>7
  <1>5. CASE Seeding!Refused \/ Seeding!Stop
    BY <1>5 DEF Seeding!Refused, Seeding!Stop
  <1>6. ASSUME NEW row \in Seeding!Wanted, Seeding!Delete(row) PROVE SeedInv'
    <2>1. PICK lost : lost = {row} \cup {other \in rows : row \in Seeding!Needs(other)}
      OBVIOUS
    <2>2. /\ row \in rows /\ rows' = rows \ lost /\ held' = held \ lost
          /\ undone' = undone \cup lost /\ disturbed' = TRUE /\ UNCHANGED <<active, own, at>>
      BY <1>6, <2>1 DEF Seeding!Delete
    <2>3. \A r \in rows \ lost : Seeding!Needs(r) \subseteq rows \ lost
      BY <2>1, NeedsEnd
    <2> QED BY <2>1, <2>2, <2>3
  <1>7. ASSUME NEW row \in Seeding!Wanted, Seeding!Recreate(row) PROVE SeedInv'
    BY <1>7 DEF Seeding!Recreate
  <1>8. CASE Seeding!ChangeAdmin
    BY <1>8 DEF Seeding!ChangeAdmin
  <1>9. CASE UNCHANGED Seeding!vars
    BY <1>9 DEF Seeding!vars
  <1> QED BY <1>3, <1>4, <1>5, <1>6, <1>7, <1>8, <1>9 DEF Seeding!Next

\* What the two properties of the seed ask for.
LEMMA SeedSays == SeedInv => Seeding!MembershipComesLast /\ Seeding!CompletedSeedsAreWhole
  <1> SUFFICES ASSUME SeedInv PROVE Seeding!MembershipComesLast /\ Seeding!CompletedSeedsAreWhole
    OBVIOUS
  <1>1. Seeding!MembershipComesLast
    BY DEF SeedInv, Seeding!MembershipComesLast
  <1>2. ASSUME at = Seeding!Done, ~disturbed PROVE rows = Seeding!Wanted /\ active /\ ~own
    <2>1. \A i \in 1..Len(Seeding!Steps) : Seeding!Steps[i] \in held
      BY <1>2, StepsEnd DEF SeedInv, Seeding!Done
    <2>2. Seeding!Admin \in held
      BY <2>1, StepsEnd
    <2> QED BY <1>2, <2>1, <2>2 DEF SeedInv, Seeding!TypeOK, Seeding!Wanted
  <1> QED BY <1>1, <1>2 DEF Seeding!CompletedSeedsAreWhole
-----------------------------------------------------------------------------
(* Auth: whose permissions a tab shows. *)

\* Calls carry tokens that were issued.
CallIsIssued(c) == me[c].pc # "none" => me[c].token # NoToken /\ owner[me[c].token] # NoUser

\* While no older answer is on its way, those that are bring what the user of the tab is
\* allowed, or has been since.
CallIsOwn(c) ==
  /\ me[c].pc # "none" => owner[me[c].token] = owner[ctx.token]
  /\ me[c].pc = "served" => me[c].got \in seen

AuthInv ==
  /\ Auth!TypeOK
  /\ stored # NoToken => owner[stored] # NoUser
  /\ login.pc # "none" => login.user # NoUser
  /\ \A c \in Calls : CallIsIssued(c)
  /\ ctx.token # NoToken => authority[owner[ctx.token]] \in seen
  /\ ctx.token # NoToken /\ ~crossed => \A c \in Calls : CallIsOwn(c)
  /\ Auth!ShownPermissionsAreTheirs

\* No token.
LEMMA AuthStart == Auth!Init => AuthInv
  <1> SUFFICES ASSUME Auth!Init PROVE AuthInv
    OBVIOUS
  <1>1. Auth!NoCall \in Auth!Call /\ Auth!NoLogin \in Auth!Login
    BY DEF Auth!NoCall, Auth!Call, Auth!NoLogin, Auth!Login
  <1>2. ctx \in Auth!Ctx /\ ctx.token = NoToken
    BY DEF Auth!Init, Auth!StateFromToken, Auth!Ctx
  <1>3. me \in [Calls -> Auth!Call] /\ \A c \in Calls : me[c].pc = "none"
    BY <1>1 DEF Auth!Init, Auth!NoCall
  <1>4. /\ authority \in [Users -> Authorities] /\ owner \in [Tokens -> Users \cup {NoUser}] /\ claims \in [Tokens -> BOOLEAN]
        /\ stored = NoToken /\ login \in Auth!Login /\ login.pc = "none"
        /\ seen \in SUBSET Authorities /\ crossed \in BOOLEAN /\ failed \in BOOLEAN
    BY <1>1 DEF Auth!Init, Auth!NoLogin
  <1>5. Auth!TypeOK
    BY <1>2, <1>3, <1>4 DEF Auth!TypeOK
  <1> QED BY <1>2, <1>3, <1>4, <1>5 DEF AuthInv, CallIsIssued, Auth!ShownPermissionsAreTheirs

\* Which token is new.
LEMMA IssuedToken ==
  ASSUME Auth!TypeOK, Auth!Unissued # {}, NEW u \in Users, Auth!Issued(Auth!Fresh, u)
  PROVE  /\ Auth!Fresh \in Tokens /\ owner[Auth!Fresh] = NoUser
         /\ owner' \in [Tokens -> Users \cup {NoUser}] /\ claims' \in [Tokens -> BOOLEAN]
         /\ owner'[Auth!Fresh] = u
         /\ \A t \in Tokens : owner[t] # NoUser => owner'[t] = owner[t]
  <1>1. Auth!Fresh \in Auth!Unissued
    BY DEF Auth!Fresh
  <1>2. Auth!Fresh \in Tokens /\ owner[Auth!Fresh] = NoUser
    BY <1>1 DEF Auth!Unissued
  <1>3. (Auth!Superadmin \in authority[u]) \in BOOLEAN
    OBVIOUS
  <1> HIDE DEF Auth!Fresh
  <1> QED BY <1>2, <1>3 DEF Auth!Issued, Auth!TypeOK

\* A token is adopted: nothing is known yet, and the question is asked.
LEMMA AdoptHolds ==
  ASSUME AuthInv, NEW t \in Tokens, NEW u \in Users, NEW super \in BOOLEAN, NEW calls \in [Calls -> Auth!Call],
         Auth!Adopt(t, u, super, calls),
         authority' = authority, owner' \in [Tokens -> Users \cup {NoUser}], claims' \in [Tokens -> BOOLEAN],
         owner'[t] = u, stored' = t, login' \in Auth!Login, login'.pc # "none" => login'.user # NoUser,
         \A c \in Calls : calls[c].pc # "none" => calls[c].token # NoToken /\ owner'[calls[c].token] # NoUser
  PROVE  AuthInv'
  <1> USE TasksAssumption DEF Auth!NoneAssumption
  <1>1. PICK c, q :
             /\ c \in Calls /\ q = [Auth!NoCall EXCEPT !.pc = "sent", !.token = t]
             /\ me' = [calls EXCEPT ![c] = q]
             /\ ctx' = Auth!StateFromToken(t, super)
             /\ seen' = {authority[u]} /\ crossed' = Auth!Older(calls, u) /\ failed' = FALSE
    BY DEF Auth!Adopt
  <1>2. q \in Auth!Call /\ q.pc = "sent" /\ q.token = t
    BY <1>1 DEF Auth!NoCall, Auth!Call
  <1>3. me' \in [Calls -> Auth!Call] /\ \A d \in Calls : me'[d] = IF d = c THEN q ELSE calls[d]
    BY <1>1, <1>2
  <1>4. ctx' \in Auth!Ctx /\ ctx'.token = t /\ ~ctx'.loaded
    BY <1>1 DEF Auth!StateFromToken, Auth!Ctx
  <1>5. authority[u] \in Authorities /\ u # NoUser
    BY DEF AuthInv, Auth!TypeOK
  <1>6. crossed' \in BOOLEAN
    BY <1>1 DEF Auth!Older
  <1>7. Auth!TypeOK'
    BY <1>1, <1>3, <1>4, <1>5, <1>6 DEF AuthInv, Auth!TypeOK
  <1>8. \A d \in Calls : CallIsIssued(d)'
    BY <1>2, <1>3, <1>5 DEF CallIsIssued
  <1>9. ASSUME ~crossed', NEW d \in Calls PROVE CallIsOwn(d)'
    BY <1>1, <1>2, <1>3, <1>4, <1>9 DEF CallIsOwn, Auth!Older
  <1>10. authority'[owner'[ctx'.token]] \in seen'
    BY <1>1, <1>4
  <1> QED BY <1>4, <1>5, <1>7, <1>8, <1>9, <1>10 DEF AuthInv, Auth!ShownPermissionsAreTheirs

\* No token: nothing to show.
LEMMA ForgetHolds ==
  ASSUME AuthInv, NEW calls \in [Calls -> Auth!Call], Auth!Forget(calls),
         authority' = authority, owner' = owner, claims' = claims, stored' = NoToken,
         login' \in Auth!Login, login'.pc # "none" => login'.user # NoUser,
         \A c \in Calls : calls[c].pc # "none" => calls[c].token # NoToken /\ owner[calls[c].token] # NoUser
  PROVE  AuthInv'
  <1>1. ctx' \in Auth!Ctx /\ ctx'.token = NoToken
    BY DEF Auth!Forget, Auth!StateFromToken, Auth!Ctx
  <1>2. me' = calls /\ seen' = {} /\ crossed' = FALSE /\ failed' = FALSE
    BY DEF Auth!Forget
  <1>3. Auth!TypeOK'
    BY <1>1, <1>2 DEF AuthInv, Auth!TypeOK
  <1>4. \A c \in Calls : CallIsIssued(c)'
    BY <1>2 DEF CallIsIssued
  <1> QED BY <1>1, <1>3, <1>4 DEF AuthInv, Auth!ShownPermissionsAreTheirs

\* Answers that are the user's own stay so, whoever else logs in.
LEMMA AuthStep ==
  ASSUME AuthInv, [Auth!Next]_(Auth!vars)
  PROVE  AuthInv'
  <1> USE TasksAssumption DEF Auth!NoneAssumption
  <1>1. /\ authority \in [Users -> Authorities] /\ owner \in [Tokens -> Users \cup {NoUser}]
        /\ claims \in [Tokens -> BOOLEAN] /\ stored \in Tokens \cup {NoToken} /\ ctx \in Auth!Ctx
        /\ me \in [Calls -> Auth!Call] /\ login \in Auth!Login /\ seen \in SUBSET Authorities
        /\ crossed \in BOOLEAN /\ failed \in BOOLEAN /\ Auth!TypeOK
    BY DEF AuthInv, Auth!TypeOK
  <1>2. \A c \in Calls : me[c].pc # "none" => me[c].token # NoToken /\ owner[me[c].token] # NoUser
    BY DEF AuthInv, CallIsIssued
  <1>3. /\ Auth!NoLogin \in Auth!Login /\ Auth!NoLogin.pc = "none"
        /\ Auth!NoCall \in Auth!Call /\ Auth!NoCall.pc = "none"
    BY DEF Auth!NoLogin, Auth!Login, Auth!NoCall, Auth!Call
  <1>4. PICK empty : empty = [c \in Calls |-> Auth!NoCall]
    OBVIOUS
  <1>5. empty \in [Calls -> Auth!Call] /\ \A c \in Calls : empty[c].pc = "none"
    BY <1>3, <1>4
  <1>6. ASSUME NEW u \in Users, Auth!SendLogin(u) PROVE AuthInv'
    <2>1. login' = [pc |-> "sent", user |-> u] /\ u # NoUser
      BY <1>6 DEF Auth!SendLogin
    <2>2. login' \in Auth!Login /\ login'.user # NoUser
      BY <2>1 DEF Auth!Login
    <2> QED BY <1>1, <1>6, <2>2 DEF Auth!SendLogin, AuthInv, Auth!TypeOK, CallIsIssued, CallIsOwn,
            Auth!ShownPermissionsAreTheirs, Auth!Shown
  <1>7. CASE Auth!LoginArrives
    <2>1. PICK u : u = login.user
      OBVIOUS
    <2>2. u \in Users
      BY <1>1, <1>7, <2>1 DEF Auth!LoginArrives, AuthInv, Auth!Login
    <2>3. /\ Auth!Unissued # {} /\ Auth!Issued(Auth!Fresh, u) /\ stored' = Auth!Fresh
          /\ Auth!Adopt(Auth!Fresh, u, Auth!Superadmin \in authority[u], me)
          /\ login' = Auth!NoLogin /\ authority' = authority
      BY <1>7, <2>1 DEF Auth!LoginArrives
    <2>4. /\ Auth!Fresh \in Tokens /\ owner' \in [Tokens -> Users \cup {NoUser}] /\ claims' \in [Tokens -> BOOLEAN]
          /\ owner'[Auth!Fresh] = u /\ \A t \in Tokens : owner[t] # NoUser => owner'[t] = owner[t]
      BY <1>1, <2>2, <2>3, IssuedToken
    <2>5. \A c \in Calls : me[c].pc # "none" => me[c].token # NoToken /\ owner'[me[c].token] # NoUser
      BY <1>1, <1>2, <2>4 DEF Auth!Call
    <2>6. (Auth!Superadmin \in authority[u]) \in BOOLEAN
      OBVIOUS
    <2>7. PICK t : t = Auth!Fresh
      OBVIOUS
    <2>8. PICK super \in BOOLEAN : super = (Auth!Superadmin \in authority[u])
      BY <2>6
    <2>9. Auth!Adopt(t, u, super, me)
      BY <2>3, <2>7, <2>8
    <2> QED BY <1>1, <1>3, <2>2, <2>3, <2>4, <2>5, <2>7, <2>9, AdoptHolds
  <1>8. CASE Auth!LoginFails
    BY <1>1, <1>3, <1>8 DEF Auth!LoginFails, AuthInv, Auth!TypeOK, CallIsIssued, CallIsOwn,
       Auth!ShownPermissionsAreTheirs,
       Auth!Shown
  <1>9. CASE Auth!ClearAuth
    BY <1>1, <1>2, <1>9, ForgetHolds DEF Auth!ClearAuth, AuthInv
  <1>10. ASSUME NEW c \in Calls, Auth!Serve(c) PROVE AuthInv'
    <2>1. PICK q : q = [me[c] EXCEPT !.pc = "served", !.got = authority[owner[me[c].token]]]
      OBVIOUS
    <2>2. /\ me[c].pc = "sent" /\ me' = [me EXCEPT ![c] = q]
          /\ UNCHANGED <<authority, owner, claims, stored, ctx, login, seen, crossed, failed>>
      BY <1>1, <1>10, <2>1 DEF Auth!Serve, Auth!At
    <2>3. me[c].token \in Tokens /\ owner[me[c].token] \in Users
      BY <1>1, <1>2, <2>2 DEF Auth!Call
    <2>4. q \in Auth!Call /\ q.pc = "served" /\ q.token = me[c].token /\ q.got = authority[owner[me[c].token]]
      BY <1>1, <2>1, <2>3 DEF Auth!Call
    <2>5. me' \in [Calls -> Auth!Call] /\ \A d \in Calls : me'[d] = IF d = c THEN q ELSE me[d]
      BY <1>1, <2>2, <2>4
    <2>6. \A d \in Calls : CallIsIssued(d)'
      BY <1>2, <2>2, <2>4, <2>5 DEF CallIsIssued
    <2>7. ctx.token # NoToken /\ ~crossed => \A d \in Calls : CallIsOwn(d)'
      BY <2>2, <2>4, <2>5 DEF CallIsOwn, AuthInv
    <2>8. Auth!TypeOK'
      BY <1>1, <2>2, <2>5 DEF Auth!TypeOK
    <2> QED BY <2>2, <2>6, <2>7, <2>8 DEF AuthInv, Auth!ShownPermissionsAreTheirs, Auth!Shown
  <1>11. ASSUME NEW c \in Calls, Auth!Expired(c) PROVE AuthInv'
    <2>1. PICK q : q = [me[c] EXCEPT !.pc = "waiting"]
      OBVIOUS
    <2>2. /\ me[c].pc = "sent" /\ me' = [me EXCEPT ![c] = q]
          /\ UNCHANGED <<authority, owner, claims, stored, ctx, login, seen, crossed, failed>>
      BY <1>1, <1>11, <2>1 DEF Auth!Expired, Auth!At
    <2>3. q \in Auth!Call /\ q.pc = "waiting" /\ q.token = me[c].token
      BY <1>1, <2>1 DEF Auth!Call
    <2>4. me' \in [Calls -> Auth!Call] /\ \A d \in Calls : me'[d] = IF d = c THEN q ELSE me[d]
      BY <1>1, <2>2, <2>3
    <2>5. \A d \in Calls : CallIsIssued(d)'
      BY <1>2, <2>2, <2>3, <2>4 DEF CallIsIssued
    <2>6. ctx.token # NoToken /\ ~crossed => \A d \in Calls : CallIsOwn(d)'
      BY <2>2, <2>3, <2>4 DEF CallIsOwn, AuthInv
    <2>7. Auth!TypeOK'
      BY <1>1, <2>2, <2>4 DEF Auth!TypeOK
    <2> QED BY <2>2, <2>5, <2>6, <2>7 DEF AuthInv, Auth!ShownPermissionsAreTheirs, Auth!Shown
  <1>12. ASSUME NEW c \in Calls, me' = [me EXCEPT ![c] = Auth!NoCall], ctx' \in Auth!Ctx, ctx'.token = ctx.token,
                UNCHANGED <<authority, owner, claims, stored, login, seen, crossed>>, failed' \in BOOLEAN,
                Auth!ShownPermissionsAreTheirs'
         PROVE  AuthInv'
    <2>1. me' \in [Calls -> Auth!Call] /\ \A d \in Calls : me'[d] = IF d = c THEN Auth!NoCall ELSE me[d]
      BY <1>1, <1>3, <1>12
    <2>2. \A d \in Calls : CallIsIssued(d)'
      BY <1>2, <1>3, <1>12, <2>1 DEF CallIsIssued
    <2>3. ctx.token # NoToken /\ ~crossed => \A d \in Calls : CallIsOwn(d)'
      BY <1>3, <1>12, <2>1 DEF CallIsOwn, AuthInv
    <2>4. Auth!TypeOK'
      BY <1>1, <1>12, <2>1 DEF Auth!TypeOK
    <2> QED BY <1>12, <2>2, <2>3, <2>4 DEF AuthInv
  <1>13. ASSUME NEW c \in Calls, Auth!Arrive(c) PROVE AuthInv'
    <2>1. PICK got : got = me[c].got
      OBVIOUS
    <2>2. got \in SUBSET UNION Authorities
      BY <1>1, <2>1 DEF Auth!Call
    <2>9. (Auth!Superadmin \in got) \in BOOLEAN
      OBVIOUS
    <2>3. PICK super \in BOOLEAN : super = (Auth!Superadmin \in got)
      BY <2>9
    <2>4. /\ ctx' = [ctx EXCEPT !.permissions = got, !.super = super, !.loaded = TRUE] /\ failed' = FALSE
          /\ me' = [me EXCEPT ![c] = Auth!NoCall] /\ me[c].pc = "served"
          /\ UNCHANGED <<authority, owner, claims, stored, login, seen, crossed>>
      BY <1>13, <2>1, <2>3 DEF Auth!Arrive, Auth!At
    <2>5. ctx' \in Auth!Ctx /\ ctx'.token = ctx.token /\ ctx'.permissions = got /\ ctx'.super = super
      BY <1>1, <2>2, <2>3, <2>4 DEF Auth!Ctx
    <2>6. Auth!Shown' = got
      BY <2>3, <2>5 DEF Auth!Shown
    <2>7. ctx.token # NoToken /\ ~crossed => got \in seen
      BY <2>1, <2>4 DEF AuthInv, CallIsOwn
    <2>8. Auth!ShownPermissionsAreTheirs'
      BY <2>4, <2>5, <2>6, <2>7 DEF Auth!ShownPermissionsAreTheirs
    <2> QED BY <1>12, <2>4, <2>5, <2>8
  <1>14. ASSUME NEW c \in Calls, Auth!Fail(c) PROVE AuthInv'
    <2>1. /\ ctx' = [ctx EXCEPT !.loaded = TRUE] /\ failed' = TRUE /\ me' = [me EXCEPT ![c] = Auth!NoCall]
          /\ UNCHANGED <<authority, owner, claims, stored, login, seen, crossed>>
      BY <1>14 DEF Auth!Fail
    <2>2. ctx' \in Auth!Ctx /\ ctx'.token = ctx.token
      BY <1>1, <2>1 DEF Auth!Ctx
    <2> QED BY <1>12, <2>1, <2>2 DEF Auth!ShownPermissionsAreTheirs
  <1>15. CASE Auth!Renewed
    <2>1. PICK u : u = owner[stored]
      OBVIOUS
    <2>2. u \in Users
      BY <1>1, <1>15, <2>1 DEF Auth!Renewed, AuthInv
    <2>3. /\ Auth!Unissued # {} /\ Auth!Issued(Auth!Fresh, u) /\ stored' = Auth!Fresh
          /\ Auth!Adopt(Auth!Fresh, u, Auth!Superadmin \in authority[u], Auth!Retried(Auth!Fresh))
          /\ UNCHANGED <<authority, login>>
      BY <1>15, <2>1 DEF Auth!Renewed
    <2>4. /\ Auth!Fresh \in Tokens /\ owner' \in [Tokens -> Users \cup {NoUser}] /\ claims' \in [Tokens -> BOOLEAN]
          /\ owner'[Auth!Fresh] = u /\ \A t \in Tokens : owner[t] # NoUser => owner'[t] = owner[t]
      BY <1>1, <2>2, <2>3, IssuedToken
    <2>5. PICK t : t = Auth!Fresh
      OBVIOUS
    <2>6. PICK calls : calls = Auth!Retried(t)
      OBVIOUS
    <2>7. ASSUME NEW c \in Calls
          PROVE  /\ calls[c] \in Auth!Call
                 /\ calls[c].pc # "none" => calls[c].token # NoToken /\ owner'[calls[c].token] # NoUser
      <3>1. me[c] \in Auth!Call
        BY <1>1
      <3>2. CASE me[c].pc = "waiting"
        <4>1. calls[c] = [me[c] EXCEPT !.pc = "sent", !.token = t]
          BY <2>6, <3>2 DEF Auth!Retried, Auth!At
        <4>2. calls[c] \in Auth!Call /\ calls[c].token = t
          BY <2>4, <2>5, <3>1, <4>1 DEF Auth!Call
        <4> QED BY <2>2, <2>4, <2>5, <4>2
      <3>3. CASE me[c].pc # "waiting"
        <4>1. calls[c] = me[c]
          BY <2>6, <3>3 DEF Auth!Retried, Auth!At
        <4> QED BY <1>2, <2>4, <3>1, <4>1 DEF Auth!Call
      <3> QED BY <3>2, <3>3
    <2>8. calls \in [Calls -> Auth!Call]
      BY <2>6, <2>7 DEF Auth!Retried
    <2>12. (Auth!Superadmin \in authority[u]) \in BOOLEAN
      OBVIOUS
    <2>9. PICK super \in BOOLEAN : super = (Auth!Superadmin \in authority[u])
      BY <2>12
    <2>10. Auth!Adopt(t, u, super, calls)
      BY <2>3, <2>5, <2>6, <2>9
    <2>11. login.pc # "none" => login.user # NoUser
      BY DEF AuthInv
    <2> QED BY <1>1, <2>2, <2>3, <2>4, <2>5, <2>7, <2>8, <2>10, <2>11, AdoptHolds
  <1>16. CASE Auth!RenewalFails
    BY <1>1, <1>3, <1>4, <1>5, <1>16, ForgetHolds DEF Auth!RenewalFails
  <1>17. CASE Auth!Reload
    <2>1. UNCHANGED <<authority, owner, claims, stored, login>> /\ (login.pc # "none" => login.user # NoUser)
      BY <1>17 DEF Auth!Reload, AuthInv
    <2>2. CASE stored = NoToken
      <3>1. Auth!Forget(empty)
        BY <1>4, <1>17, <2>2 DEF Auth!Reload
      <3> QED BY <1>1, <1>5, <2>1, <2>2, <3>1, ForgetHolds
    <2>3. CASE stored # NoToken
      <3>1. Auth!Adopt(stored, owner[stored], claims[stored], empty)
        BY <1>4, <1>17, <2>3 DEF Auth!Reload
      <3>2. stored \in Tokens /\ owner[stored] \in Users /\ claims[stored] \in BOOLEAN
        BY <1>1, <2>3 DEF AuthInv
      <3> QED BY <1>1, <1>5, <2>1, <3>1, <3>2, AdoptHolds
    <2> QED BY <2>2, <2>3
  <1>18. ASSUME NEW u \in Users \cup {NoUser}, Auth!OtherTab(u) PROVE AuthInv'
    <2>1. UNCHANGED <<authority, ctx, me, login, seen, crossed, failed>>
      BY <1>18 DEF Auth!OtherTab
    <2>2. /\ owner' \in [Tokens -> Users \cup {NoUser}] /\ claims' \in [Tokens -> BOOLEAN]
          /\ stored' \in Tokens \cup {NoToken} /\ (stored' # NoToken => owner'[stored'] # NoUser)
          /\ \A t \in Tokens : owner[t] # NoUser => owner'[t] = owner[t]
      <3>1. CASE u = NoUser
        BY <1>1, <1>18, <3>1 DEF Auth!OtherTab
      <3>2. CASE u # NoUser
        <4>1. u \in Users /\ Auth!Unissued # {} /\ Auth!Issued(Auth!Fresh, u) /\ stored' = Auth!Fresh
          BY <1>18, <3>2 DEF Auth!OtherTab
        <4> QED BY <1>1, <3>2, <4>1, IssuedToken
      <3> QED BY <3>1, <3>2
    <2>3. \A c \in Calls : me[c].pc # "none" => me[c].token \in Tokens /\ owner'[me[c].token] = owner[me[c].token]
      BY <1>1, <1>2, <2>2 DEF Auth!Call
    <2>4. ctx.token # NoToken => ctx.token \in Tokens /\ owner'[ctx.token] = owner[ctx.token] /\ owner[ctx.token] # NoUser
      BY <1>1, <2>2 DEF Auth!Ctx, Auth!TypeOK
    <2>5. Auth!TypeOK'
      BY <1>1, <2>1, <2>2, <2>4 DEF Auth!TypeOK
    <2>6. \A c \in Calls : CallIsIssued(c)'
      BY <1>2, <2>1, <2>3 DEF CallIsIssued
    <2>7. ctx.token # NoToken /\ ~crossed => \A c \in Calls : CallIsOwn(c)'
      BY <2>1, <2>3, <2>4 DEF CallIsOwn, AuthInv
    <2> QED BY <2>1, <2>2, <2>4, <2>5, <2>6, <2>7
               DEF AuthInv, Auth!ShownPermissionsAreTheirs, Auth!Shown
  <1>19. ASSUME NEW u \in Users, NEW a \in Authorities, Auth!ChangeAuthority(u, a) PROVE AuthInv'
    <2>1. /\ authority' = [authority EXCEPT ![u] = a]
          /\ UNCHANGED <<owner, claims, stored, ctx, me, login, crossed, failed>>
      BY <1>19 DEF Auth!ChangeAuthority
    <2>2. seen' = IF ctx.token # NoToken /\ owner[ctx.token] = u THEN seen \cup {a} ELSE seen
      BY <1>19 DEF Auth!ChangeAuthority
    <2>3. Auth!TypeOK'
      BY <1>1, <2>1, <2>2 DEF Auth!TypeOK
    <2>4. ctx.token # NoToken => authority'[owner[ctx.token]] \in seen'
      <3>1. ctx.token # NoToken => owner[ctx.token] \in Users
        BY <1>1 DEF Auth!Ctx, Auth!TypeOK
      <3> QED BY <1>1, <2>1, <2>2, <3>1 DEF AuthInv
    <2>5. seen \subseteq seen'
      BY <2>2
    <2> QED BY <2>1, <2>3, <2>4, <2>5 DEF AuthInv, CallIsIssued, CallIsOwn,
               Auth!ShownPermissionsAreTheirs, Auth!Shown
  <1>20. CASE UNCHANGED Auth!vars
    BY <1>20 DEF Auth!vars, AuthInv, Auth!TypeOK, CallIsIssued, CallIsOwn,
       Auth!ShownPermissionsAreTheirs, Auth!Shown
  <1> QED BY <1>6, <1>7, <1>8, <1>9, <1>10, <1>11, <1>13, <1>14, <1>15, <1>16, <1>17, <1>18, <1>19,
             <1>20 DEF Auth!Next
-----------------------------------------------------------------------------
\* The parts have no state in common, so neither have their invariants.
TasksInv ==
  /\ part \in Parts
  /\ UploadInv /\ TranslationsInv /\ GrantsInv /\ RecordsInv /\ TwoFactorInv /\ SeedInv /\ AuthInv

\* Whatever the operators do, on whatever page, each part keeps its invariant.
THEOREM InvariantsHold == Spec => []TasksInv
  <1>1. Init => TasksInv
    BY PartsStart, UploadStart, TranslationsStart, GrantsStart, RecordsStart, TwoFactorStart,
       SeedStart, AuthStart
       DEF TasksInv, Init
  <1>2. TasksInv /\ [Next]_vars => TasksInv'
    <2> SUFFICES ASSUME TasksInv, [Next]_vars PROVE TasksInv'
      OBVIOUS
    <2>1. part' \in Parts
      BY DEF TasksInv, Next, vars
    <2> QED BY <2>1, PartsStep, UploadStep, TranslationsStep, GrantsStep, RecordsStep, TwoFactorStep,
               SeedStep, AuthStep
            DEF TasksInv
  <1> QED BY <1>1, <1>2, PTL DEF Spec

\* The state of each page and of the seed keeps its type.
THEOREM TypesHold == Spec => []TypeOK
  <1>1. TasksInv => TypeOK
    BY DEF TasksInv, TypeOK, UploadInv, TranslationsInv, GrantsInv, RecordsInv, TwoFactorInv, SeedInv,
       AuthInv
  <1> QED BY <1>1, InvariantsHold, PTL

\* The permissions that a tab shows are those its user has, or has had since the tab got its
\* token, unless the last call failed or an older answer was still on its way.
THEOREM PermissionsAreTheirs == Spec => []ShownPermissionsAreTheirs
  <1>1. TasksInv => ShownPermissionsAreTheirs
    BY DEF TasksInv, AuthInv, ShownPermissionsAreTheirs
  <1> QED BY <1>1, InvariantsHold, PTL

\* What a control sends asks for more than what shows it just if it is one of those named.
LEMMA ControlsAreBacked ==
  \A c \in Auth!Controls : c.route \in Auth!Routes /\ (c \in Auth!Drifted <=> ~(c.needs \subseteq c.shown \cup Auth!RouteNeeds[c.route]))
  <1>1. \A c \in Auth!OpsUserControls : c.route \in Auth!Routes /\ (c \in Auth!Drifted <=> ~(c.needs \subseteq c.shown \cup Auth!RouteNeeds[c.route]))
    BY DEF Auth!OpsUserControls, Auth!Control, Auth!Controls, Auth!Drifted, Auth!Routes, Auth!RouteNeeds
  <1>2. \A c \in Auth!RbacControls : c.route \in Auth!Routes /\ (c \in Auth!Drifted <=> ~(c.needs \subseteq c.shown \cup Auth!RouteNeeds[c.route]))
    BY DEF Auth!RbacControls, Auth!Control, Auth!Controls, Auth!Drifted, Auth!Routes, Auth!RouteNeeds
  <1>3. \A c \in Auth!ManagedControls : c.route \in Auth!Routes /\ (c \in Auth!Drifted <=> ~(c.needs \subseteq c.shown \cup Auth!RouteNeeds[c.route]))
    BY DEF Auth!ManagedControls, Auth!Control, Auth!Controls, Auth!Drifted, Auth!Routes, Auth!RouteNeeds
  <1>4. \A c \in Auth!I18nControls : c.route \in Auth!Routes /\ (c \in Auth!Drifted <=> ~(c.needs \subseteq c.shown \cup Auth!RouteNeeds[c.route]))
    BY DEF Auth!I18nControls, Auth!Control, Auth!Controls, Auth!Drifted, Auth!Routes, Auth!RouteNeeds
  <1>5. \A c \in Auth!UploadControls : c.route \in Auth!Routes /\ (c \in Auth!Drifted <=> ~(c.needs \subseteq c.shown \cup Auth!RouteNeeds[c.route]))
    BY DEF Auth!UploadControls, Auth!Control, Auth!Controls, Auth!Drifted, Auth!Routes, Auth!RouteNeeds
  <1> QED BY <1>1, <1>2, <1>3, <1>4, <1>5 DEF Auth!Controls

\* Only permissions are asked for, of which none is the role superadmin.
LEMMA NobodyAsksForARole ==
  \A c \in Auth!Controls : Auth!Superadmin \notin c.shown \cup Auth!RouteNeeds[c.route]
  <1>1. \A route \in Auth!Routes : Auth!Superadmin \notin Auth!RouteNeeds[route]
    BY DEF Auth!Routes, Auth!RouteNeeds, Auth!Superadmin
  <1>2. \A c \in Auth!Controls : Auth!Superadmin \notin c.shown
    <2>1. \A c \in Auth!OpsUserControls \cup Auth!RbacControls : Auth!Superadmin \notin c.shown
      BY DEF Auth!OpsUserControls, Auth!RbacControls, Auth!Control, Auth!Superadmin
    <2>2. \A c \in Auth!ManagedControls : Auth!Superadmin \notin c.shown
      BY DEF Auth!ManagedControls, Auth!Control, Auth!Superadmin
    <2>3. \A c \in Auth!I18nControls \cup Auth!UploadControls : Auth!Superadmin \notin c.shown
      BY DEF Auth!I18nControls, Auth!UploadControls, Auth!Control, Auth!Superadmin
    <2> QED BY <2>1, <2>2, <2>3 DEF Auth!Controls
  <1> QED BY <1>1, <1>2, ControlsAreBacked

\* The controls that are shown to somebody whom the API refuses them are those named: the
\* button of an operator's roles, and four on the page of the translations.
THEOREM DriftIsAsNamed ==
  \A c \in Auth!Controls : c \in Auth!Drifted <=> \E a : Auth!SeesControl(a, c) /\ ~Auth!HasAll(a, c.needs)
  <1> SUFFICES ASSUME NEW c \in Auth!Controls
               PROVE  c \in Auth!Drifted <=> \E a : Auth!SeesControl(a, c) /\ ~Auth!HasAll(a, c.needs)
    OBVIOUS
  <1> DEFINE enough == c.shown \cup Auth!RouteNeeds[c.route]
  <1>1. c \in Auth!Drifted <=> ~(c.needs \subseteq enough)
    BY ControlsAreBacked
  <1>2. \A a : Auth!SeesControl(a, c) <=> Auth!HasAll(a, enough)
    BY DEF Auth!SeesControl, Auth!SeesPage, Auth!HasAll
  <1>3. Auth!Superadmin \notin enough
    BY NobodyAsksForARole
  <1> HIDE DEF enough
  <1>4. ASSUME c \notin Auth!Drifted, NEW a, Auth!HasAll(a, enough) PROVE Auth!HasAll(a, c.needs)
    BY <1>1, <1>4 DEF Auth!HasAll
  <1>5. ASSUME c \in Auth!Drifted PROVE Auth!HasAll(enough, enough) /\ ~Auth!HasAll(enough, c.needs)
    BY <1>1, <1>3, <1>5 DEF Auth!HasAll, Auth!Has
  <1> QED BY <1>2, <1>4, <1>5

\* All that a tab offers its user, but those, the API would have let the user do at a time since
\* the tab got its token, whatever the users are allowed and however that changes.
THEOREM OffersAreTrue == Spec => []OffersWereAllowed
  <1>1. TasksInv => OffersWereAllowed
    <2> SUFFICES ASSUME TasksInv, ctx.token # NoToken, ctx.loaded, ~crossed, ~failed
                 PROVE  \E a \in seen :
                          /\ \A route \in Auth!Routes : Auth!SeesItem(Auth!Shown, route)
                               => Auth!SeesPage(Auth!Shown, route) /\ Auth!HasAll(a, Auth!ListNeeds[route])
                          /\ \A c \in Auth!Controls \ Auth!Drifted : Auth!SeesControl(Auth!Shown, c) => Auth!HasAll(a, c.needs)
      BY DEF OffersWereAllowed, Auth!OffersWereAllowed
    <2>1. Auth!Shown \in seen
      BY DEF TasksInv, AuthInv, Auth!ShownPermissionsAreTheirs
    <2>2. ASSUME NEW route \in Auth!Routes, Auth!SeesItem(Auth!Shown, route)
          PROVE  Auth!SeesPage(Auth!Shown, route) /\ Auth!HasAll(Auth!Shown, Auth!ListNeeds[route])
      <3>1. Auth!MenuNeeds[route] = Auth!RouteNeeds[route]
        BY DEF Auth!MenuNeeds, Auth!RouteNeeds, Auth!Routes
      <3>2. Auth!ListNeeds[route] \subseteq Auth!RouteNeeds[route]
        BY DEF Auth!ListNeeds, Auth!RouteNeeds, Auth!Routes
      <3> QED BY <2>2, <3>1, <3>2 DEF Auth!SeesItem, Auth!SeesPage, Auth!HasAll
    <2>3. ASSUME NEW c \in Auth!Controls \ Auth!Drifted, Auth!SeesControl(Auth!Shown, c)
          PROVE  Auth!HasAll(Auth!Shown, c.needs)
      BY <2>3, DriftIsAsNamed
    <2> QED BY <2>1, <2>2, <2>3
  <1> QED BY <1>1, InvariantsHold, PTL

\* At rest the table of the translations is what the page says it is, unless its last request
\* failed or was overtaken, however many lists and searches there were.
THEOREM TableIsExplained == Spec => []MixedTableIsExplained
  <1>1. TasksInv => MixedTableIsExplained
    BY DEF TasksInv, TranslationsInv, MixedTableIsExplained, Translations!MixedTableIsExplained,
       Translations!TypeOK
  <1> QED BY <1>1, InvariantsHold, PTL

\* An edit of a translation sends only what its operator has typed, whatever an earlier row has
\* left in the form.
THEOREM OnlyTypedIsSent == Spec => EditsSendWhatWasTyped
  <1>1. TasksInv /\ [Next]_vars =>
          [submit.pc = "none" /\ submit'.pc = "sent" /\ submit'.kind = "edit" =>
             submit'.payload # {} /\ submit'.payload \subseteq dialog.typed]_(Translations!vars)
    BY PartsStep, EditsSend DEF TasksInv
  <1> QED BY <1>1, InvariantsHold, PTL DEF Spec, EditsSendWhatWasTyped,
             Translations!EditsSendWhatWasTyped

\* When saving the permissions of a role succeeds, the role has what was checked, apart from
\* permissions on which the page was out of date or that others changed meanwhile.
THEOREM SuccessIsAsChecked == Spec => SavedMeansAsChecked
  <1>1. TasksInv /\ [Next]_vars =>
          [\A s \in Saves :
             saving[s].pc = "saving" /\ saving'[s].pc = "none" /\ ~saving[s].rejected =>
               Grants!Differ(granted, saving[s].want) \subseteq saving[s].off]_(Grants!vars)
    BY PartsStep, SavedMeans DEF TasksInv
  <1> QED BY <1>1, InvariantsHold, PTL DEF Spec, SavedMeansAsChecked, Grants!SavedMeansAsChecked

\* One form for all rows sends no text of another record, and none that its operator did not
\* type but what the table had said of this one.
THEOREM FormsKeepToTheirRecords == Spec => UntypedTextOnlyReverts
  <1>1. TasksInv /\ [Next]_vars =>
          [\A c \in RecordCalls : call[c].kind = "update" /\ call'[c].kind = "none" /\ ~call[c].typed =>
             text' \in {text, [text EXCEPT ![call[c].row] = call[c].base]}]_(Records!vars)
    BY PartsStep, UntypedReverts DEF TasksInv
  <1> QED BY <1>1, InvariantsHold, PTL DEF Spec, UntypedTextOnlyReverts, Records!UntypedTextOnlyReverts

\* A package that is stored but not served has a reason: a refresh that is yet to come, or one
\* of the named failures.
THEOREM StaleHasAReason == Spec => []StalePackageIsExplained
  <1>1. TasksInv => StalePackageIsExplained
    BY DEF TasksInv, UploadInv, StalePackageIsExplained
  <1> QED BY <1>1, InvariantsHold, PTL

\* Who is told that the second factor is enabled has its secret in the authenticator, unless
\* another tab or an abandoned set-up meddled, in any number of tabs.
THEOREM EnabledMeansUsable == Spec => EnabledIsUsable
  <1>1. TasksInv /\ [Next]_vars =>
          [\A t \in Tabs : enable[t].pc = "served" /\ enable'[t].pc = "none" =>
             authenticator = secret \/ meddled[t]]_(TwoFactor!vars)
    BY EnabledUsable DEF TasksInv
  <1> QED BY <1>1, InvariantsHold, PTL DEF Spec, EnabledIsUsable, TwoFactor!EnabledIsUsable

\* Wherever runs of the seed are cut short, the superadmin role of the admin user comes after
\* all other rows, for any list of permissions.
THEOREM RoleComesLast == Spec => []MembershipComesLast
  <1>1. TasksInv => MembershipComesLast
    BY SeedSays DEF TasksInv, MembershipComesLast
  <1> QED BY <1>1, InvariantsHold, PTL

\* A run of the seed that gets to its end undisturbed leaves no row missing, and the admin user
\* ACTIVE with the password of the environment.
THEOREM SeedsAreWhole == Spec => []CompletedSeedsAreWhole
  <1>1. TasksInv => CompletedSeedsAreWhole
    BY SeedSays DEF TasksInv, CompletedSeedsAreWhole
  <1> QED BY <1>1, InvariantsHold, PTL
=============================================================================
