------------------------------ MODULE Content ------------------------------
(***************************************************************************)
(* What the API serves beside users and roles: flags and configs,          *)
(* translations and announcements, and the audit trail over all of them.   *)
(* AuditInterceptor sees every answer to a request that is not a GET, and  *)
(* sends off a record that nobody waits for: whether it arrives is not     *)
(* modelled, as nothing here depends on it.                                *)
(***************************************************************************)
EXTENDS Naturals

CONSTANTS Reqs,           \* requests: the bound of a run
          Keys,           \* keys of flags and configs
          Rows, Drafts,   \* announcements; those there from the start
          Retries, NoRow, Miss

VARIABLES row, ids, entry, fjob, fchanged, fexcused,
          upstream, late, list, fresh, ijob, refresh, applied, iexcused,
          status, ajob, achanged,
          audit           \* the record of a request that was sent to audit_logs

flags == <<row, ids, entry, fjob, fchanged, fexcused>>
i18n == <<upstream, late, list, fresh, ijob, refresh, applied, iexcused>>
announcements == <<status, ajob, achanged>>
vars == <<flags, i18n, announcements, audit>>

Flags == INSTANCE KeyedCache WITH job <- fjob, changed <- fchanged, excused <- fexcused
I18n == INSTANCE I18nProxy WITH job <- ijob, excused <- iexcused
Announced == INSTANCE Announcements WITH job <- ajob, changed <- achanged

ASSUME ContentAssumption == Flags!NoneAssumption /\ I18n!ProxyAssumption /\ Announced!RowsAssumption

\* A request is for one service.
Free(q) == fjob[q].pc = "new" /\ ijob[q].pc = "new" /\ ajob[q].pc = "new"
\* The answer is an error, although the statement that threw had changed a row.
Unheard(q) == fjob[q].pc = "unheard" \/ ajob[q].pc = "unheard"
Outcomes(q) == ({fjob[q].pc, ijob[q].pc, ajob[q].pc} \cap {"ok", "failed"})
                 \cup {o \in {"failed"} : Unheard(q)}
Answered(q) == Outcomes(q) # {}
\* Not a GET.
Audited(q) == fjob[q].kind # "read" \/ ijob[q].kind = "edit" \/ ajob[q].pc # "new"
Changed(q) == q \in fchanged \/ q \in achanged \/ applied[q] > 0

TypeOK ==
  /\ Flags!TypeOK /\ I18n!TypeOK /\ Announced!TypeOK
  /\ audit \in [Reqs -> {"none", "ok", "failed"}]
  /\ \A q \in Reqs : audit[q] # "none" => Answered(q)

Init ==
  /\ Flags!Init /\ I18n!Init /\ Announced!Init
  /\ audit = [q \in Reqs |-> "none"]
-----------------------------------------------------------------------------
\* Mutant: the interceptor catches no errors.
TapOnly ==
  audit' = [q \in Reqs |-> IF ~Answered(q) /\ Audited(q)' /\ "ok" \in Outcomes(q)' THEN "ok" ELSE audit[q]]

\* tap and catchError: as the answer passes, its record is sent off.
Tap ==
  audit' = [q \in Reqs |-> IF ~Answered(q) /\ Answered(q)' /\ Audited(q)'
                           THEN (CHOOSE o \in {"ok", "failed"} : o \in Outcomes(q)') ELSE audit[q]]

Flag(q) ==
  /\ (Free(q) /\ Flags!Ask(q)) \/ Flags!Step(q) \/ Flags!Dies(q)
  /\ UNCHANGED <<i18n, announcements>>
  /\ Tap

Translate(q) ==
  /\ (Free(q) /\ I18n!Ask(q)) \/ I18n!GetMarker(q) \/ I18n!Refreshing(q) \/ I18n!Editing(q)
     \/ I18n!CarryLate(q) \/ I18n!Dies(q)
  /\ UNCHANGED <<flags, announcements>>
  /\ Tap

Announce(q) ==
  /\ (Free(q) /\ Announced!Ask(q)) \/ Announced!Step(q) \/ Announced!Dies(q)
  /\ UNCHANGED <<flags, i18n>>
  /\ Tap

Expire ==
  /\ \/ (\E k \in Keys : Flags!Expire(k)) /\ UNCHANGED i18n
     \/ (I18n!MarkerExpires \/ I18n!ListExpires) /\ UNCHANGED flags
  /\ UNCHANGED <<announcements, audit>>

Next == (\E q \in Reqs : Flag(q) \/ Translate(q) \/ Announce(q)) \/ Expire

Spec == Init /\ [][Next]_vars
-----------------------------------------------------------------------------
\* Flags and configs: see KeyedCache.
StaleRowsAreExplained == Flags!StaleRowsAreExplained

\* Translations: see I18nProxy.
StaleListIsExplained == I18n!StaleListIsExplained
EditsAreBounded == I18n!EditsAreBounded

\* Flags and configs are served as they are or once were: an outdated row is one that the
\* key had, was never absent, and does not come back once it is gone everywhere.
LaggingFlags == INSTANCE LaggingRegister WITH
  Values <- Flags!Stored, Absent <- NoRow,
  value <- row,
  outdated <- [k \in Keys |-> Flags!Outdated(k)]
FlagsOnlyLag == LaggingFlags!Spec

\* So is the list of translations.
LaggingList == INSTANCE LaggingRegister WITH
  Keys <- {"list"}, Values <- Nat, Absent <- Miss,
  value <- [k \in {"list"} |-> upstream],
  outdated <- [k \in {"list"} |-> I18n!Outdated]
TranslationsOnlyLag == LaggingList!Spec

\* No change goes unrecorded: whoever changed a flag, a config, a translation or an
\* announcement and was answered, be it with an error, has had a record sent off.
ChangesAreAudited ==
  \A q \in Reqs : Changed(q) /\ Answered(q) => audit[q] # "none"

\* A record of a success stands for a change that was made.  One of a failure stands for
\* none, unless what failed was the answer: of the database, to the one statement that had
\* changed the row, or of the upstream, which may have made the edit all the same.  A request
\* that changed something and was told so never ends as a failure.
RecordsTellTheTruth ==
  \A q \in Reqs : /\ audit[q] = "ok" => Changed(q)
                  /\ audit[q] = "failed" /\ Changed(q) => Unheard(q) \/ applied[q] > 0
=============================================================================
