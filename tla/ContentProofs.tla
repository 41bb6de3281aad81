--------------------------- MODULE ContentProofs ---------------------------
(***************************************************************************)
(* The safety of Content for any number of requests, keys, announcements   *)
(* and retries.  What is proved of KeyedCache holds of flags and configs,  *)
(* where requests to other services run between theirs; translations and   *)
(* announcements have an invariant each, ProxyInv and AnnouncementInv; and *)
(* the audit trail rests on all three: where a request is says whether it  *)
(* has changed anything, and its record says where it is.                  *)
(***************************************************************************)
EXTENDS Content, TLAPS

Cache == INSTANCE KeyedCacheProofs WITH job <- fjob, changed <- fchanged, excused <- fexcused

\* Each step of Content is one of the cache, or leaves it alone.
LEMMA FlagsAreACache == [Next]_vars => [Cache!Next]_(Cache!vars)
  <1> SUFFICES ASSUME [Next]_vars PROVE Cache!Next \/ UNCHANGED Cache!vars
    OBVIOUS
  <1>1. ASSUME NEW q \in Reqs, Flag(q) PROVE Cache!Next
    <2>1. Flags!Ask(q) \/ Flags!Step(q) \/ Flags!Dies(q)
      BY <1>1 DEF Flag
    <2>2. Flags!Ask(q) => Cache!Ask(q)
      BY DEF Flags!Ask, Cache!Ask, Flags!Get, Cache!Get, Flags!Check, Cache!Check, Flags!Find, Cache!Find,
             Flags!Begin, Cache!Begin, Flags!At, Cache!At
    <2>3. Flags!Step(q) => Cache!Step(q)
      BY DEF Flags!Step, Cache!Step, Flags!Load, Cache!Load, Flags!Set, Cache!Set, Flags!Insert, Cache!Insert,
             Flags!Write, Cache!Write, Flags!WriteUnheard, Cache!WriteUnheard, Flags!Found, Cache!Found,
             Flags!Change, Cache!Change, Flags!Del, Cache!Del, Flags!Throws, Cache!Throws, Flags!At, Cache!At,
             Flags!Goto, Cache!Goto, Flags!Overtake, Cache!Overtake, Flags!Edited, Cache!Edited,
             Flags!Stale, Cache!Stale
    <2>4. Flags!Dies(q) => Cache!Dies(q)
      BY DEF Flags!Dies, Cache!Dies, Flags!At, Cache!At, Flags!Goto, Cache!Goto, Flags!Stale, Cache!Stale
    <2> QED BY <2>1, <2>2, <2>3, <2>4 DEF Cache!Next
  <1>2. ASSUME NEW q \in Reqs, Translate(q) \/ Announce(q) PROVE UNCHANGED Cache!vars
    BY <1>2 DEF Translate, Announce, flags, Cache!vars
  <1>3. CASE Expire
    BY <1>3 DEF Expire, Flags!Expire, Cache!Expire, Cache!Next, flags, Cache!vars
  <1>4. CASE UNCHANGED vars
    BY <1>4 DEF vars, flags, Cache!vars
  <1> QED BY <1>1, <1>2, <1>3, <1>4 DEF Next

\* The API serves an outdated flag or config only while its change has still to send its DEL,
\* after a DEL that was lost or never sent, or after the SET of a reader that was overtaken, whatever translations,
\* announcements and the audit trail do in between.
THEOREM StalenessIsExplained == Spec => []StaleRowsAreExplained
  <1>1. Cache!NoneAssumption
    BY ContentAssumption DEF Flags!NoneAssumption, Cache!NoneAssumption, Flags!Stored, Cache!Stored
  <1>2. Init => Cache!CacheInv
    <2>1. Init => Cache!Init
      BY DEF Init, Flags!Init, Cache!Init, Flags!New, Cache!New
    <2> QED BY <2>1, <1>1, Cache!CacheInit
  <1>3. Cache!CacheInv /\ [Next]_vars => Cache!CacheInv'
    BY <1>1, FlagsAreACache, Cache!CacheStep
  <1>4. Cache!CacheInv => StaleRowsAreExplained
    BY DEF Cache!CacheInv, Cache!StaleRowsAreExplained, StaleRowsAreExplained, Flags!StaleRowsAreExplained,
           Cache!Stale, Flags!Stale, Cache!At, Flags!At
  <1> QED BY <1>2, <1>3, <1>4, PTL DEF Spec

\* Cache and Flags speak of the same copies.
LEMMA SameCopies ==
  \A k \in Keys : Cache!Outdated(k) = Flags!Outdated(k) /\ Cache!Outdated(k)' = Flags!Outdated(k)'
  BY DEF Cache!Outdated, Flags!Outdated, Cache!Held, Flags!Held, Cache!At, Flags!At

\* The current row and the copies of others are rows.
FlagCopiesTyped ==
  /\ row \in [Keys -> Flags!Stored \cup {NoRow}]
  /\ [k \in Keys |-> Flags!Outdated(k)] \in [Keys -> SUBSET Flags!Stored]

LEMMA CopiesAreRows == ASSUME Cache!CacheInv PROVE FlagCopiesTyped
  <1>1. row \in [Keys -> Cache!Stored \cup {NoRow}] /\ entry \in [Keys -> Cache!Stored \cup {Miss}]
    BY DEF Cache!CacheInv, Cache!TypeOK
  <1>2. ASSUME NEW q \in Reqs, Cache!At(q, "set") PROVE fjob[q].row \in Cache!Stored
    BY <1>2 DEF Cache!CacheInv, Cache!TypeOK, Cache!LoadsAreTracked, Cache!Job
  <1>3. ASSUME NEW k \in Keys PROVE Flags!Outdated(k) \subseteq Cache!Stored
    <2>1. Cache!Held(k) \subseteq Cache!Stored
      BY <1>2 DEF Cache!Held
    <2>2. Cache!Outdated(k) \subseteq Cache!Stored
      BY <1>1, <2>1 DEF Cache!Outdated
    <2> QED BY <2>2, SameCopies
  <1>4. Cache!Stored = Flags!Stored
    BY DEF Cache!Stored, Flags!Stored
  <1> QED BY <1>1, <1>3, <1>4 DEF FlagCopiesTyped

\* For any keys and requests, findByKey answers with the row as it is or as it was: no
\* interleaving and no lost command makes up a row, caches an absent one, or revives one
\* that is gone from the cache and from its readers.
THEOREM FlagsLag == Spec => FlagsOnlyLag
  <1>1. Cache!NoneAssumption
    BY ContentAssumption DEF Flags!NoneAssumption, Cache!NoneAssumption, Flags!Stored, Cache!Stored
  <1>2. Init => Cache!CacheInv
    <2>1. Init => Cache!Init
      BY DEF Init, Flags!Init, Cache!Init, Flags!New, Cache!New
    <2> QED BY <2>1, <1>1, Cache!CacheInit
  <1>3. Cache!CacheInv /\ [Next]_vars => Cache!CacheInv'
    BY <1>1, FlagsAreACache, Cache!CacheStep
  <1>4. Init => LaggingFlags!Init
    <2> SUFFICES ASSUME Init PROVE LaggingFlags!Init
      OBVIOUS
    <2>1. row \in [Keys -> Flags!Stored \cup {NoRow}]
      BY <1>2, CopiesAreRows DEF FlagCopiesTyped
    <2>2. ASSUME NEW k \in Keys PROVE Flags!Outdated(k) = {}
      <3>1. \A q \in Reqs : fjob[q].pc # "set"
        BY DEF Init, Flags!Init, Flags!New
      <3> QED BY <3>1 DEF Init, Flags!Init, Flags!Outdated, Flags!Held, Flags!At
    <2> QED BY <2>1, <2>2 DEF LaggingFlags!Init
  <1>5. Cache!CacheInv => FlagCopiesTyped
    BY CopiesAreRows
  <1>6. Cache!CacheInv /\ Cache!CacheInv' /\ FlagCopiesTyped' /\ [Next]_vars => [LaggingFlags!Next]_(LaggingFlags!vars)
    <2> SUFFICES ASSUME Cache!CacheInv, Cache!CacheInv', FlagCopiesTyped', [Next]_vars PROVE LaggingFlags!Next
      OBVIOUS
    <2>1. /\ row' \in [Keys -> Flags!Stored \cup {NoRow}]
          /\ [k \in Keys |-> Flags!Outdated(k)]' \in [Keys -> SUBSET Flags!Stored]
      BY DEF FlagCopiesTyped
    <2>2. ASSUME NEW k \in Keys
          PROVE  Flags!Outdated(k)' \subseteq (Flags!Outdated(k) \cup ({row[k]} \ {NoRow})) \ {row'[k]}
      <3>1. Cache!Outdated(k)' \subseteq (Cache!Outdated(k) \cup ({row[k]} \ {NoRow})) \ {row'[k]}
        BY <1>1, FlagsAreACache, Cache!CopiesAreLeft
      <3> QED BY <3>1, SameCopies
    <2> QED BY <2>1, <2>2 DEF LaggingFlags!Next, LaggingFlags!Copied
  <1> QED BY <1>2, <1>3, <1>4, <1>5, <1>6, PTL DEF Spec, FlagsOnlyLag, LaggingFlags!Spec
-----------------------------------------------------------------------------
(* Translations: I18nProxy within Content. *)

\* A refresh that holds a list holds the current one, unless an edit has overtaken it.
FetchesAreTracked ==
  \A q \in Reqs : refresh[q].pc = "list" /\ ~refresh[q].overtaken => refresh[q].got = upstream

\* Where a request for translations is says what it is and how often it got through.
TranslationIs(q) ==
  /\ ijob[q].pc = "new" => ijob[q].kind = "list" /\ refresh[q].pc = "none"
  /\ ijob[q].pc \in {"new", "marker", "wait"} => ijob[q].kind = "list" /\ applied[q] = 0 /\ late[q] = 0
  /\ ijob[q].pc \in {"send", "del"} => ijob[q].kind = "edit"
  /\ ijob[q].pc = "send" => applied[q] + late[q] <= ijob[q].tries
  /\ ijob[q].pc = "del" \/ (ijob[q].pc = "ok" /\ ijob[q].kind = "edit") => applied[q] > 0
  /\ applied[q] + late[q] > 0 => ijob[q].kind = "edit"
  /\ applied[q] + late[q] <= Retries + 1

ProxyInv == I18n!TypeOK /\ FetchesAreTracked /\ StaleListIsExplained /\ \A q \in Reqs : TranslationIs(q)

\* A request keeps its data as it moves on.
LEMMA ProxyGoto ==
  ASSUME I18n!TypeOK, NEW q \in Reqs, NEW pc \in I18n!PCs, I18n!Goto(q, pc)
  PROVE  /\ ijob' \in [Reqs -> [pc : I18n!PCs, kind : {"list", "edit"}, tries : 0 .. Retries]]
         /\ ijob'[q].pc = pc /\ ijob'[q].kind = ijob[q].kind /\ ijob'[q].tries = ijob[q].tries
         /\ \A x \in Reqs \ {q} : ijob'[x] = ijob[x]
  BY DEF I18n!TypeOK, I18n!Goto

\* A refresh begins.
LEMMA Started ==
  ASSUME I18n!TypeOK, NEW q \in Reqs, I18n!StartRefresh(q)
  PROVE  /\ refresh' \in [Reqs -> [pc : {"none", "fetch", "list", "marker"}, tries : 0 .. Retries, got : Nat, overtaken : BOOLEAN]]
         /\ refresh'[q].pc = "fetch" /\ \A x \in Reqs \ {q} : refresh'[x] = refresh[x]
  <1> DEFINE R == [pc : {"none", "fetch", "list", "marker"}, tries : 0 .. Retries, got : Nat, overtaken : BOOLEAN]
  <1>1. 0 \in 0 .. Retries
    BY ContentAssumption DEF I18n!ProxyAssumption
  <1>2. I18n!NoRefresh \in R
    BY <1>1 DEF I18n!NoRefresh
  <1>3. \A n \in R : [n EXCEPT !.pc = "fetch"] \in R /\ [n EXCEPT !.pc = "fetch"].pc = "fetch"
    OBVIOUS
  <1>4. PICK k \in R : k = [I18n!NoRefresh EXCEPT !.pc = "fetch"] /\ k.pc = "fetch"
    BY <1>2, <1>3
  <1>5. refresh' = [refresh EXCEPT ![q] = k]
    BY <1>4 DEF I18n!StartRefresh
  <1> QED BY <1>4, <1>5 DEF I18n!TypeOK

\* What one request does leaves the others' data alone; what is left to show is what it
\* makes of its own, and that outdated lists stay explained.
LEMMA ProxyStep ==
  ASSUME ProxyInv, NEW q \in Reqs,
         ijob' \in [Reqs -> [pc : I18n!PCs, kind : {"list", "edit"}, tries : 0 .. Retries]],
         refresh' \in [Reqs -> [pc : {"none", "fetch", "list", "marker"}, tries : 0 .. Retries, got : Nat, overtaken : BOOLEAN]],
         upstream' \in Nat, late' \in [Reqs -> Nat], applied' \in [Reqs -> Nat], list' \in Nat \cup {Miss},
         fresh' \in BOOLEAN, iexcused' \in BOOLEAN,
         \A x \in Reqs \ {q} : ijob'[x] = ijob[x] /\ late'[x] = late[x] /\ applied'[x] = applied[x] /\ refresh'[x].pc = refresh[x].pc,
         ijob'[q].pc = "wait" => refresh'[q].pc # "none",
         TranslationIs(q)', FetchesAreTracked', StaleListIsExplained'
  PROVE  ProxyInv'
  <1>1. I18n!TypeOK'
    BY DEF ProxyInv, I18n!TypeOK
  <1>2. \A x \in Reqs : TranslationIs(x)'
    BY DEF ProxyInv, TranslationIs
  <1> QED BY <1>1, <1>2 DEF ProxyInv

\* GetList, GetMarker and AskEdit.
LEMMA ListAsks ==
  ASSUME ProxyInv, NEW q \in Reqs, I18n!GetList(q) \/ I18n!GetMarker(q) \/ I18n!AskEdit(q)
  PROVE  ProxyInv'
  <1> USE ContentAssumption DEF I18n!ProxyAssumption
  <1>1. UNCHANGED <<upstream, late, list, fresh, applied, iexcused>>
    BY DEF I18n!GetList, I18n!GetMarker, I18n!AskEdit, I18n!outside, I18n!redis
  <1>2. /\ I18n!TypeOK /\ ijob[q] \in [pc : I18n!PCs, kind : {"list", "edit"}, tries : 0 .. Retries] /\ TranslationIs(q)
    BY DEF ProxyInv, I18n!TypeOK
  <1>3. \/ /\ ijob[q].pc = "new"
           /\ \/ I18n!Begin(q, "marker", "list") /\ UNCHANGED refresh
              \/ I18n!Begin(q, "wait", "list") /\ I18n!StartRefresh(q)
              \/ I18n!Begin(q, "send", "edit") /\ UNCHANGED refresh
        \/ ijob[q].pc = "marker" /\ I18n!Goto(q, "ok") /\ (UNCHANGED refresh \/ I18n!StartRefresh(q))
    BY DEF I18n!GetList, I18n!GetMarker, I18n!AskEdit, I18n!At
  <1>4. PICK k \in [pc : I18n!PCs, kind : {"list", "edit"}, tries : 0 .. Retries] :
           /\ ijob' = [ijob EXCEPT ![q] = k]
           /\ \/ ijob[q].pc = "new" /\ k.pc = "marker" /\ k.kind = "list" /\ UNCHANGED refresh
              \/ ijob[q].pc = "new" /\ k.pc = "wait" /\ k.kind = "list" /\ I18n!StartRefresh(q)
              \/ ijob[q].pc = "new" /\ k.pc = "send" /\ k.kind = "edit" /\ UNCHANGED refresh
              \/ ijob[q].pc = "marker" /\ k.pc = "ok" /\ k.kind = "list" /\ (UNCHANGED refresh \/ I18n!StartRefresh(q))
    <2> DEFINE k(pc, kind) == [ijob[q] EXCEPT !.pc = pc, !.kind = kind]
    <2>1. \A pc \in {"marker", "wait", "send"}, kind \in {"list", "edit"} :
             /\ k(pc, kind) \in [pc : I18n!PCs, kind : {"list", "edit"}, tries : 0 .. Retries]
             /\ k(pc, kind).pc = pc /\ k(pc, kind).kind = kind
      BY <1>2 DEF I18n!PCs
    <2>2. \A pc, kind : I18n!Begin(q, pc, kind) => ijob' = [ijob EXCEPT ![q] = k(pc, kind)]
      BY DEF I18n!Begin
    <2> HIDE DEF k
    <2>3. CASE ijob[q].pc = "new"
      BY <1>3, <2>1, <2>2, <2>3
    <2>4. CASE ijob[q].pc = "marker"
      <3> DEFINE l == [ijob[q] EXCEPT !.pc = "ok"]
      <3>1. l \in [pc : I18n!PCs, kind : {"list", "edit"}, tries : 0 .. Retries] /\ l.pc = "ok" /\ l.kind = "list"
        BY <1>2, <2>4 DEF I18n!PCs, TranslationIs
      <3>2. ijob' = [ijob EXCEPT ![q] = l]
        BY <1>3, <2>4 DEF I18n!Goto
      <3> HIDE DEF l
      <3> QED BY <1>3, <2>4, <3>1, <3>2
    <2> QED BY <1>3, <2>3, <2>4
  <1>5. /\ ijob' \in [Reqs -> [pc : I18n!PCs, kind : {"list", "edit"}, tries : 0 .. Retries]]
        /\ ijob'[q] = k /\ \A x \in Reqs \ {q} : ijob'[x] = ijob[x]
    BY <1>2, <1>4 DEF I18n!TypeOK
  <1>6. /\ refresh' \in [Reqs -> [pc : {"none", "fetch", "list", "marker"}, tries : 0 .. Retries, got : Nat, overtaken : BOOLEAN]]
        /\ \A x \in Reqs \ {q} : refresh'[x] = refresh[x]
        /\ refresh'[q] = refresh[q] \/ refresh'[q].pc = "fetch"
        /\ k.pc = "wait" => refresh'[q].pc = "fetch"
    <2>1. CASE k.pc # "wait" /\ UNCHANGED refresh
      BY <1>2, <2>1 DEF I18n!TypeOK
    <2>2. CASE I18n!StartRefresh(q)
      BY <1>2, <2>2, Started
    <2> QED BY <1>4, <2>1, <2>2
  <1>7. TranslationIs(q)'
    BY <1>1, <1>2, <1>4, <1>5 DEF TranslationIs, I18n!TypeOK
  <1>8. FetchesAreTracked'
    BY <1>1, <1>6 DEF ProxyInv, FetchesAreTracked
  <1>9. StaleListIsExplained'
    BY <1>1, <1>4, <1>5 DEF ProxyInv, StaleListIsExplained, I18n!StaleListIsExplained, I18n!Stale
  <1> QED BY <1>1, <1>2, <1>5, <1>6, <1>7, <1>8, <1>9, ProxyStep DEF I18n!TypeOK

\* A refresh ends, for itself or for a reader who waits for it.
LEMMA Ended ==
  ASSUME ProxyInv, NEW q \in Reqs, NEW pc \in {"ok", "failed"}, I18n!EndRefresh(q, pc), refresh[q].pc # "none"
  PROVE  /\ refresh' \in [Reqs -> [pc : {"none", "fetch", "list", "marker"}, tries : 0 .. Retries, got : Nat, overtaken : BOOLEAN]]
         /\ refresh'[q].pc = "none" /\ \A x \in Reqs \ {q} : refresh'[x] = refresh[x] /\ ijob'[x] = ijob[x]
         /\ ijob' \in [Reqs -> [pc : I18n!PCs, kind : {"list", "edit"}, tries : 0 .. Retries]]
         /\ \/ ijob'[q] = ijob[q] /\ ijob[q].pc # "wait"
            \/ ijob[q].pc = "wait" /\ ijob'[q].pc = pc /\ ijob'[q].kind = ijob[q].kind
  <1>1. I18n!TypeOK
    BY DEF ProxyInv
  <1>2. I18n!NoRefresh \in [pc : {"none", "fetch", "list", "marker"}, tries : 0 .. Retries, got : Nat, overtaken : BOOLEAN]
        /\ I18n!NoRefresh.pc = "none"
    <2>1. 0 \in 0 .. Retries
      BY ContentAssumption DEF I18n!ProxyAssumption
    <2> QED BY <2>1 DEF I18n!NoRefresh
  <1>3. refresh' = [refresh EXCEPT ![q] = I18n!NoRefresh]
    BY DEF I18n!EndRefresh
  <1>4. /\ refresh' \in [Reqs -> [pc : {"none", "fetch", "list", "marker"}, tries : 0 .. Retries, got : Nat, overtaken : BOOLEAN]]
        /\ refresh'[q].pc = "none" /\ \A x \in Reqs \ {q} : refresh'[x] = refresh[x]
    BY <1>1, <1>2, <1>3 DEF I18n!TypeOK
  <1>5. CASE ijob[q].pc = "wait"
    <2>1. I18n!Goto(q, pc) /\ pc \in I18n!PCs
      BY <1>5 DEF I18n!EndRefresh, I18n!At, I18n!PCs
    <2> QED BY <1>1, <1>4, <1>5, <2>1, ProxyGoto
  <1>6. CASE ijob[q].pc # "wait"
    <2>1. ijob' = ijob
      BY <1>6 DEF I18n!EndRefresh, I18n!At
    <2> QED BY <1>1, <1>4, <1>6, <2>1 DEF I18n!TypeOK
  <1> QED BY <1>5, <1>6

\* Whatever a refresh does, nothing is edited by it.
LEMMA RefreshStep ==
  ASSUME ProxyInv, NEW q \in Reqs, UNCHANGED <<upstream, late, applied>>, refresh[q].pc # "none",
         refresh' \in [Reqs -> [pc : {"none", "fetch", "list", "marker"}, tries : 0 .. Retries, got : Nat, overtaken : BOOLEAN]],
         ijob' \in [Reqs -> [pc : I18n!PCs, kind : {"list", "edit"}, tries : 0 .. Retries]],
         \A x \in Reqs \ {q} : refresh'[x] = refresh[x] /\ ijob'[x] = ijob[x],
         \/ ijob'[q] = ijob[q] /\ (ijob[q].pc = "wait" => refresh'[q].pc # "none")
         \/ ijob[q].pc = "wait" /\ ijob'[q].pc \in {"ok", "failed"} /\ ijob'[q].kind = ijob[q].kind,
         refresh'[q].pc = "list" /\ ~refresh'[q].overtaken => refresh'[q].got = upstream,
         list' \in Nat \cup {Miss}, fresh' \in BOOLEAN, iexcused' \in BOOLEAN,
         (list' = list /\ iexcused' = iexcused) \/ list' = upstream \/ iexcused'
  PROVE  ProxyInv'
  <1>1. TranslationIs(q) /\ I18n!TypeOK
    BY DEF ProxyInv
  <1>2. TranslationIs(q)'
    BY <1>1 DEF TranslationIs, I18n!TypeOK
  <1>3. FetchesAreTracked'
    BY DEF ProxyInv, FetchesAreTracked
  <1>4. StaleListIsExplained'
    <2>1. \A x \in Reqs : ijob[x].pc \in {"send", "del"} => ijob'[x].pc = ijob[x].pc
      OBVIOUS
    <2> QED BY <2>1 DEF ProxyInv, StaleListIsExplained, I18n!StaleListIsExplained, I18n!Stale
  <1> QED BY <1>1, <1>2, <1>3, <1>4, ProxyStep DEF I18n!TypeOK

\* Fetch, FetchFails and FetchRefused.
LEMMA FetchHolds ==
  ASSUME ProxyInv, NEW q \in Reqs, I18n!Fetch(q) \/ I18n!FetchFails(q) \/ I18n!FetchRefused(q)
  PROVE  ProxyInv'
  <1>1. /\ UNCHANGED <<upstream, late, list, fresh, applied, iexcused>> /\ refresh[q].pc = "fetch" /\ I18n!TypeOK
    BY DEF I18n!Fetch, I18n!FetchFails, I18n!FetchRefused, I18n!outside, I18n!redis, ProxyInv
  <1>2. CASE I18n!EndRefresh(q, "failed")
    BY <1>1, <1>2, Ended, RefreshStep DEF I18n!TypeOK
  <1>3. CASE ijob' = ijob /\ \E k \in [pc : {"none", "fetch", "list", "marker"}, tries : 0 .. Retries, got : Nat, overtaken : BOOLEAN] :
                     /\ refresh' = [refresh EXCEPT ![q] = k] /\ k.pc \in {"list", "fetch"}
                     /\ k.pc = "list" => k.got = upstream
    <2>1. PICK k \in [pc : {"none", "fetch", "list", "marker"}, tries : 0 .. Retries, got : Nat, overtaken : BOOLEAN] :
                     /\ refresh' = [refresh EXCEPT ![q] = k] /\ k.pc \in {"list", "fetch"}
                     /\ k.pc = "list" => k.got = upstream
      BY <1>3
    <2>2. /\ refresh' \in [Reqs -> [pc : {"none", "fetch", "list", "marker"}, tries : 0 .. Retries, got : Nat, overtaken : BOOLEAN]]
          /\ refresh'[q] = k /\ \A x \in Reqs \ {q} : refresh'[x] = refresh[x]
      BY <1>1, <2>1 DEF I18n!TypeOK
    <2> QED BY <1>1, <1>3, <2>1, <2>2, RefreshStep DEF I18n!TypeOK
  <1>4. /\ refresh[q] \in [pc : {"none", "fetch", "list", "marker"}, tries : 0 .. Retries, got : Nat, overtaken : BOOLEAN]
        /\ upstream \in Nat /\ Retries \in Nat
    BY <1>1, ContentAssumption DEF I18n!TypeOK, I18n!ProxyAssumption
  <1>5. CASE I18n!Fetch(q)
    <2> DEFINE k == [refresh[q] EXCEPT !.pc = "list", !.got = upstream]
    <2>1. k \in [pc : {"none", "fetch", "list", "marker"}, tries : 0 .. Retries, got : Nat, overtaken : BOOLEAN] /\ k.pc = "list" /\ k.got = upstream
      BY <1>4
    <2>2. refresh' = [refresh EXCEPT ![q] = k] /\ ijob' = ijob
      BY <1>5 DEF I18n!Fetch
    <2> HIDE DEF k
    <2> QED BY <1>3, <2>1, <2>2
  <1>6. CASE I18n!FetchFails(q) /\ refresh[q].tries < Retries
    <2> DEFINE k == [refresh[q] EXCEPT !.tries = @ + 1]
    <2>1. k \in [pc : {"none", "fetch", "list", "marker"}, tries : 0 .. Retries, got : Nat, overtaken : BOOLEAN] /\ k.pc = "fetch"
      BY <1>1, <1>4, <1>6
    <2>2. refresh' = [refresh EXCEPT ![q] = k] /\ ijob' = ijob
      BY <1>6 DEF I18n!FetchFails
    <2> HIDE DEF k
    <2> QED BY <1>3, <2>1, <2>2
  <1> QED BY <1>2, <1>5, <1>6 DEF I18n!FetchFails, I18n!FetchRefused

\* SetList and SetMarker: an outdated list is put back only by a refresh that was overtaken.
LEMMA SetsHold ==
  ASSUME ProxyInv, NEW q \in Reqs, I18n!SetList(q) \/ I18n!SetMarker(q)
  PROVE  ProxyInv'
  <1>1. I18n!TypeOK /\ UNCHANGED <<upstream, late, applied>>
    BY DEF ProxyInv, I18n!SetList, I18n!SetMarker, I18n!outside
  <1>2. CASE I18n!SetMarker(q)
    <2>1. I18n!EndRefresh(q, "ok") /\ refresh[q].pc = "marker" /\ fresh' \in BOOLEAN /\ list' = list /\ iexcused' = iexcused
      BY <1>1, <1>2 DEF I18n!SetMarker, I18n!TypeOK
    <2> QED BY <1>1, <2>1, Ended, RefreshStep DEF I18n!TypeOK
  <1>3. CASE I18n!SetList(q)
    <2> DEFINE k == [refresh[q] EXCEPT !.pc = "marker"]
    <2>1. refresh[q] \in [pc : {"none", "fetch", "list", "marker"}, tries : 0 .. Retries, got : Nat, overtaken : BOOLEAN]
      BY <1>1 DEF I18n!TypeOK
    <2>2. k \in [pc : {"none", "fetch", "list", "marker"}, tries : 0 .. Retries, got : Nat, overtaken : BOOLEAN] /\ k.pc = "marker"
      BY <2>1
    <2>3. refresh' = [refresh EXCEPT ![q] = k] /\ ijob' = ijob /\ fresh' = fresh /\ refresh[q].pc = "list"
      BY <1>3 DEF I18n!SetList
    <2> HIDE DEF k
    <2>4. /\ refresh' \in [Reqs -> [pc : {"none", "fetch", "list", "marker"}, tries : 0 .. Retries, got : Nat, overtaken : BOOLEAN]]
          /\ refresh'[q] = k /\ \A x \in Reqs \ {q} : refresh'[x] = refresh[x]
      BY <1>1, <2>2, <2>3 DEF I18n!TypeOK
    <2>5. refresh[q].got # upstream => refresh[q].overtaken
      BY <2>3 DEF ProxyInv, FetchesAreTracked
    <2>6. \/ list' = list /\ iexcused' = iexcused
          \/ list' = refresh[q].got /\ iexcused' = (refresh[q].got # upstream /\ (iexcused \/ refresh[q].overtaken))
      BY <1>3 DEF I18n!SetList
    <2>7. list' \in Nat \cup {Miss} /\ iexcused' \in BOOLEAN
      BY <1>1, <2>1, <2>6 DEF I18n!TypeOK
    <2>8. (list' = list /\ iexcused' = iexcused) \/ list' = upstream \/ iexcused'
      BY <2>5, <2>6
    <2> QED BY <1>1, <2>2, <2>3, <2>4, <2>7, <2>8, RefreshStep DEF I18n!TypeOK
  <1> QED BY <1>2, <1>3

\* The upstream has changed: whatever was fetched before is overtaken.
LEMMA CarryIs ==
  ASSUME ProxyInv, NEW q \in Reqs, I18n!Carry(q)
  PROVE  /\ upstream' \in Nat /\ applied' \in [Reqs -> Nat] /\ applied'[q] = applied[q] + 1 /\ applied'[q] > 0
         /\ \A x \in Reqs \ {q} : applied'[x] = applied[x]
         /\ refresh' \in [Reqs -> [pc : {"none", "fetch", "list", "marker"}, tries : 0 .. Retries, got : Nat, overtaken : BOOLEAN]]
         /\ \A x \in Reqs : refresh'[x].pc = refresh[x].pc
         /\ FetchesAreTracked'
  <1> DEFINE R == [pc : {"none", "fetch", "list", "marker"}, tries : 0 .. Retries, got : Nat, overtaken : BOOLEAN]
  <1>1. /\ upstream \in Nat /\ applied \in [Reqs -> Nat] /\ refresh \in [Reqs -> R]
        /\ upstream' = upstream + 1 /\ applied' = [applied EXCEPT ![q] = @ + 1]
    BY DEF ProxyInv, I18n!TypeOK, I18n!Carry
  <1>2. \A n \in R : /\ [n EXCEPT !.overtaken = TRUE] \in R /\ [n EXCEPT !.overtaken = TRUE].pc = n.pc
                     /\ [n EXCEPT !.overtaken = TRUE].overtaken
    OBVIOUS
  <1>3. refresh' = [x \in Reqs |-> IF refresh[x].pc = "list" THEN [refresh[x] EXCEPT !.overtaken = TRUE] ELSE refresh[x]]
    BY DEF I18n!Carry
  <1>4. \A x \in Reqs : /\ refresh[x] \in R
                        /\ refresh'[x] = IF refresh[x].pc = "list" THEN [refresh[x] EXCEPT !.overtaken = TRUE] ELSE refresh[x]
    BY <1>1, <1>3
  <1>5. ASSUME NEW x \in Reqs
        PROVE  refresh'[x] \in R /\ refresh'[x].pc = refresh[x].pc /\ (refresh'[x].pc = "list" => refresh'[x].overtaken)
    <2> HIDE DEF R
    <2>1. CASE refresh[x].pc = "list"
      BY <1>2, <1>4, <2>1
    <2>2. CASE refresh[x].pc # "list"
      BY <1>4, <2>2
    <2> QED BY <2>1, <2>2
  <1>6. refresh' \in [Reqs -> R]
    BY <1>3, <1>5
  <1>7. FetchesAreTracked'
    BY <1>5 DEF FetchesAreTracked
  <1>8. applied' \in [Reqs -> Nat] /\ applied'[q] = applied[q] + 1 /\ applied[q] \in Nat /\ \A x \in Reqs \ {q} : applied'[x] = applied[x]
    BY <1>1
  <1> QED BY <1>1, <1>5, <1>6, <1>7, <1>8

\* A request that edits, or has edited, explains what it leaves behind.
LEMMA EditStep ==
  ASSUME ProxyInv, NEW q \in Reqs, list' = list, fresh' \in BOOLEAN,
         ijob' \in [Reqs -> [pc : I18n!PCs, kind : {"list", "edit"}, tries : 0 .. Retries]],
         refresh' \in [Reqs -> [pc : {"none", "fetch", "list", "marker"}, tries : 0 .. Retries, got : Nat, overtaken : BOOLEAN]],
         upstream' \in Nat, late' \in [Reqs -> Nat], applied' \in [Reqs -> Nat], iexcused' \in BOOLEAN,
         \A x \in Reqs \ {q} : ijob'[x] = ijob[x] /\ late'[x] = late[x] /\ applied'[x] = applied[x] /\ refresh'[x].pc = refresh[x].pc,
         ijob'[q].pc = "wait" => refresh'[q].pc # "none",
         TranslationIs(q)', FetchesAreTracked',
         iexcused => iexcused', upstream' = upstream \/ applied'[q] > 0, applied'[q] >= applied[q],
         ijob'[q].pc \in {"send", "del"} \/ (I18n!Stale' /\ applied'[q] > 0 => iexcused')
  PROVE  ProxyInv'
  <1>1. StaleListIsExplained'
    <2> SUFFICES ASSUME I18n!Stale', ~iexcused'
                 PROVE  \E x \in Reqs : ijob'[x].pc \in {"send", "del"} /\ applied'[x] > 0
      BY DEF StaleListIsExplained, I18n!StaleListIsExplained
    <2>1. CASE applied'[q] > 0
      BY <2>1
    <2>2. CASE ~(applied'[q] > 0)
      <3>1. upstream' = upstream /\ ~(applied[q] > 0) /\ ~iexcused
        BY <2>2 DEF ProxyInv, I18n!TypeOK
      <3>2. PICK x \in Reqs : ijob[x].pc \in {"send", "del"} /\ applied[x] > 0
        BY <3>1 DEF ProxyInv, StaleListIsExplained, I18n!StaleListIsExplained, I18n!Stale
      <3> QED BY <3>1, <3>2
    <2> QED BY <2>1, <2>2
  <1> QED BY <1>1, ProxyStep DEF ProxyInv, I18n!TypeOK

\* A try has failed: another one follows, or the edit is given up.
LEMMA TryIs ==
  ASSUME ProxyInv, NEW q \in Reqs, ijob[q].pc = "send", I18n!NextTry(q)
  PROVE  /\ ijob' \in [Reqs -> [pc : I18n!PCs, kind : {"list", "edit"}, tries : 0 .. Retries]]
         /\ \A x \in Reqs \ {q} : ijob'[x] = ijob[x]
         /\ ijob'[q].kind = ijob[q].kind
         /\ \/ ijob'[q].pc = "send" /\ ijob'[q].tries = ijob[q].tries + 1 /\ iexcused' = iexcused
            \/ ijob'[q].pc = "failed" /\ iexcused' = (iexcused \/ (I18n!Stale' /\ applied'[q] > 0))
  <1>1. /\ I18n!TypeOK /\ ijob[q] \in [pc : I18n!PCs, kind : {"list", "edit"}, tries : 0 .. Retries] /\ Retries \in Nat
    BY ContentAssumption DEF ProxyInv, I18n!TypeOK, I18n!ProxyAssumption
  <1>2. CASE ijob[q].tries < Retries
    <2> DEFINE k == [ijob[q] EXCEPT !.tries = @ + 1]
    <2>1. /\ k \in [pc : I18n!PCs, kind : {"list", "edit"}, tries : 0 .. Retries]
          /\ k.pc = "send" /\ k.kind = ijob[q].kind /\ k.tries = ijob[q].tries + 1
      BY <1>1, <1>2
    <2>2. ijob' = [ijob EXCEPT ![q] = k] /\ iexcused' = iexcused
      BY <1>2 DEF I18n!NextTry
    <2> HIDE DEF k
    <2> QED BY <1>1, <2>1, <2>2 DEF I18n!TypeOK
  <1>3. CASE ~(ijob[q].tries < Retries)
    <2>1. I18n!Goto(q, "failed") /\ iexcused' = (iexcused \/ (I18n!Stale' /\ applied'[q] > 0))
      BY <1>3 DEF I18n!NextTry, I18n!GivenUp
    <2> QED BY <1>1, <2>1, ProxyGoto DEF I18n!PCs
  <1> QED BY <1>2, <1>3

\* The tries of an edit: Carried, CarriedUnreadably, CarriedUnheard, SendFails and Refused.
LEMMA TriesHold ==
  ASSUME ProxyInv, NEW q \in Reqs,
         I18n!Carried(q) \/ I18n!CarriedUnreadably(q) \/ I18n!CarriedUnheard(q) \/ I18n!SendFails(q) \/ I18n!Refused(q)
  PROVE  ProxyInv'
  <1>1. ijob[q].pc = "send" /\ list' = list /\ fresh' = fresh
    BY DEF I18n!Carried, I18n!CarriedUnreadably, I18n!CarriedUnheard, I18n!SendFails, I18n!Refused, I18n!At, I18n!redis
  <1>2. /\ I18n!TypeOK /\ TranslationIs(q) /\ Retries \in Nat /\ iexcused \in BOOLEAN
        /\ late[q] \in Nat /\ applied[q] \in Nat /\ ijob[q].tries \in 0 .. Retries
    BY ContentAssumption DEF ProxyInv, I18n!TypeOK, I18n!ProxyAssumption
  <1>3. ASSUME I18n!Carry(q), late' = late
        PROVE  /\ upstream' \in Nat /\ applied' \in [Reqs -> Nat] /\ applied'[q] = applied[q] + 1 /\ applied'[q] > 0
               /\ \A x \in Reqs \ {q} : applied'[x] = applied[x] /\ late'[x] = late[x]
               /\ refresh' \in [Reqs -> [pc : {"none", "fetch", "list", "marker"}, tries : 0 .. Retries, got : Nat, overtaken : BOOLEAN]]
               /\ \A x \in Reqs : refresh'[x].pc = refresh[x].pc
               /\ FetchesAreTracked' /\ late' \in [Reqs -> Nat] /\ late'[q] = late[q]
    BY <1>2, <1>3, CarryIs DEF I18n!TypeOK
  <1>4. ASSUME UNCHANGED <<upstream, refresh, applied>>, late' \in {late, [late EXCEPT ![q] = @ + 1]}
        PROVE  /\ upstream' \in Nat /\ applied' \in [Reqs -> Nat] /\ applied'[q] = applied[q]
               /\ \A x \in Reqs \ {q} : applied'[x] = applied[x] /\ late'[x] = late[x]
               /\ refresh' \in [Reqs -> [pc : {"none", "fetch", "list", "marker"}, tries : 0 .. Retries, got : Nat, overtaken : BOOLEAN]]
               /\ \A x \in Reqs : refresh'[x].pc = refresh[x].pc
               /\ FetchesAreTracked' /\ late' \in [Reqs -> Nat] /\ late'[q] \in {late[q], late[q] + 1}
    BY <1>2, <1>4 DEF I18n!TypeOK, ProxyInv, FetchesAreTracked
  <1>5. ASSUME I18n!NextTry(q), applied'[q] \in Nat, late'[q] \in Nat, applied'[q] + late'[q] <= applied[q] + late[q] + 1
        PROVE  TranslationIs(q)' /\ iexcused' \in BOOLEAN /\ (iexcused => iexcused') /\ ijob'[q].pc \in {"send", "failed"}
               /\ (ijob'[q].pc = "send" \/ (I18n!Stale' /\ applied'[q] > 0 => iexcused'))
               /\ ijob' \in [Reqs -> [pc : I18n!PCs, kind : {"list", "edit"}, tries : 0 .. Retries]]
               /\ \A x \in Reqs \ {q} : ijob'[x] = ijob[x]
    <2>1. /\ ijob' \in [Reqs -> [pc : I18n!PCs, kind : {"list", "edit"}, tries : 0 .. Retries]]
          /\ \A x \in Reqs \ {q} : ijob'[x] = ijob[x]
          /\ ijob'[q].kind = ijob[q].kind
          /\ \/ ijob'[q].pc = "send" /\ ijob'[q].tries = ijob[q].tries + 1 /\ iexcused' = iexcused
             \/ ijob'[q].pc = "failed" /\ iexcused' = (iexcused \/ (I18n!Stale' /\ applied'[q] > 0))
      BY <1>1, <1>5, TryIs
    <2>2. TranslationIs(q)'
      <3>1. applied'[q] + late'[q] <= ijob[q].tries + 1 /\ ijob[q].tries + 1 <= Retries + 1 /\ ijob[q].kind = "edit"
        BY <1>1, <1>2, <1>5 DEF TranslationIs
      <3>2. applied'[q] + late'[q] <= Retries + 1
        BY <1>2, <1>5, <3>1
      <3> QED BY <2>1, <3>1, <3>2 DEF TranslationIs
    <2>3. iexcused' \in BOOLEAN /\ (iexcused => iexcused') /\ (ijob'[q].pc = "send" \/ (I18n!Stale' /\ applied'[q] > 0 => iexcused'))
      <3>1. CASE ijob'[q].pc = "send" /\ iexcused' = iexcused
        BY <1>2, <3>1
      <3>2. CASE iexcused' = (iexcused \/ (I18n!Stale' /\ applied'[q] > 0))
        BY <1>2, <3>2
      <3> QED BY <2>1, <3>1, <3>2
    <2> QED BY <2>1, <2>2, <2>3
  <1>6. ASSUME NEW pc \in {"del", "failed"}, I18n!Goto(q, pc), applied'[q] \in Nat, late'[q] \in Nat,
               applied'[q] + late'[q] <= applied[q] + late[q] + 1, pc = "del" => applied'[q] > 0
        PROVE  /\ TranslationIs(q)' /\ ijob'[q].pc = pc
               /\ ijob' \in [Reqs -> [pc : I18n!PCs, kind : {"list", "edit"}, tries : 0 .. Retries]]
               /\ \A x \in Reqs \ {q} : ijob'[x] = ijob[x]
    <2>1. pc \in I18n!PCs
      BY DEF I18n!PCs
    <2>2. /\ ijob' \in [Reqs -> [pc : I18n!PCs, kind : {"list", "edit"}, tries : 0 .. Retries]]
          /\ ijob'[q].pc = pc /\ ijob'[q].kind = ijob[q].kind /\ \A x \in Reqs \ {q} : ijob'[x] = ijob[x]
      BY <1>2, <1>6, <2>1, ProxyGoto
    <2>3. TranslationIs(q)'
      BY <1>1, <1>2, <1>6, <2>2 DEF TranslationIs
    <2> QED BY <2>2, <2>3
  <1>7. CASE I18n!Carried(q)
    <2>1. I18n!Carry(q) /\ late' = late /\ I18n!Goto(q, "del") /\ iexcused' = iexcused
      BY <1>7 DEF I18n!Carried
    <2>2. iexcused' \in BOOLEAN /\ (iexcused => iexcused')
      BY <1>2, <2>1
    <2>3. fresh' \in BOOLEAN /\ applied'[q] >= applied[q] /\ applied'[q] > 0 /\ applied'[q] \in Nat /\ late'[q] \in Nat
          /\ applied'[q] + late'[q] <= applied[q] + late[q] + 1
      BY <1>1, <1>2, <1>3, <2>1 DEF I18n!TypeOK
    <2> QED BY <1>1, <1>3, <1>6, <2>1, <2>2, <2>3, EditStep
  <1>8. CASE I18n!CarriedUnreadably(q)
    <2>1. I18n!Carry(q) /\ late' = late /\ I18n!Goto(q, "failed") /\ iexcused' = (iexcused \/ (I18n!Stale' /\ applied'[q] > 0))
      BY <1>8 DEF I18n!CarriedUnreadably, I18n!GivenUp
    <2>2. iexcused' \in BOOLEAN /\ (iexcused => iexcused') /\ (I18n!Stale' /\ applied'[q] > 0 => iexcused')
      BY <1>2, <2>1
    <2>3. fresh' \in BOOLEAN /\ applied'[q] >= applied[q] /\ applied'[q] \in Nat /\ late'[q] \in Nat
          /\ applied'[q] + late'[q] <= applied[q] + late[q] + 1
      BY <1>1, <1>2, <1>3, <2>1 DEF I18n!TypeOK
    <2> QED BY <1>1, <1>3, <1>6, <2>1, <2>2, <2>3, EditStep
  <1>9. CASE I18n!CarriedUnheard(q)
    <2>1. I18n!Carry(q) /\ late' = late /\ I18n!NextTry(q)
      BY <1>9 DEF I18n!CarriedUnheard
    <2>2. fresh' \in BOOLEAN /\ applied'[q] >= applied[q] /\ applied'[q] \in Nat /\ late'[q] \in Nat
          /\ applied'[q] + late'[q] <= applied[q] + late[q] + 1
      BY <1>1, <1>2, <1>3, <2>1 DEF I18n!TypeOK
    <2> QED BY <1>1, <1>3, <1>5, <2>1, <2>2, EditStep
  <1>10. CASE I18n!SendFails(q)
    <2>1. UNCHANGED <<upstream, refresh, applied>> /\ late' \in {late, [late EXCEPT ![q] = @ + 1]} /\ I18n!NextTry(q)
      BY <1>10 DEF I18n!SendFails
    <2> QED BY <1>1, <1>2, <1>4, <1>5, <2>1, EditStep DEF I18n!TypeOK
  <1>11. CASE I18n!Refused(q)
    <2>1. /\ UNCHANGED <<upstream, refresh, applied>> /\ late' \in {late, [late EXCEPT ![q] = @ + 1]}
          /\ late' = late /\ I18n!Goto(q, "failed") /\ iexcused' = (iexcused \/ (I18n!Stale' /\ applied'[q] > 0))
      BY <1>11 DEF I18n!Refused, I18n!GivenUp, I18n!outside
    <2>2. iexcused' \in BOOLEAN /\ (iexcused => iexcused') /\ (I18n!Stale' /\ applied'[q] > 0 => iexcused')
      BY <1>2, <2>1
    <2>3. fresh' \in BOOLEAN /\ applied'[q] >= applied[q] /\ applied'[q] \in Nat /\ late'[q] \in Nat
          /\ applied'[q] + late'[q] <= applied[q] + late[q] + 1
      BY <1>1, <1>2, <1>4, <2>1 DEF I18n!TypeOK
    <2> QED BY <1>1, <1>4, <1>6, <2>1, <2>2, <2>3, EditStep
  <1> QED BY <1>7, <1>8, <1>9, <1>10, <1>11

\* The upstream makes an edit that was given up here.
LEMMA LateHolds ==
  ASSUME ProxyInv, NEW q \in Reqs, I18n!CarryLate(q)
  PROVE  ProxyInv'
  <1>1. /\ I18n!TypeOK /\ TranslationIs(q) /\ iexcused \in BOOLEAN /\ late[q] \in Nat /\ applied[q] \in Nat /\ late[q] > 0
        /\ ijob[q] \in [pc : I18n!PCs, kind : {"list", "edit"}, tries : 0 .. Retries]
    BY DEF ProxyInv, I18n!TypeOK, I18n!CarryLate
  <1>2. /\ I18n!Carry(q) /\ late' = [late EXCEPT ![q] = @ - 1] /\ list' = list /\ fresh' = fresh /\ ijob' = ijob
        /\ iexcused' = (iexcused \/ (I18n!Stale' /\ ijob[q].pc \in {"ok", "failed", "dead"}))
    BY DEF I18n!CarryLate, I18n!redis
  <1>3. /\ upstream' \in Nat /\ applied' \in [Reqs -> Nat] /\ applied'[q] = applied[q] + 1 /\ applied'[q] > 0
        /\ \A x \in Reqs \ {q} : applied'[x] = applied[x]
        /\ refresh' \in [Reqs -> [pc : {"none", "fetch", "list", "marker"}, tries : 0 .. Retries, got : Nat, overtaken : BOOLEAN]]
        /\ \A x \in Reqs : refresh'[x].pc = refresh[x].pc
        /\ FetchesAreTracked'
    BY <1>2, CarryIs
  <1>4. late' \in [Reqs -> Nat] /\ late'[q] = late[q] - 1 /\ \A x \in Reqs \ {q} : late'[x] = late[x]
    BY <1>1, <1>2 DEF I18n!TypeOK
  <1>5. ijob[q].pc \in {"send", "del", "ok", "failed", "dead"}
    BY <1>1 DEF TranslationIs, I18n!PCs
  <1>6. TranslationIs(q)'
    <2>1. /\ ijob'[q] = ijob[q] /\ applied'[q] + late'[q] = applied[q] + late[q] /\ applied[q] + late[q] > 0
          /\ applied'[q] > 0
      BY <1>1, <1>2, <1>3, <1>4
    <2> QED BY <1>1, <1>5, <2>1 DEF TranslationIs
  <1>7. /\ iexcused' \in BOOLEAN /\ (iexcused => iexcused')
        /\ (ijob'[q].pc \in {"send", "del"} \/ (I18n!Stale' /\ applied'[q] > 0 => iexcused'))
    BY <1>1, <1>2, <1>5
  <1>8. /\ ijob' \in [Reqs -> [pc : I18n!PCs, kind : {"list", "edit"}, tries : 0 .. Retries]]
        /\ \A x \in Reqs \ {q} : ijob'[x] = ijob[x]
        /\ ijob'[q].pc # "wait" /\ fresh' \in BOOLEAN /\ applied'[q] >= applied[q]
    BY <1>1, <1>2, <1>3, <1>5 DEF I18n!TypeOK
  <1> QED BY <1>2, <1>3, <1>4, <1>6, <1>7, <1>8, EditStep

\* invalidateCache.
LEMMA InvalidateHolds ==
  ASSUME ProxyInv, NEW q \in Reqs, I18n!Invalidate(q)
  PROVE  ProxyInv'
  <1>1. /\ I18n!TypeOK /\ TranslationIs(q) /\ I18n!Goto(q, "ok") /\ ijob[q].pc = "del"
        /\ UNCHANGED <<upstream, late, refresh, applied>>
        /\ \/ list' = Miss /\ fresh' = FALSE /\ iexcused' = FALSE
           \/ iexcused' = (iexcused \/ I18n!Stale) /\ list' = list /\ fresh' = fresh
    BY DEF ProxyInv, I18n!Invalidate, I18n!At, I18n!outside, I18n!redis
  <1>2. "ok" \in I18n!PCs
    BY DEF I18n!PCs
  <1>3. /\ ijob' \in [Reqs -> [pc : I18n!PCs, kind : {"list", "edit"}, tries : 0 .. Retries]]
        /\ ijob'[q].pc = "ok" /\ ijob'[q].kind = ijob[q].kind /\ \A x \in Reqs \ {q} : ijob'[x] = ijob[x]
    BY <1>1, <1>2, ProxyGoto
  <1>4. TranslationIs(q)'
    BY <1>1, <1>3 DEF TranslationIs
  <1>5. FetchesAreTracked'
    BY <1>1 DEF ProxyInv, FetchesAreTracked
  <1>6. StaleListIsExplained'
    BY <1>1 DEF StaleListIsExplained, I18n!StaleListIsExplained, I18n!Stale
  <1>7. list' \in Nat \cup {Miss} /\ fresh' \in BOOLEAN /\ iexcused' \in BOOLEAN
    BY <1>1 DEF I18n!TypeOK
  <1> QED BY <1>1, <1>3, <1>4, <1>5, <1>6, <1>7, ProxyStep DEF I18n!TypeOK

\* The instance dies in the middle of a list, an edit or a refresh.
LEMMA ProxyDies ==
  ASSUME ProxyInv, NEW q \in Reqs, I18n!Dies(q)
  PROVE  ProxyInv'
  <1>1. /\ I18n!TypeOK /\ TranslationIs(q) /\ UNCHANGED <<upstream, late, list, fresh, applied>>
        /\ iexcused' = (iexcused \/ (I18n!Stale /\ applied[q] > 0))
        /\ refresh' = [refresh EXCEPT ![q] = I18n!NoRefresh]
    BY DEF ProxyInv, I18n!Dies, I18n!outside, I18n!redis
  <1>2. PICK pc \in I18n!PCs : I18n!Goto(q, pc) /\ pc \in {"ok", "failed", "dead"} /\ (pc # "dead" => pc = ijob[q].pc)
    <2>1. ijob[q].pc \in I18n!PCs
      BY <1>1 DEF I18n!TypeOK
    <2>2. CASE ijob[q].pc \in {"ok", "failed"}
      <3>1. I18n!Goto(q, ijob[q].pc)
        BY <2>2 DEF I18n!Dies, I18n!Goto
      <3> QED BY <2>1, <2>2, <3>1
    <2>3. CASE ~(ijob[q].pc \in {"ok", "failed"})
      <3>1. I18n!Goto(q, "dead") /\ "dead" \in I18n!PCs
        BY <2>3 DEF I18n!Dies, I18n!Goto, I18n!PCs
      <3> QED BY <3>1
    <2> QED BY <2>2, <2>3
  <1>3. /\ ijob' \in [Reqs -> [pc : I18n!PCs, kind : {"list", "edit"}, tries : 0 .. Retries]]
        /\ ijob'[q].pc = pc /\ ijob'[q].kind = ijob[q].kind /\ \A x \in Reqs \ {q} : ijob'[x] = ijob[x]
    BY <1>1, <1>2, ProxyGoto
  <1>4. /\ I18n!NoRefresh \in [pc : {"none", "fetch", "list", "marker"}, tries : 0 .. Retries, got : Nat, overtaken : BOOLEAN]
        /\ I18n!NoRefresh.pc = "none"
    <2>1. 0 \in 0 .. Retries
      BY ContentAssumption DEF I18n!ProxyAssumption
    <2> QED BY <2>1 DEF I18n!NoRefresh
  <1>5. /\ refresh' \in [Reqs -> [pc : {"none", "fetch", "list", "marker"}, tries : 0 .. Retries, got : Nat, overtaken : BOOLEAN]]
        /\ refresh'[q].pc = "none" /\ \A x \in Reqs \ {q} : refresh'[x] = refresh[x]
    BY <1>1, <1>4 DEF I18n!TypeOK
  <1>6. TranslationIs(q)'
    BY <1>1, <1>2, <1>3, <1>5 DEF TranslationIs, I18n!TypeOK
  <1>7. FetchesAreTracked'
    BY <1>1, <1>5 DEF ProxyInv, FetchesAreTracked
  <1>8. StaleListIsExplained'
    BY <1>1, <1>3 DEF ProxyInv, StaleListIsExplained, I18n!StaleListIsExplained, I18n!Stale
  <1>9. iexcused' \in BOOLEAN
    BY <1>1 DEF I18n!TypeOK
  <1> QED BY <1>1, <1>2, <1>3, <1>5, <1>6, <1>7, <1>8, <1>9, ProxyStep DEF I18n!TypeOK

\* A key expires.
LEMMA ExpiryHolds ==
  ASSUME ProxyInv, I18n!MarkerExpires \/ I18n!ListExpires
  PROVE  ProxyInv'
  <1>1. /\ UNCHANGED <<upstream, late, ijob, refresh, applied>>
        /\ fresh' \in {FALSE, fresh}
        /\ (list' = list /\ iexcused' = iexcused) \/ (list' = Miss /\ iexcused' = FALSE)
    BY DEF I18n!MarkerExpires, I18n!ListExpires, I18n!outside
  <1>2. I18n!TypeOK'
    BY <1>1 DEF ProxyInv, I18n!TypeOK
  <1>3. FetchesAreTracked' /\ StaleListIsExplained'
    BY <1>1 DEF ProxyInv, FetchesAreTracked, StaleListIsExplained, I18n!StaleListIsExplained, I18n!Stale
  <1>4. \A x \in Reqs : TranslationIs(x)'
    BY <1>1 DEF ProxyInv, TranslationIs
  <1> QED BY <1>2, <1>3, <1>4 DEF ProxyInv

LEMMA ProxyStarts == Init => ProxyInv
  <1> SUFFICES ASSUME Init PROVE ProxyInv
    OBVIOUS
  <1>1. Retries \in Nat /\ Miss \notin Nat /\ I18n!Init
    BY ContentAssumption DEF I18n!ProxyAssumption, Init
  <1>2. \A q \in Reqs : /\ ijob[q].pc = "new" /\ ijob[q].kind = "list" /\ ijob[q].tries = 0
                        /\ refresh[q].pc = "none" /\ applied[q] = 0 /\ late[q] = 0
    BY <1>1 DEF I18n!Init, I18n!NoRefresh
  <1>3. I18n!TypeOK
    <2>1. /\ I18n!NoRefresh \in [pc : {"none", "fetch", "list", "marker"}, tries : 0 .. Retries, got : Nat, overtaken : BOOLEAN]
          /\ [pc |-> "new", kind |-> "list", tries |-> 0] \in [pc : I18n!PCs, kind : {"list", "edit"}, tries : 0 .. Retries]
      <3>1. 0 \in 0 .. Retries
        BY <1>1
      <3> QED BY <3>1 DEF I18n!NoRefresh, I18n!PCs
    <2>2. /\ upstream \in Nat /\ late \in [Reqs -> Nat] /\ list \in Nat \cup {Miss} /\ fresh \in BOOLEAN
          /\ applied \in [Reqs -> Nat] /\ iexcused \in BOOLEAN
      BY <1>1 DEF I18n!Init
    <2>3. ijob \in [Reqs -> [pc : I18n!PCs, kind : {"list", "edit"}, tries : 0 .. Retries]]
      BY <1>1, <2>1 DEF I18n!Init
    <2>4. refresh \in [Reqs -> [pc : {"none", "fetch", "list", "marker"}, tries : 0 .. Retries, got : Nat, overtaken : BOOLEAN]]
      BY <1>1, <2>1 DEF I18n!Init
    <2> QED BY <1>2, <2>2, <2>3, <2>4 DEF I18n!TypeOK
  <1>4. ASSUME NEW q \in Reqs PROVE TranslationIs(q)
    <2>1. /\ ijob[q].pc = "new" /\ ijob[q].kind = "list" /\ refresh[q].pc = "none" /\ applied[q] = 0 /\ late[q] = 0
          /\ applied[q] + late[q] = 0
      BY <1>2
    <2>2. 0 <= Retries + 1
      BY <1>1
    <2> QED BY <2>1, <2>2 DEF TranslationIs
  <1>5. FetchesAreTracked
    BY <1>2 DEF FetchesAreTracked
  <1>6. StaleListIsExplained
    BY <1>1 DEF StaleListIsExplained, I18n!StaleListIsExplained, I18n!Init, I18n!Stale
  <1> QED BY <1>3, <1>4, <1>5, <1>6 DEF ProxyInv

LEMMA ProxyHolds == ProxyInv /\ [Next]_vars => ProxyInv'
  <1> SUFFICES ASSUME ProxyInv, [Next]_vars PROVE ProxyInv'
    OBVIOUS
  <1>1. CASE UNCHANGED i18n
    <2>1. UNCHANGED <<upstream, late, list, fresh, ijob, refresh, applied, iexcused>>
      BY <1>1 DEF i18n
    <2> QED BY <2>1 DEF ProxyInv, I18n!TypeOK, FetchesAreTracked, TranslationIs, StaleListIsExplained,
                        I18n!StaleListIsExplained, I18n!Stale
  <1>2. ASSUME NEW q \in Reqs, Translate(q) PROVE ProxyInv'
    <2>1. \/ I18n!GetList(q) \/ I18n!AskEdit(q) \/ I18n!GetMarker(q)
          \/ I18n!Fetch(q) \/ I18n!FetchFails(q) \/ I18n!FetchRefused(q) \/ I18n!SetList(q) \/ I18n!SetMarker(q)
          \/ I18n!Carried(q) \/ I18n!CarriedUnreadably(q) \/ I18n!CarriedUnheard(q) \/ I18n!SendFails(q) \/ I18n!Refused(q)
          \/ I18n!Invalidate(q) \/ I18n!CarryLate(q) \/ I18n!Dies(q)
      BY <1>2 DEF Translate, I18n!Ask, I18n!Refreshing, I18n!Editing
    <2> QED BY <2>1, ListAsks, FetchHolds, SetsHold, TriesHold, LateHolds, InvalidateHolds, ProxyDies
  <1>3. CASE Expire
    BY <1>1, <1>3, ExpiryHolds DEF Expire
  <1>4. \A q \in Reqs : Flag(q) \/ Announce(q) => UNCHANGED i18n
    BY DEF Flag, Announce
  <1>5. UNCHANGED vars => UNCHANGED i18n
    BY DEF vars
  <1> QED BY <1>1, <1>2, <1>3, <1>4, <1>5 DEF Next

LEMMA TranslationsHold == Spec => []ProxyInv
  BY ProxyStarts, ProxyHolds, PTL DEF Spec

\* The API lists outdated translations only while an edit that was carried out is still being
\* made, or after one that nothing will invalidate for, however many requests there are.
THEOREM OutdatedListsAreExplained == Spec => []StaleListIsExplained
  <1>1. ProxyInv => StaleListIsExplained
    BY DEF ProxyInv
  <1> QED BY <1>1, TranslationsHold, PTL

\* The upstream carries an edit out at most once for each time it was sent.
THEOREM RetriesAreBounded == Spec => []EditsAreBounded
  <1>1. ProxyInv => EditsAreBounded
    BY DEF ProxyInv, EditsAreBounded, I18n!EditsAreBounded, TranslationIs
  <1> QED BY <1>1, TranslationsHold, PTL
\* Nothing is put into the copy but what a refresh holds, and no refresh holds anything but
\* the translations as they are, or what some refresh held before.
ListsComeFrom ==
  /\ list' \in {list, Miss} \cup I18n!Held
  /\ \A q \in Reqs : refresh'[q].pc = "list" => refresh'[q].got = upstream \/ refresh'[q].got \in I18n!Held

\* A step that fetches no list comes by none.
LEMMA NothingFetched ==
  ASSUME \A x \in Reqs : refresh'[x].pc = "list" => refresh[x].pc = "list" /\ refresh'[x].got = refresh[x].got,
         list' \in {list, Miss} \cup I18n!Held
  PROVE  ListsComeFrom
  BY DEF ListsComeFrom, I18n!Held

\* Marking the overtaken refreshes leaves them with what they hold.
LEMMA CarriedLists ==
  ASSUME ProxyInv, NEW q \in Reqs, I18n!Carry(q), list' = list
  PROVE  ListsComeFrom
  <1> DEFINE R == [pc : {"none", "fetch", "list", "marker"}, tries : 0 .. Retries, got : Nat, overtaken : BOOLEAN]
  <1>1. \A n \in R : [n EXCEPT !.overtaken = TRUE].pc = n.pc /\ [n EXCEPT !.overtaken = TRUE].got = n.got
    OBVIOUS
  <1>2. \A x \in Reqs : refresh[x] \in R
    BY DEF ProxyInv, I18n!TypeOK
  <1> HIDE DEF R
  <1>3. \A x \in Reqs : refresh'[x] = IF refresh[x].pc = "list" THEN [refresh[x] EXCEPT !.overtaken = TRUE] ELSE refresh[x]
    BY DEF I18n!Carry
  <1>4. \A x \in Reqs : refresh'[x].pc = "list" => refresh[x].pc = "list" /\ refresh'[x].got = refresh[x].got
    BY <1>1, <1>2, <1>3
  <1> QED BY <1>4, NothingFetched

LEMMA RefreshingLists ==
  ASSUME ProxyInv, NEW q \in Reqs, I18n!Refreshing(q)
  PROVE  ListsComeFrom
  <1> DEFINE R == [pc : {"none", "fetch", "list", "marker"}, tries : 0 .. Retries, got : Nat, overtaken : BOOLEAN]
  <1>1. refresh \in [Reqs -> R] /\ upstream \in Nat
    BY DEF ProxyInv, I18n!TypeOK
  <1>2. CASE I18n!Fetch(q)
    <2> DEFINE k == [refresh[q] EXCEPT !.pc = "list", !.got = upstream]
    <2>1. k.got = upstream
      BY <1>1
    <2>2. refresh' = [refresh EXCEPT ![q] = k] /\ list' = list
      BY <1>2 DEF I18n!Fetch, I18n!redis
    <2> HIDE DEF k
    <2>3. refresh'[q].got = upstream /\ \A x \in Reqs \ {q} : refresh'[x] = refresh[x]
      BY <1>1, <2>1, <2>2
    <2> QED BY <2>2, <2>3 DEF ListsComeFrom, I18n!Held
  <1>3. CASE list' = list /\ \E pc \in {"ok", "failed"} : I18n!EndRefresh(q, pc) /\ refresh[q].pc # "none"
    <2>1. refresh'[q].pc = "none" /\ \A x \in Reqs \ {q} : refresh'[x] = refresh[x]
      BY <1>3, Ended
    <2> QED BY <1>3, <2>1, NothingFetched
  <1>4. CASE I18n!FetchFails(q) /\ refresh[q].tries < Retries
    <2> DEFINE k == [refresh[q] EXCEPT !.tries = @ + 1]
    <2>1. k.pc = "fetch"
      BY <1>1, <1>4 DEF I18n!FetchFails
    <2>2. refresh' = [refresh EXCEPT ![q] = k] /\ list' = list
      BY <1>4 DEF I18n!FetchFails, I18n!redis
    <2> HIDE DEF k
    <2>3. refresh'[q].pc = "fetch" /\ \A x \in Reqs \ {q} : refresh'[x] = refresh[x]
      BY <1>1, <2>1, <2>2
    <2> QED BY <2>2, <2>3, NothingFetched
  <1>5. CASE I18n!SetList(q)
    <2> DEFINE k == [refresh[q] EXCEPT !.pc = "marker"]
    <2>1. k.pc = "marker"
      BY <1>1
    <2>2. refresh' = [refresh EXCEPT ![q] = k] /\ refresh[q].pc = "list" /\ list' \in {list, refresh[q].got}
      BY <1>5 DEF I18n!SetList
    <2> HIDE DEF k
    <2>3. refresh'[q].pc = "marker" /\ \A x \in Reqs \ {q} : refresh'[x] = refresh[x]
      BY <1>1, <2>1, <2>2
    <2>4. list' \in {list, Miss} \cup I18n!Held
      BY <2>2 DEF I18n!Held
    <2> QED BY <2>3, <2>4, NothingFetched
  <1>6. CASE (I18n!FetchFails(q) /\ ~(refresh[q].tries < Retries)) \/ I18n!FetchRefused(q)
    BY <1>3, <1>6 DEF I18n!FetchFails, I18n!FetchRefused, I18n!redis
  <1>7. CASE I18n!SetMarker(q)
    BY <1>3, <1>7 DEF I18n!SetMarker
  <1> QED BY <1>2, <1>4, <1>5, <1>6, <1>7 DEF I18n!Refreshing

LEMMA TranslateLists ==
  ASSUME ProxyInv, NEW q \in Reqs, Translate(q)
  PROVE  ListsComeFrom
  <1>1. CASE I18n!Ask(q) \/ I18n!GetMarker(q)
    <2>1. list' = list /\ (refresh' = refresh \/ I18n!StartRefresh(q))
      BY <1>1 DEF I18n!Ask, I18n!GetList, I18n!AskEdit, I18n!GetMarker, I18n!redis
    <2>2. CASE refresh' = refresh
      BY <2>1, <2>2, NothingFetched
    <2>3. CASE I18n!StartRefresh(q)
      <3>1. refresh'[q].pc = "fetch" /\ \A x \in Reqs \ {q} : refresh'[x] = refresh[x]
        BY <2>3, Started DEF ProxyInv
      <3> QED BY <2>1, <3>1, NothingFetched
    <2> QED BY <2>1, <2>2, <2>3
  <1>2. CASE I18n!Carried(q) \/ I18n!CarriedUnreadably(q) \/ I18n!CarriedUnheard(q) \/ I18n!CarryLate(q)
    <2>1. I18n!Carry(q) /\ list' = list
      BY <1>2 DEF I18n!Carried, I18n!CarriedUnreadably, I18n!CarriedUnheard, I18n!CarryLate, I18n!redis
    <2> QED BY <2>1, CarriedLists
  <1>3. CASE I18n!SendFails(q) \/ I18n!Refused(q) \/ I18n!Invalidate(q)
    <2>1. refresh' = refresh /\ list' \in {list, Miss}
      BY <1>3 DEF I18n!SendFails, I18n!Refused, I18n!Invalidate, I18n!redis
    <2> QED BY <2>1, NothingFetched
  <1>4. CASE I18n!Dies(q)
    <2>1. refresh' = [refresh EXCEPT ![q] = I18n!NoRefresh] /\ list' = list /\ refresh \in [Reqs -> [pc : {"none", "fetch", "list", "marker"}, tries : 0 .. Retries, got : Nat, overtaken : BOOLEAN]]
      BY <1>4 DEF I18n!Dies, I18n!redis, ProxyInv, I18n!TypeOK
    <2>2. refresh'[q].pc = "none" /\ \A x \in Reqs \ {q} : refresh'[x] = refresh[x]
      BY <2>1 DEF I18n!NoRefresh
    <2> QED BY <2>1, <2>2, NothingFetched
  <1> QED BY <1>1, <1>2, <1>3, <1>4, RefreshingLists DEF Translate, I18n!Editing

LEMMA ListsAreLeft == ProxyInv /\ [Next]_vars => ListsComeFrom
  <1> SUFFICES ASSUME ProxyInv, [Next]_vars PROVE ListsComeFrom
    OBVIOUS
  <1>1. CASE refresh' = refresh /\ list' \in {list, Miss}
    BY <1>1, NothingFetched
  <1>2. CASE UNCHANGED i18n \/ Expire
    BY <1>1, <1>2 DEF i18n, Expire, I18n!MarkerExpires, I18n!ListExpires
  <1>3. (\A q \in Reqs : Flag(q) \/ Announce(q) => UNCHANGED i18n) /\ (UNCHANGED vars => UNCHANGED i18n)
    BY DEF Flag, Announce, vars
  <1> QED BY <1>2, <1>3, TranslateLists DEF Next

\* However many requests and retries: the list of translations that is served is the
\* upstream's, now or at an earlier time, and a list that is gone does not come back.
THEOREM TranslationsLag == Spec => TranslationsOnlyLag
  <1>1. Miss \notin Nat
    BY ContentAssumption DEF I18n!ProxyAssumption
  <1>2. Init => LaggingList!Init
    <2> SUFFICES ASSUME Init PROVE LaggingList!Init
      OBVIOUS
    <2>1. upstream \in Nat /\ list = Miss /\ I18n!Held = {}
      BY DEF Init, I18n!Init, I18n!NoRefresh, I18n!Held
    <2>2. I18n!Outdated = {}
      BY <2>1 DEF I18n!Outdated
    <2> QED BY <2>1, <2>2 DEF LaggingList!Init
  <1>3. ProxyInv => upstream \in Nat /\ I18n!Outdated \in SUBSET Nat
    <2> SUFFICES ASSUME ProxyInv PROVE upstream \in Nat /\ I18n!Outdated \in SUBSET Nat
      OBVIOUS
    <2>1. upstream \in Nat /\ list \in Nat \cup {Miss} /\ \A q \in Reqs : refresh[q].got \in Nat
      BY DEF ProxyInv, I18n!TypeOK
    <2>2. I18n!Held \subseteq Nat
      BY <2>1 DEF I18n!Held
    <2> QED BY <2>1, <2>2 DEF I18n!Outdated
  <1> DEFINE Typed == upstream \in Nat /\ I18n!Outdated \in SUBSET Nat
  <1>4. Typed /\ Typed' /\ ListsComeFrom => [LaggingList!Next]_(LaggingList!vars)
    <2> SUFFICES ASSUME Typed, Typed', ListsComeFrom PROVE LaggingList!Next
      OBVIOUS
    <2>1. I18n!Held' \subseteq I18n!Held \cup {upstream}
      BY DEF ListsComeFrom, I18n!Held
    <2>2. I18n!Outdated' \subseteq (I18n!Outdated \cup ({upstream} \ {Miss})) \ {upstream'}
      BY <1>1, <2>1 DEF ListsComeFrom, I18n!Outdated
    <2> QED BY <2>2 DEF LaggingList!Next, LaggingList!Copied
  <1>5. ProxyInv => Typed
    BY <1>3
  <1> HIDE DEF Typed
  <1> QED BY <1>2, <1>4, <1>5, ListsAreLeft, TranslationsHold, PTL DEF Spec, TranslationsOnlyLag, LaggingList!Spec
-----------------------------------------------------------------------------
(* Announcements within Content. *)

\* Whoever succeeded has changed a row, and so has whoever was not heard; nobody else has.
AnnouncementIs(q) == q \in achanged <=> ajob[q].pc \in {"ok", "unheard"}

AnnouncementInv == Announced!TypeOK /\ \A q \in Reqs : AnnouncementIs(q)

LEMMA AnnouncementsStart == Init => AnnouncementInv
  <1> SUFFICES ASSUME Init PROVE AnnouncementInv
    OBVIOUS
  <1>1. Announced!Init /\ (CHOOSE a \in Rows : TRUE) \in Rows
    BY ContentAssumption DEF Init, Announced!RowsAssumption
  <1>2. \A q \in Reqs : ajob[q].pc = "new"
    BY <1>1 DEF Announced!Init
  <1>3. [pc |-> "new", kind |-> "update", of |-> CHOOSE a \in Rows : TRUE] \in Announced!Job
    BY <1>1 DEF Announced!Job, Announced!Kinds
  <1>4. Announced!TypeOK
    BY <1>1, <1>3 DEF Announced!TypeOK, Announced!Init, Announced!Statuses
  <1> QED BY <1>1, <1>2, <1>4 DEF AnnouncementInv, AnnouncementIs, Announced!Init

\* A request goes on without touching a row.
LEMMA AnnouncementGoes ==
  ASSUME AnnouncementInv, NEW q \in Reqs, NEW k \in Announced!Job, ajob' = [ajob EXCEPT ![q] = k],
         UNCHANGED <<status, achanged>>, ajob[q].pc \in {"new", "write"}, k.pc \in {"write", "failed", "dead"}
  PROVE  AnnouncementInv'
  <1>1. Announced!TypeOK' /\ ajob'[q] = k /\ \A x \in Reqs \ {q} : ajob'[x] = ajob[x]
    BY DEF AnnouncementInv, Announced!TypeOK
  <1>2. \A x \in Reqs : AnnouncementIs(x)'
    BY <1>1 DEF AnnouncementInv, AnnouncementIs
  <1> QED BY <1>1, <1>2 DEF AnnouncementInv

\* A row is written, whether its writer hears of it or not.
LEMMA AnnouncementWritten ==
  ASSUME AnnouncementInv, NEW q \in Reqs, NEW k \in Announced!Job, ajob' = [ajob EXCEPT ![q] = k],
         k.pc \in {"ok", "unheard"}, achanged' = achanged \cup {q},
         status' \in [Rows -> Announced!Statuses \cup {"none", "gone"}]
  PROVE  AnnouncementInv'
  <1>1. Announced!TypeOK' /\ ajob'[q] = k /\ \A x \in Reqs \ {q} : ajob'[x] = ajob[x]
    BY DEF AnnouncementInv, Announced!TypeOK
  <1>2. \A x \in Reqs : AnnouncementIs(x)'
    BY <1>1 DEF AnnouncementInv, AnnouncementIs, Announced!TypeOK
  <1> QED BY <1>1, <1>2 DEF AnnouncementInv

\* Where an operation on an announcement goes, and that it is not there yet.
LEMMA AnnouncementStep ==
  ASSUME AnnouncementInv, NEW q \in Reqs, Announced!Ask(q) \/ Announced!Step(q) \/ Announced!Dies(q)
  PROVE  /\ ajob[q].pc \in {"new", "write"} /\ (ajob[q].pc = "new" => Announced!Ask(q))
         /\ \E k \in Announced!Job :
              /\ ajob' = [ajob EXCEPT ![q] = k]
              /\ \/ k.pc \in {"write", "failed", "dead"} /\ UNCHANGED <<status, achanged>>
                 \/ /\ k.pc \in {"ok", "unheard"} /\ achanged' = achanged \cup {q}
                    /\ status' \in [Rows -> Announced!Statuses \cup {"none", "gone"}]
  <1> DEFINE Goes(k) == /\ ajob' = [ajob EXCEPT ![q] = k]
                        /\ \/ k.pc \in {"write", "failed", "dead"} /\ UNCHANGED <<status, achanged>>
                           \/ /\ k.pc \in {"ok", "unheard"} /\ achanged' = achanged \cup {q}
                              /\ status' \in [Rows -> Announced!Statuses \cup {"none", "gone"}]
  <1>1. /\ ajob \in [Reqs -> Announced!Job] /\ ajob[q] \in Announced!Job /\ ajob[q].of \in Rows
        /\ status \in [Rows -> Announced!Statuses \cup {"none", "gone"}] /\ ajob[q].kind \in Announced!Kinds
    BY DEF AnnouncementInv, Announced!TypeOK, Announced!Job
  <1>2. ASSUME NEW b \in Rows, Announced!Create(q, b) PROVE ajob[q].pc = "new" /\ \E k \in Announced!Job : Goes(k)
    <2>1. PICK pc \in {"ok", "unheard", "failed"} :
            /\ ajob' = [ajob EXCEPT ![q] = [pc |-> pc, kind |-> "create", of |-> b]]
            /\ \/ pc = "failed" /\ UNCHANGED <<status, achanged>>
               \/ pc # "failed" /\ achanged' = achanged \cup {q} /\ status' = [status EXCEPT ![b] = "DRAFT"]
      BY <1>2 DEF Announced!Create
    <2>2. [pc |-> pc, kind |-> "create", of |-> b] \in Announced!Job
      BY DEF Announced!Job, Announced!Kinds
    <2>3. pc # "failed" => status' \in [Rows -> Announced!Statuses \cup {"none", "gone"}]
      BY <1>1, <2>1 DEF Announced!Statuses
    <2>4. Goes([pc |-> pc, kind |-> "create", of |-> b])
      BY <2>1, <2>3
    <2>5. ajob[q].pc = "new"
      BY <1>2 DEF Announced!Create, Announced!At
    <2> HIDE DEF Goes
    <2> QED BY <2>2, <2>4, <2>5
  <1>3. ASSUME NEW a \in Rows, NEW kind \in Announced!Kinds, Announced!Find(q, a, kind)
        PROVE  ajob[q].pc = "new" /\ \E k \in Announced!Job : Goes(k)
    <2> DEFINE n == [pc |-> IF Announced!Allowed(kind, status[a]) THEN "write" ELSE "failed", kind |-> kind, of |-> a]
    <2>1. n \in Announced!Job /\ n.pc \in {"write", "failed"}
      BY DEF Announced!Job
    <2>2. ajob' = [ajob EXCEPT ![q] = n] /\ UNCHANGED <<status, achanged>>
      BY <1>3 DEF Announced!Find
    <2>3. ajob[q].pc = "new"
      BY <1>3 DEF Announced!Find, Announced!At
    <2> HIDE DEF n
    <2> QED BY <2>1, <2>2, <2>3
  <1>4. ASSUME NEW pc \in {"ok", "unheard", "failed", "dead"}, Announced!Goto(q, pc), ajob[q].pc = "write",
               \/ pc \in {"failed", "dead"} /\ UNCHANGED <<status, achanged>>
               \/ /\ pc \in {"ok", "unheard"} /\ achanged' = achanged \cup {q}
                  /\ status' \in [Rows -> Announced!Statuses \cup {"none", "gone"}]
        PROVE  ajob[q].pc = "write" /\ \E k \in Announced!Job : Goes(k)
    <2> DEFINE n == [ajob[q] EXCEPT !.pc = pc]
    <2>1. n \in Announced!Job /\ n.pc = pc
      BY <1>1 DEF Announced!Job
    <2>2. ajob' = [ajob EXCEPT ![q] = n]
      BY <1>4 DEF Announced!Goto
    <2> HIDE DEF n
    <2> QED BY <1>4, <2>1, <2>2
  <1>5. ASSUME Announced!Step(q) \/ Announced!Dies(q) PROVE \E k \in Announced!Job : Goes(k)
    <2>1. ajob[q].pc = "write"
      BY <1>5 DEF Announced!Step, Announced!Write, Announced!Throws, Announced!Dies, Announced!At
    <2>2. CASE Announced!Write(q) /\ ajob[q].of \in Announced!Existing
      <3>1. Announced!After(ajob[q].kind, status[ajob[q].of]) \in Announced!Statuses \cup {"none", "gone"}
        BY <1>1, <2>2 DEF Announced!After, Announced!Statuses, Announced!Kinds, Announced!Existing
      <3>2. status' \in [Rows -> Announced!Statuses \cup {"none", "gone"}] /\ achanged' = achanged \cup {q}
        BY <1>1, <2>2, <3>1 DEF Announced!Write
      <3>3. Announced!Goto(q, "ok") \/ Announced!Goto(q, "unheard")
        BY <2>2 DEF Announced!Write
      <3> HIDE DEF Goes
      <3> QED BY <2>1, <3>2, <3>3, <1>4
    <2>3. CASE ~(Announced!Write(q) /\ ajob[q].of \in Announced!Existing)
      <3>1. /\ Announced!Goto(q, "failed") \/ Announced!Goto(q, "dead")
            /\ UNCHANGED <<status, achanged>>
        BY <1>5, <2>3 DEF Announced!Step, Announced!Write, Announced!Throws, Announced!Dies
      <3> HIDE DEF Goes
      <3> QED BY <2>1, <3>1, <1>4
    <2> HIDE DEF Goes
    <2> QED BY <2>1, <2>2, <2>3
  <1>6. ASSUME Announced!Ask(q) PROVE \E k \in Announced!Job : Goes(k)
    <2> HIDE DEF Goes
    <2> QED BY <1>2, <1>3, <1>6 DEF Announced!Ask
  <1>7. \E k \in Announced!Job : Goes(k)
    <2> HIDE DEF Goes
    <2> QED BY <1>5, <1>6
  <1>8. ajob[q].pc \in {"new", "write"} /\ (ajob[q].pc = "new" => Announced!Ask(q))
    <2>1. Announced!Step(q) \/ Announced!Dies(q) => ajob[q].pc = "write"
      BY DEF Announced!Step, Announced!Write, Announced!Throws, Announced!Dies, Announced!At
    <2>2. Announced!Ask(q) => ajob[q].pc = "new"
      BY <1>2, <1>3 DEF Announced!Ask
    <2> QED BY <2>1, <2>2
  <1> QED BY <1>7, <1>8

\* The operations on announcements.
LEMMA AnnounceHolds ==
  ASSUME AnnouncementInv, NEW q \in Reqs, Announced!Ask(q) \/ Announced!Step(q) \/ Announced!Dies(q)
  PROVE  AnnouncementInv'
  <1>1. ajob[q].pc \in {"new", "write"}
    BY AnnouncementStep
  <1>2. PICK k \in Announced!Job :
          /\ ajob' = [ajob EXCEPT ![q] = k]
          /\ \/ k.pc \in {"write", "failed", "dead"} /\ UNCHANGED <<status, achanged>>
             \/ /\ k.pc \in {"ok", "unheard"} /\ achanged' = achanged \cup {q}
                /\ status' \in [Rows -> Announced!Statuses \cup {"none", "gone"}]
    BY AnnouncementStep
  <1>3. CASE k.pc \in {"write", "failed", "dead"} /\ UNCHANGED <<status, achanged>>
    BY <1>1, <1>2, <1>3, AnnouncementGoes
  <1>4. CASE k.pc \in {"ok", "unheard"} /\ achanged' = achanged \cup {q}
             /\ status' \in [Rows -> Announced!Statuses \cup {"none", "gone"}]
    BY <1>2, <1>4, AnnouncementWritten
  <1> QED BY <1>2, <1>3, <1>4

LEMMA AnnouncementsHold == AnnouncementInv /\ [Next]_vars => AnnouncementInv'
  <1> SUFFICES ASSUME AnnouncementInv, [Next]_vars PROVE AnnouncementInv'
    OBVIOUS
  <1>1. CASE UNCHANGED announcements
    <2>1. UNCHANGED <<status, ajob, achanged>>
      BY <1>1 DEF announcements
    <2> QED BY <2>1 DEF AnnouncementInv, Announced!TypeOK, AnnouncementIs
  <1>2. ASSUME NEW q \in Reqs, Announce(q) PROVE AnnouncementInv'
    BY <1>2, AnnounceHolds DEF Announce
  <1>3. (\A q \in Reqs : Flag(q) \/ Translate(q) => UNCHANGED announcements) /\ (Expire => UNCHANGED announcements)
        /\ (UNCHANGED vars => UNCHANGED announcements)
    BY DEF Flag, Translate, Expire, vars
  <1> QED BY <1>1, <1>2, <1>3 DEF Next
-----------------------------------------------------------------------------
(* The audit trail over all of them. *)

\* Where a request for a flag or a config is says whether it has changed it.
FlagIs(q) ==
  /\ fjob[q].pc \in {"new", "load", "set"} => fjob[q].kind = "read"
  /\ fjob[q].pc \in {"insert", "write", "del"} => fjob[q].kind # "read"
  /\ q \in fchanged => fjob[q].pc \in {"del", "ok", "unheard", "dead"} /\ fjob[q].kind # "read"
  /\ fjob[q].pc \in {"del", "ok"} /\ fjob[q].kind # "read" => q \in fchanged

\* A request is for one service; a record is sent off when it is answered, and says how.
RecordIs(q) ==
  /\ fjob[q].pc = "new" \/ ijob[q].pc = "new"
  /\ fjob[q].pc = "new" \/ ajob[q].pc = "new"
  /\ ijob[q].pc = "new" \/ ajob[q].pc = "new"
  /\ audit[q] # "none" <=> Answered(q) /\ Audited(q)
  /\ audit[q] \in {"none"} \cup Outcomes(q)

ContentInv ==
  /\ Cache!CacheInv /\ ProxyInv /\ AnnouncementInv
  /\ audit \in [Reqs -> {"none", "ok", "failed"}]
  /\ \A q \in Reqs : FlagIs(q) /\ RecordIs(q)

\* What an action makes of one request as far as its answer and its record go.
FlagKept(x) == fjob'[x].pc = fjob[x].pc /\ fjob'[x].kind = fjob[x].kind /\ (x \in fchanged' <=> x \in fchanged)
ProxyKept(x) == ijob'[x].pc = ijob[x].pc /\ ijob'[x].kind = ijob[x].kind
AnnouncementKept(x) == ajob'[x].pc = ajob[x].pc

LEMMA FlagTypes == ASSUME Cache!CacheInv PROVE Flags!TypeOK
  BY DEF Cache!CacheInv, Cache!TypeOK, Flags!TypeOK, Cache!Stored, Flags!Stored, Cache!Job, Flags!Job,
         Cache!PCs, Flags!PCs, Cache!Kinds, Flags!Kinds

\* A request for a flag or a config that is answered does nothing more.
LEMMA FlagMoves ==
  ASSUME Flags!TypeOK, NEW q \in Reqs, FlagIs(q), (Free(q) /\ Flags!Ask(q)) \/ Flags!Step(q) \/ Flags!Dies(q)
  PROVE  /\ fjob[q].pc \notin {"ok", "failed", "unheard"} /\ fjob'[q].pc # "new" /\ (fjob[q].pc = "new" => Free(q))
         /\ FlagIs(q)' /\ \A x \in Reqs \ {q} : FlagKept(x)
  <1>1. /\ fjob \in [Reqs -> Flags!Job] /\ fjob[q] \in Flags!Job /\ fjob[q].kind \in Flags!Kinds /\ fchanged \in SUBSET Reqs
    BY DEF Flags!TypeOK, Flags!Job
  <1>2. ASSUME NEW pc \in {"ok", "load", "insert", "failed", "write"}, NEW kind \in Flags!Kinds, NEW k, NEW found,
               Flags!Begin(q, pc, kind, k, found), Free(q),
               pc \in {"ok", "load"} => kind = "read", pc \in {"insert", "write"} => kind # "read"
        PROVE  /\ fjob[q].pc \notin {"ok", "failed", "unheard"} /\ fjob'[q].pc # "new" /\ (fjob[q].pc = "new" => Free(q))
               /\ FlagIs(q)' /\ \A x \in Reqs \ {q} : FlagKept(x)
    <2> DEFINE j == [pc |-> pc, kind |-> kind, key |-> k, row |-> found, overtaken |-> FALSE]
    <2>1. j.pc = pc /\ j.kind = kind
      OBVIOUS
    <2>2. fjob' = [fjob EXCEPT ![q] = j] /\ fchanged' = fchanged /\ fjob[q].pc = "new"
      BY <1>2 DEF Flags!Begin, Flags!At
    <2> HIDE DEF j
    <2>3. fjob'[q] = j /\ \A x \in Reqs \ {q} : fjob'[x] = fjob[x]
      BY <1>1, <2>2
    <2>4. q \notin fchanged
      BY <2>2 DEF FlagIs
    <2> QED BY <1>2, <2>1, <2>2, <2>3, <2>4 DEF FlagIs, FlagKept
  <1>3. ASSUME NEW pc \in {"set", "ok", "failed", "unheard", "del", "dead"}, fjob[q].pc \in {"load", "set", "insert", "write", "del"},
               fjob'[q].pc = pc, fjob'[q].kind = fjob[q].kind,
               \A x \in Reqs \ {q} : fjob'[x].pc = fjob[x].pc /\ fjob'[x].kind = fjob[x].kind,
               \/ fchanged' = fchanged /\ pc \notin {"del", "unheard"} /\ (pc = "set" => fjob[q].pc = "load")
                  /\ (pc = "ok" => fjob[q].pc \in {"set", "del"}) /\ (pc = "failed" => fjob[q].pc # "del")
               \/ fchanged' = fchanged \cup {q} /\ pc \in {"ok", "unheard", "del"} /\ fjob[q].pc \in {"insert", "write"}
        PROVE  /\ fjob[q].pc \notin {"ok", "failed", "unheard"} /\ fjob'[q].pc # "new" /\ (fjob[q].pc = "new" => Free(q))
               /\ FlagIs(q)' /\ \A x \in Reqs \ {q} : FlagKept(x)
    <2>1. CASE fchanged' = fchanged
      <3>1. pc = "ok" /\ fjob[q].kind # "read" => q \in fchanged
        BY <1>3, <2>1 DEF FlagIs
      <3>2. pc \in {"set", "failed"} => q \notin fchanged
        BY <1>3, <2>1 DEF FlagIs
      <3>3. q \notin fchanged \/ fjob[q].kind # "read"
        BY DEF FlagIs
      <3>4. pc = "set" => fjob[q].kind = "read"
        BY <1>3, <2>1 DEF FlagIs
      <3>5. pc # "del"
        <4>1. pc = "del" => q \in fchanged
          BY <1>3, <2>1
        <4>2. pc = "del" => fjob[q].pc \in {"insert", "write"}
          BY <1>3
        <4> QED BY <4>1, <4>2 DEF FlagIs
      <3>6. FlagIs(q)'
        BY <1>3, <2>1, <3>1, <3>2, <3>3, <3>4, <3>5 DEF FlagIs
      <3> QED BY <1>3, <2>1, <3>6 DEF FlagKept
    <2>2. CASE fchanged' # fchanged
      <3>1. fchanged' = fchanged \cup {q} /\ pc \in {"ok", "unheard", "del"} /\ fjob[q].kind # "read"
        BY <1>3, <2>2 DEF FlagIs
      <3>2. FlagIs(q)'
        BY <1>3, <3>1 DEF FlagIs
      <3> QED BY <1>1, <1>3, <3>1, <3>2 DEF FlagKept
    <2> QED BY <2>1, <2>2
  <1>4. ASSUME NEW pc, Flags!Goto(q, pc)
        PROVE  fjob'[q].pc = pc /\ fjob'[q].kind = fjob[q].kind /\ \A x \in Reqs \ {q} : fjob'[x] = fjob[x]
    BY <1>1, <1>4 DEF Flags!Goto, Flags!Job
  <1>5. CASE Free(q) /\ Flags!Ask(q)
    <2>1. PICK k \in Keys : Flags!Get(q, k) \/ Flags!Check(q, k) \/ \E kind \in {"update", "remove"} : Flags!Find(q, k, kind)
      BY <1>5 DEF Flags!Ask
    <2>2. PICK pc \in {"ok", "load", "insert", "failed", "write"}, kind \in Flags!Kinds, found \in {entry[k], NoRow, row[k]} :
             /\ Flags!Begin(q, pc, kind, k, found)
             /\ pc \in {"ok", "load"} => kind = "read"
             /\ pc \in {"insert", "write"} => kind # "read"
      <3>1. CASE Flags!Get(q, k)
        BY <3>1 DEF Flags!Get, Flags!Kinds
      <3>2. CASE Flags!Check(q, k)
        BY <3>2 DEF Flags!Check, Flags!Kinds
      <3>3. ASSUME NEW kind \in {"update", "remove"}, Flags!Find(q, k, kind)
            PROVE  \E pc \in {"failed", "write"}, found \in {NoRow, row[k]} : Flags!Begin(q, pc, kind, k, found)
        BY <3>3 DEF Flags!Find
      <3> QED BY <2>1, <3>1, <3>2, <3>3 DEF Flags!Kinds
    <2> QED BY <1>2, <1>5, <2>2
  <1>6. CASE Flags!Load(q)
    <2>1. PICK pc \in {"failed", "set"} : /\ fjob' = [fjob EXCEPT ![q].pc = pc, ![q].row = row[fjob[q].key]]
                                          /\ fchanged' = fchanged /\ fjob[q].pc = "load"
      BY <1>6 DEF Flags!Load, Flags!At
    <2>2. fjob'[q].pc = pc /\ fjob'[q].kind = fjob[q].kind /\ \A x \in Reqs \ {q} : fjob'[x] = fjob[x]
      BY <1>1, <2>1 DEF Flags!Job
    <2> QED BY <1>3, <2>1, <2>2
  <1>7. CASE Flags!Set(q) \/ Flags!Del(q)
    <2>1. Flags!Goto(q, "ok") /\ fchanged' = fchanged /\ fjob[q].pc \in {"set", "del"}
      BY <1>7 DEF Flags!Set, Flags!Del, Flags!At
    <2> QED BY <1>3, <1>4, <2>1
  <1>8. CASE Flags!Insert(q)
    <2>1. /\ fjob[q].pc = "insert"
          /\ \/ Flags!Goto(q, "ok") /\ fchanged' = fchanged \cup {q}
             \/ Flags!Goto(q, "unheard") /\ fchanged' = fchanged \cup {q}
             \/ Flags!Goto(q, "failed") /\ fchanged' = fchanged
      BY <1>8 DEF Flags!Insert, Flags!At
    <2> QED BY <1>3, <1>4, <2>1
  <1>9. CASE Flags!Write(q) /\ ~Flags!Found(q)
    <2>1. fjob[q].pc = "write" /\ Flags!Goto(q, "failed") /\ fchanged' = fchanged
      BY <1>9 DEF Flags!Write, Flags!At
    <2> QED BY <1>3, <1>4, <2>1
  <1>10. ASSUME NEW pc \in {"del", "unheard"}, fjob[q].pc = "write", Flags!Change(q, pc)
         PROVE  /\ fjob[q].pc \notin {"ok", "failed", "unheard"} /\ fjob'[q].pc # "new" /\ (fjob[q].pc = "new" => Free(q))
                /\ FlagIs(q)' /\ \A x \in Reqs \ {q} : FlagKept(x)
    <2> DEFINE k == [fjob[q] EXCEPT !.pc = pc]
               j == [fjob EXCEPT ![q] = k]
    <2>1. k \in Flags!Job /\ k.pc = pc /\ k.kind = fjob[q].kind
      BY <1>1 DEF Flags!Job, Flags!PCs
    <2>2. fjob' = Flags!Overtake(fjob[q].key, j) /\ fchanged' = fchanged \cup {q} /\ fjob[q].pc = "write"
      BY <1>10 DEF Flags!Change
    <2> HIDE DEF k
    <2>3. j \in [Reqs -> Flags!Job] /\ j[q] = k /\ \A x \in Reqs \ {q} : j[x] = fjob[x]
      BY <1>1, <2>1
    <2> HIDE DEF j
    <2>4. \A n \in Flags!Job : LET m == [n EXCEPT !.overtaken = TRUE] IN m.pc = n.pc /\ m.kind = n.kind
      BY DEF Flags!Job
    <2>5. ASSUME NEW x \in Reqs PROVE fjob'[x].pc = j[x].pc /\ fjob'[x].kind = j[x].kind
      <3>1. fjob'[x] \in {j[x], [j[x] EXCEPT !.overtaken = TRUE]} /\ j[x] \in Flags!Job
        BY <2>2, <2>3 DEF Flags!Overtake
      <3> QED BY <2>4, <3>1
    <2>6. fjob'[q].pc = pc /\ fjob'[q].kind = fjob[q].kind
      BY <2>1, <2>3, <2>5
    <2>7. \A x \in Reqs \ {q} : fjob'[x].pc = fjob[x].pc /\ fjob'[x].kind = fjob[x].kind
      BY <2>3, <2>5
    <2>8. pc \in {"set", "ok", "failed", "unheard", "del", "dead"}
      OBVIOUS
    <2> QED BY <1>3, <2>2, <2>6, <2>7, <2>8
  <1>11. CASE Flags!Throws(q) \/ Flags!Dies(q)
    <2>1. /\ fchanged' = fchanged /\ fjob[q].pc \in {"load", "set", "insert", "write", "del"}
          /\ (Flags!Goto(q, "failed") /\ fjob[q].pc # "del") \/ Flags!Goto(q, "dead")
      BY <1>11 DEF Flags!Throws, Flags!Dies
    <2> QED BY <1>3, <1>4, <2>1
  <1>12. CASE (Flags!Write(q) /\ Flags!Found(q)) \/ Flags!WriteUnheard(q)
    <2>1. fjob[q].pc = "write" /\ (Flags!Change(q, "del") \/ Flags!Change(q, "unheard"))
      BY <1>12 DEF Flags!Write, Flags!WriteUnheard, Flags!At
    <2> QED BY <1>10, <2>1
  <1> QED BY <1>5, <1>6, <1>7, <1>8, <1>9, <1>11, <1>12 DEF Flags!Step

\* A request for translations that is answered keeps its answer, whatever its refresh or
\* the upstream does after it.
LEMMA ProxyMoves ==
  ASSUME I18n!TypeOK, NEW q \in Reqs, TranslationIs(q),
         \/ Free(q) /\ I18n!Ask(q)
         \/ I18n!GetMarker(q) \/ I18n!Refreshing(q) \/ I18n!Editing(q) \/ I18n!CarryLate(q) \/ I18n!Dies(q)
  PROVE  /\ ijob'[q].pc # "new" /\ (ijob[q].pc = "new" => Free(q))
         /\ ijob[q].pc \in {"ok", "failed"} => ijob'[q].pc = ijob[q].pc
         /\ ijob[q].pc # "new" => ijob'[q].kind = ijob[q].kind
         /\ \A x \in Reqs \ {q} : ProxyKept(x)
  <1>1. ijob \in [Reqs -> [pc : I18n!PCs, kind : {"list", "edit"}, tries : 0 .. Retries]] /\ late[q] \in Nat /\ applied[q] \in Nat
    BY DEF I18n!TypeOK
  <1>2. ASSUME NEW pc \in I18n!PCs \ {"new"}, I18n!Goto(q, pc), ijob[q].pc # "new", ijob[q].pc \notin {"ok", "failed"} \/ ijob[q].pc = pc
        PROVE  /\ ijob'[q].pc # "new" /\ (ijob[q].pc = "new" => Free(q))
               /\ ijob[q].pc \in {"ok", "failed"} => ijob'[q].pc = ijob[q].pc
               /\ ijob[q].pc # "new" => ijob'[q].kind = ijob[q].kind
               /\ \A x \in Reqs \ {q} : ProxyKept(x)
    <2>1. pc \in I18n!PCs
      OBVIOUS
    <2> QED BY <1>2, <2>1, ProxyGoto DEF ProxyKept
  <1>3. ASSUME UNCHANGED ijob, ijob[q].pc # "new"
        PROVE  /\ ijob'[q].pc # "new" /\ (ijob[q].pc = "new" => Free(q))
               /\ ijob[q].pc \in {"ok", "failed"} => ijob'[q].pc = ijob[q].pc
               /\ ijob[q].pc # "new" => ijob'[q].kind = ijob[q].kind
               /\ \A x \in Reqs \ {q} : ProxyKept(x)
    BY <1>3 DEF ProxyKept
  <1>4. CASE Free(q) /\ I18n!Ask(q)
    <2>1. PICK pc \in {"marker", "wait", "send"}, kind \in {"list", "edit"} : I18n!Begin(q, pc, kind) /\ ijob[q].pc = "new"
      BY <1>4 DEF I18n!Ask, I18n!GetList, I18n!AskEdit, I18n!At
    <2>2. ijob' = [ijob EXCEPT ![q] = [ijob[q] EXCEPT !.pc = pc, !.kind = kind]]
      BY <2>1 DEF I18n!Begin
    <2>3. ijob'[q].pc = pc /\ \A x \in Reqs \ {q} : ijob'[x] = ijob[x]
      BY <1>1, <2>2
    <2> QED BY <1>4, <2>1, <2>3 DEF ProxyKept
  <1>5. CASE I18n!GetMarker(q)
    BY <1>2, <1>5 DEF I18n!GetMarker, I18n!At, I18n!PCs
  <1>6. CASE I18n!Refreshing(q)
    <2>1. refresh[q].pc # "none"
      BY <1>6 DEF I18n!Refreshing, I18n!Fetch, I18n!FetchFails, I18n!FetchRefused, I18n!SetList, I18n!SetMarker
    <2>2. ijob[q].pc # "new"
      BY <2>1 DEF TranslationIs
    <2>3. ijob' = ijob \/ (ijob[q].pc = "wait" /\ \E pc \in {"ok", "failed"} : I18n!Goto(q, pc))
      BY <1>6 DEF I18n!Refreshing, I18n!Fetch, I18n!FetchFails, I18n!FetchRefused, I18n!SetList, I18n!SetMarker,
         I18n!EndRefresh, I18n!At
    <2> QED BY <1>2, <1>3, <2>2, <2>3 DEF I18n!PCs
  <1>7. CASE I18n!Editing(q)
    <2>1. /\ ijob[q].pc \in {"send", "del"}
          /\ (ijob[q].pc = "send" /\ I18n!NextTry(q)) \/ \E pc \in {"del", "failed", "ok"} : I18n!Goto(q, pc)
      BY <1>7 DEF I18n!Editing, I18n!Carried, I18n!CarriedUnreadably, I18n!CarriedUnheard, I18n!SendFails, I18n!Refused,
         I18n!Invalidate, I18n!At
    <2>2. CASE I18n!NextTry(q) /\ ijob[q].tries < Retries
      <3> DEFINE k == [ijob[q] EXCEPT !.tries = @ + 1]
      <3>1. k.pc = ijob[q].pc /\ k.kind = ijob[q].kind
        BY <1>1
      <3>2. ijob' = [ijob EXCEPT ![q] = k]
        BY <2>2 DEF I18n!NextTry
      <3> HIDE DEF k
      <3>3. ijob'[q] = k /\ \A x \in Reqs \ {q} : ijob'[x] = ijob[x]
        BY <1>1, <3>2
      <3> QED BY <2>1, <3>1, <3>3 DEF ProxyKept
    <2>3. CASE ~(I18n!NextTry(q) /\ ijob[q].tries < Retries)
      <3>1. \E pc \in {"del", "failed", "ok"} : I18n!Goto(q, pc)
        BY <2>1, <2>3 DEF I18n!NextTry
      <3> QED BY <1>2, <2>1, <3>1 DEF I18n!PCs
    <2> QED BY <2>2, <2>3
  <1>8. CASE I18n!CarryLate(q)
    <2>1. late[q] > 0 /\ ijob' = ijob
      BY <1>8 DEF I18n!CarryLate
    <2>2. ijob[q].pc # "new"
      BY <1>1, <2>1 DEF TranslationIs
    <2> QED BY <1>3, <2>1, <2>2
  <1>9. CASE I18n!Dies(q)
    <2>1. ijob[q].pc # "new"
      BY <1>9 DEF I18n!Dies, TranslationIs
    <2>2. CASE ijob[q].pc \in {"ok", "failed"}
      <3>1. I18n!Goto(q, ijob[q].pc) /\ ijob[q].pc \in I18n!PCs \ {"new"}
        BY <1>9, <2>2 DEF I18n!Dies, I18n!Goto, I18n!PCs
      <3> QED BY <1>2, <2>1, <3>1
    <2>3. CASE ~(ijob[q].pc \in {"ok", "failed"})
      <3>1. I18n!Goto(q, "dead")
        BY <1>9, <2>3 DEF I18n!Dies, I18n!Goto
      <3> QED BY <1>2, <2>1, <2>3, <3>1 DEF I18n!PCs
    <2> QED BY <2>2, <2>3
  <1> QED BY <1>4, <1>5, <1>6, <1>7, <1>8, <1>9

\* A request for an announcement that is answered does nothing more.
LEMMA AnnouncementMoves ==
  ASSUME AnnouncementInv, NEW q \in Reqs, (Free(q) /\ Announced!Ask(q)) \/ Announced!Step(q) \/ Announced!Dies(q)
  PROVE  /\ ajob[q].pc \notin {"ok", "failed", "unheard"} /\ ajob'[q].pc # "new" /\ (ajob[q].pc = "new" => Free(q))
         /\ \A x \in Reqs \ {q} : AnnouncementKept(x)
  <1>1. ajob[q].pc \in {"new", "write"} /\ ajob \in [Reqs -> Announced!Job]
    BY AnnouncementStep DEF AnnouncementInv, Announced!TypeOK
  <1>2. PICK k \in Announced!Job : ajob' = [ajob EXCEPT ![q] = k] /\ k.pc # "new"
    BY AnnouncementStep
  <1>3. ajob'[q] = k /\ \A x \in Reqs \ {q} : ajob'[x] = ajob[x]
    BY <1>1, <1>2
  <1>4. ajob[q].pc = "new" => Free(q)
    BY DEF Announced!Step, Announced!Write, Announced!Throws, Announced!Dies, Announced!At
  <1> QED BY <1>1, <1>2, <1>3, <1>4 DEF AnnouncementKept

\* A request that is left alone keeps its record.
LEMMA RecordKept ==
  ASSUME NEW x \in Reqs, RecordIs(x), FlagKept(x), ProxyKept(x), AnnouncementKept(x), Answered(x) => audit'[x] = audit[x],
         ~Answered(x)' => audit'[x] = audit[x]
  PROVE  RecordIs(x)'
  <1>1. Outcomes(x)' = Outcomes(x) /\ (Answered(x)' <=> Answered(x)) /\ (Audited(x)' <=> Audited(x))
    BY DEF FlagKept, ProxyKept, AnnouncementKept, Outcomes, Unheard, Answered, Audited
  <1>2. audit'[x] = audit[x]
    BY <1>1
  <1> QED BY <1>1, <1>2 DEF RecordIs, FlagKept, ProxyKept, AnnouncementKept

\* What Tap makes of a request.
LEMMA TapIs ==
  ASSUME Tap, NEW x \in Reqs
  PROVE  /\ ~Answered(x) /\ Answered(x)' /\ Audited(x)' => audit'[x] \in Outcomes(x)'
         /\ ~(~Answered(x) /\ Answered(x)' /\ Audited(x)') => audit'[x] = audit[x]
  <1>1. audit'[x] = IF ~Answered(x) /\ Answered(x)' /\ Audited(x)'
                    THEN (CHOOSE o \in {"ok", "failed"} : o \in Outcomes(x)') ELSE audit[x]
    BY DEF Tap
  <1>2. Answered(x)' => \E o \in {"ok", "failed"} : o \in Outcomes(x)'
    BY DEF Answered, Outcomes
  <1> QED BY <1>1, <1>2

\* The record of the request a step is about.
LEMMA RecordMoves ==
  ASSUME Tap, NEW q \in Reqs, RecordIs(q),
         \/ /\ ProxyKept(q) /\ AnnouncementKept(q) /\ fjob[q].pc \notin {"ok", "failed", "unheard"}
            /\ fjob'[q].pc # "new" /\ (fjob[q].pc = "new" => Free(q))
         \/ /\ FlagKept(q) /\ AnnouncementKept(q) /\ ijob'[q].pc # "new" /\ (ijob[q].pc = "new" => Free(q))
            /\ ijob[q].pc \in {"ok", "failed"} => ijob'[q].pc = ijob[q].pc
            /\ ijob[q].pc # "new" => ijob'[q].kind = ijob[q].kind
         \/ /\ FlagKept(q) /\ ProxyKept(q) /\ ajob[q].pc \notin {"ok", "failed", "unheard"}
            /\ ajob'[q].pc # "new" /\ (ajob[q].pc = "new" => Free(q))
  PROVE  RecordIs(q)'
  <1>1. /\ (fjob[q].pc = "new" \/ ijob[q].pc = "new")'
        /\ (fjob[q].pc = "new" \/ ajob[q].pc = "new")'
        /\ (ijob[q].pc = "new" \/ ajob[q].pc = "new")'
    BY DEF RecordIs, FlagKept, ProxyKept, AnnouncementKept, Free
  <1>2. CASE Answered(q)
    <2>1. Outcomes(q)' = Outcomes(q) /\ (Audited(q)' <=> Audited(q))
      BY <1>2 DEF RecordIs, FlagKept, ProxyKept, AnnouncementKept, Free, Answered, Outcomes, Unheard, Audited
    <2>2. audit'[q] = audit[q] /\ Answered(q)'
      BY <1>2, <2>1, TapIs DEF Answered
    <2> QED BY <1>1, <1>2, <2>1, <2>2 DEF RecordIs
  <1>3. CASE ~Answered(q)
    <2>1. audit[q] = "none"
      BY <1>3 DEF RecordIs
    <2>2. "none" \notin Outcomes(q)'
      BY DEF Outcomes
    <2>3. CASE Answered(q)' /\ Audited(q)'
      <3>1. audit'[q] \in Outcomes(q)'
        BY <1>3, <2>3, TapIs
      <3> QED BY <1>1, <2>2, <2>3, <3>1 DEF RecordIs
    <2>4. CASE ~(Answered(q)' /\ Audited(q)')
      <3>1. audit'[q] = "none"
        BY <2>1, <2>4, TapIs
      <3> QED BY <1>1, <2>4, <3>1 DEF RecordIs
    <2> QED BY <2>3, <2>4
  <1> QED BY <1>2, <1>3

LEMMA ContentStarts == Init => ContentInv
  <1> SUFFICES ASSUME Init PROVE ContentInv
    OBVIOUS
  <1>1. Cache!NoneAssumption
    BY ContentAssumption DEF Flags!NoneAssumption, Cache!NoneAssumption, Flags!Stored, Cache!Stored
  <1>2. Cache!CacheInv
    <2>1. Cache!Init
      BY DEF Init, Flags!Init, Cache!Init, Flags!New, Cache!New
    <2> QED BY <2>1, <1>1, Cache!CacheInit
  <1>3. ProxyInv /\ AnnouncementInv
    BY ProxyStarts, AnnouncementsStart
  <1>4. ASSUME NEW q \in Reqs PROVE FlagIs(q) /\ RecordIs(q)
    <2>1. fjob[q].pc = "new" /\ fjob[q].kind = "read" /\ fchanged = {} /\ audit[q] = "none"
      BY DEF Init, Flags!Init, Flags!New
    <2>2. ijob[q].pc = "new" /\ ajob[q].pc = "new"
      BY DEF Init, I18n!Init, Announced!Init
    <2> QED BY <2>1, <2>2 DEF FlagIs, RecordIs, Answered, Outcomes, Unheard
  <1>5. audit \in [Reqs -> {"none", "ok", "failed"}]
    BY DEF Init
  <1> QED BY <1>2, <1>3, <1>4, <1>5 DEF ContentInv

LEMMA ContentHolds == ContentInv /\ [Next]_vars => ContentInv'
  <1> SUFFICES ASSUME ContentInv, [Next]_vars PROVE ContentInv'
    OBVIOUS
  <1>1. Cache!NoneAssumption
    BY ContentAssumption DEF Flags!NoneAssumption, Cache!NoneAssumption, Flags!Stored, Cache!Stored
  <1>2. Cache!CacheInv'
    BY <1>1, FlagsAreACache, Cache!CacheStep DEF ContentInv
  <1>3. ProxyInv' /\ AnnouncementInv'
    BY ProxyHolds, AnnouncementsHold DEF ContentInv
  <1>4. Flags!TypeOK /\ I18n!TypeOK /\ Announced!TypeOK /\ \A x \in Reqs : FlagIs(x) /\ RecordIs(x) /\ TranslationIs(x)
    BY FlagTypes DEF ContentInv, ProxyInv, AnnouncementInv
  <1>5. UNCHANGED flags => \A x \in Reqs : FlagKept(x) /\ FlagIs(x)'
    BY <1>4 DEF flags, FlagKept, FlagIs
  <1>6. UNCHANGED i18n => \A x \in Reqs : ProxyKept(x)
    BY DEF i18n, ProxyKept
  <1>7. UNCHANGED announcements => \A x \in Reqs : AnnouncementKept(x)
    BY DEF announcements, AnnouncementKept
  <1>8. ASSUME NEW x \in Reqs, FlagKept(x), ProxyKept(x), AnnouncementKept(x), Tap PROVE RecordIs(x)'
    BY <1>4, <1>8, TapIs, RecordKept
  <1>9. \A x \in Reqs : FlagKept(x) => FlagIs(x)'
    BY <1>4 DEF FlagKept, FlagIs
  <1>10. ASSUME NEW q \in Reqs, Flag(q) PROVE \A x \in Reqs : FlagIs(x)' /\ RecordIs(x)'
    <2>1. Tap /\ UNCHANGED i18n /\ UNCHANGED announcements
      BY <1>10 DEF Flag
    <2>2. /\ fjob[q].pc \notin {"ok", "failed", "unheard"} /\ fjob'[q].pc # "new" /\ (fjob[q].pc = "new" => Free(q))
          /\ FlagIs(q)' /\ \A x \in Reqs \ {q} : FlagKept(x)
      BY <1>4, <1>10, FlagMoves DEF Flag
    <2>3. RecordIs(q)'
      BY <1>4, <1>6, <1>7, <2>1, <2>2, RecordMoves
    <2>4. \A x \in Reqs \ {q} : RecordIs(x)'
      BY <1>6, <1>7, <1>8, <2>1, <2>2
    <2> QED BY <1>9, <2>2, <2>3, <2>4
  <1>11. ASSUME NEW q \in Reqs, Translate(q) PROVE \A x \in Reqs : FlagIs(x)' /\ RecordIs(x)'
    <2>1. Tap /\ UNCHANGED flags /\ UNCHANGED announcements
      BY <1>11 DEF Translate
    <2>2. /\ ijob'[q].pc # "new" /\ (ijob[q].pc = "new" => Free(q))
          /\ ijob[q].pc \in {"ok", "failed"} => ijob'[q].pc = ijob[q].pc
          /\ ijob[q].pc # "new" => ijob'[q].kind = ijob[q].kind
          /\ \A x \in Reqs \ {q} : ProxyKept(x)
      BY <1>4, <1>11, ProxyMoves DEF Translate
    <2>3. RecordIs(q)'
      BY <1>4, <1>5, <1>7, <2>1, <2>2, RecordMoves
    <2>4. \A x \in Reqs \ {q} : RecordIs(x)'
      BY <1>5, <1>7, <1>8, <2>1, <2>2
    <2> QED BY <1>5, <2>1, <2>3, <2>4
  <1>12. ASSUME NEW q \in Reqs, Announce(q) PROVE \A x \in Reqs : FlagIs(x)' /\ RecordIs(x)'
    <2>1. Tap /\ UNCHANGED flags /\ UNCHANGED i18n
      BY <1>12 DEF Announce
    <2>2. /\ ajob[q].pc \notin {"ok", "failed", "unheard"} /\ ajob'[q].pc # "new" /\ (ajob[q].pc = "new" => Free(q))
          /\ \A x \in Reqs \ {q} : AnnouncementKept(x)
      BY <1>12, AnnouncementMoves DEF Announce, ContentInv
    <2>3. RecordIs(q)'
      BY <1>4, <1>5, <1>6, <2>1, <2>2, RecordMoves
    <2>4. \A x \in Reqs \ {q} : RecordIs(x)'
      BY <1>5, <1>6, <1>8, <2>1, <2>2
    <2> QED BY <1>5, <2>1, <2>3, <2>4
  <1>13. ASSUME Expire \/ UNCHANGED vars PROVE \A x \in Reqs : FlagIs(x)' /\ RecordIs(x)'
    <2>1. UNCHANGED <<announcements, audit>> /\ UNCHANGED <<fjob, fchanged, ijob>>
      BY <1>13 DEF Expire, vars, flags, i18n, Flags!Expire, I18n!MarkerExpires, I18n!ListExpires
    <2>2. \A x \in Reqs : FlagKept(x) /\ ProxyKept(x) /\ AnnouncementKept(x)
      BY <1>7, <2>1 DEF FlagKept, ProxyKept
    <2>3. \A x \in Reqs : RecordIs(x)'
      BY <1>4, <2>1, <2>2, RecordKept
    <2> QED BY <1>9, <2>2, <2>3
  <1>14. \A x \in Reqs : FlagIs(x)' /\ RecordIs(x)'
    BY <1>10, <1>11, <1>12, <1>13 DEF Next
  <1>15. audit' \in [Reqs -> {"none", "ok", "failed"}]
    <2>1. CASE Tap
      <3>1. \A x \in Reqs : audit'[x] \in {"none", "ok", "failed"}
        BY <2>1, TapIs DEF Outcomes, ContentInv
      <3>2. audit' = [x \in Reqs |-> audit'[x]]
        BY <2>1 DEF Tap
      <3> QED BY <3>1, <3>2
    <2>2. CASE audit' = audit
      BY <2>2 DEF ContentInv
    <2> QED BY <2>1, <2>2 DEF Next, Flag, Translate, Announce, Expire, vars
  <1> QED BY <1>2, <1>3, <1>14, <1>15 DEF ContentInv

LEMMA ContentAlways == Spec => []ContentInv
  BY ContentStarts, ContentHolds, PTL DEF Spec

\* Content keeps to its types.
THEOREM TypesHold == Spec => []TypeOK
  <1>1. ContentInv => TypeOK
    <2> SUFFICES ASSUME ContentInv PROVE TypeOK
      OBVIOUS
    <2>1. Flags!TypeOK /\ I18n!TypeOK /\ Announced!TypeOK
      BY FlagTypes DEF ContentInv, ProxyInv, AnnouncementInv
    <2>2. \A q \in Reqs : audit[q] # "none" => Answered(q)
      BY DEF ContentInv, RecordIs
    <2> QED BY <2>1, <2>2 DEF TypeOK, ContentInv
  <1> QED BY <1>1, ContentAlways, PTL

\* Whoever changed something and was answered has had a record sent off.
THEOREM NothingGoesUnrecorded == Spec => []ChangesAreAudited
  <1>1. ContentInv => ChangesAreAudited
    <2> SUFFICES ASSUME ContentInv, NEW q \in Reqs, Changed(q), Answered(q) PROVE audit[q] # "none"
      BY DEF ChangesAreAudited
    <2>1. FlagIs(q) /\ RecordIs(q) /\ AnnouncementIs(q) /\ TranslationIs(q) /\ late[q] \in Nat /\ applied[q] \in Nat
      BY DEF ContentInv, ProxyInv, AnnouncementInv, I18n!TypeOK
    <2>2. Audited(q)
      <3>1. applied[q] > 0 => ijob[q].kind = "edit"
        BY <2>1 DEF TranslationIs
      <3>2. q \in achanged => ajob[q].pc \in {"ok", "unheard"}
        BY <2>1 DEF AnnouncementIs
      <3>3. q \in fchanged => fjob[q].kind # "read"
        BY <2>1 DEF FlagIs
      <3> QED BY <3>1, <3>2, <3>3 DEF Changed, Audited
    <2> QED BY <2>1, <2>2 DEF RecordIs
  <1> QED BY <1>1, ContentAlways, PTL

\* A record of a success stands for a change, and one of a failure for none, unless the
\* answer to the very statement that made it was lost, or the upstream's.
THEOREM RecordsAreTrue == Spec => []RecordsTellTheTruth
  <1>1. ContentInv => RecordsTellTheTruth
    <2> SUFFICES ASSUME ContentInv, NEW q \in Reqs
                 PROVE  /\ audit[q] = "ok" => Changed(q)
                        /\ audit[q] = "failed" /\ Changed(q) => Unheard(q) \/ applied[q] > 0
      BY DEF RecordsTellTheTruth
    <2>1. FlagIs(q) /\ RecordIs(q) /\ AnnouncementIs(q) /\ TranslationIs(q)
      BY DEF ContentInv, ProxyInv, AnnouncementInv
    <2>2. ASSUME audit[q] = "ok" PROVE Changed(q)
      <3>1. "ok" \in Outcomes(q) /\ Audited(q)
        BY <2>1, <2>2 DEF RecordIs
      <3>2. CASE fjob[q].pc = "ok"
        <4>1. ijob[q].kind # "edit" /\ ajob[q].pc = "new"
          BY <2>1, <3>2 DEF RecordIs, TranslationIs
        <4> QED BY <2>1, <3>1, <3>2, <4>1 DEF Audited, FlagIs, Changed
      <3>3. CASE ijob[q].pc = "ok"
        <4>1. fjob[q].kind = "read" /\ ajob[q].pc = "new"
          BY <2>1, <3>3 DEF RecordIs, FlagIs
        <4> QED BY <2>1, <3>1, <3>3, <4>1 DEF Audited, TranslationIs, Changed
      <3>4. CASE ajob[q].pc = "ok"
        BY <2>1, <3>4 DEF AnnouncementIs, Changed
      <3> QED BY <3>1, <3>2, <3>3, <3>4 DEF Outcomes
    <2>3. ASSUME audit[q] = "failed", ~Unheard(q), ~(applied[q] > 0) PROVE ~Changed(q)
      <3>1. "failed" \in {fjob[q].pc, ijob[q].pc, ajob[q].pc}
        BY <2>1, <2>3 DEF RecordIs, Outcomes
      <3>2. q \notin fchanged
        BY <2>1, <2>3, <3>1 DEF Unheard, RecordIs, FlagIs
      <3>3. q \notin achanged
        BY <2>1, <2>3, <3>1 DEF Unheard, RecordIs, AnnouncementIs
      <3> QED BY <2>3, <3>2, <3>3 DEF Changed
    <2> QED BY <2>2, <2>3
  <1> QED BY <1>1, ContentAlways, PTL
=============================================================================
