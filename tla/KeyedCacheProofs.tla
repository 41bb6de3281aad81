-------------------------- MODULE KeyedCacheProofs --------------------------
(***************************************************************************)
(* What holds of KeyedCache for any keys and any number of requests.       *)
(***************************************************************************)
EXTENDS KeyedCache, TLAPS

\* Whoever is about to SET what it loaded holds a row, and knows if that row has changed
\* since: the flag that excuses an outdated SET is raised by every change.
LoadsAreTracked ==
  \A q \in Reqs : At(q, "set") =>
    /\ job[q].row # NoRow
    /\ job[q].row # row[job[q].key] => job[q].overtaken

\* Whoever is about to write by id has found a row.
WritersHaveARow == \A q \in Reqs : At(q, "write") => job[q].row # NoRow

CacheInv == TypeOK /\ LoadsAreTracked /\ WritersHaveARow /\ StaleRowsAreExplained

LEMMA CacheInit == ASSUME NoneAssumption, Init PROVE CacheInv
  <1>1. New \in Job
    BY DEF NoneAssumption, New, Job, PCs, Kinds, Stored
  <1>2. [id |-> 0, ver |-> 0] \in Stored
    BY DEF Stored
  <1>3. TypeOK
    BY <1>1, <1>2 DEF Init, TypeOK
  <1>4. LoadsAreTracked /\ WritersHaveARow
    BY DEF Init, LoadsAreTracked, WritersHaveARow, At, New
  <1>5. StaleRowsAreExplained
    BY DEF Init, StaleRowsAreExplained, Stale
  <1> QED BY <1>3, <1>4, <1>5 DEF CacheInv

\* A new request takes its first step.
LEMMA BeginKeeps ==
  ASSUME NoneAssumption, CacheInv, NEW q \in Reqs, NEW pc \in {"ok", "load", "insert", "failed", "write"},
         NEW kind \in Kinds, NEW k \in Keys, NEW found \in Stored \cup {NoRow},
         pc = "write" => found # NoRow, Begin(q, pc, kind, k, found)
  PROVE  CacheInv'
  <1> DEFINE j == [pc |-> pc, kind |-> kind, key |-> k, row |-> found, overtaken |-> FALSE]
  <1>1. job' = [job EXCEPT ![q] = j] /\ j \in Job
    BY DEF Begin, Job, PCs
  <1>2. TypeOK'
    BY <1>1 DEF CacheInv, TypeOK, Begin
  <1>3. \A x \in Reqs : job'[x] = IF x = q THEN j ELSE job[x]
    BY <1>1 DEF CacheInv, TypeOK
  <1>4. LoadsAreTracked' /\ WritersHaveARow'
    BY <1>3 DEF CacheInv, LoadsAreTracked, WritersHaveARow, At, Begin
  <1>5. StaleRowsAreExplained'
    BY <1>3 DEF CacheInv, StaleRowsAreExplained, Stale, At, Begin
  <1> QED BY <1>2, <1>4, <1>5 DEF CacheInv

\* A request moves to the end of its work, or on to its DEL, and no row changes.
LEMMA GotoJobs ==
  ASSUME TypeOK, NEW q \in Reqs, NEW pc \in PCs, Goto(q, pc)
  PROVE  /\ job' \in [Reqs -> Job]
         /\ job'[q].pc = pc
         /\ \A x \in Reqs \ {q} : job'[x] = job[x]
  <1> DEFINE j == [pc |-> pc, kind |-> job[q].kind, key |-> job[q].key,
                   row |-> job[q].row, overtaken |-> job[q].overtaken]
  <1>1. job[q] \in Job
    BY DEF TypeOK
  <1>2. [job[q] EXCEPT !.pc = pc] = j /\ j \in Job
    BY <1>1 DEF Job
  <1>3. job' = [job EXCEPT ![q] = j]
    BY <1>2 DEF Goto
  <1> QED BY <1>2, <1>3 DEF TypeOK

\* A request takes note of the row of its key and goes on.
LEMMA NotedJobs ==
  ASSUME TypeOK, NEW q \in Reqs, NEW pc \in PCs, NEW found \in Stored \cup {NoRow},
         job' = [job EXCEPT ![q].pc = pc, ![q].row = found]
  PROVE  /\ job' \in [Reqs -> Job]
         /\ job'[q].pc = pc /\ job'[q].row = found /\ job'[q].key = job[q].key
         /\ \A x \in Reqs \ {q} : job'[x] = job[x]
  <1> DEFINE j == [job[q] EXCEPT !.pc = pc, !.row = found]
  <1>1. job[q] \in Job
    BY DEF TypeOK
  <1>2. j \in Job /\ j.pc = pc /\ j.row = found /\ j.key = job[q].key
    BY <1>1 DEF Job
  <1>3. job' = [job EXCEPT ![q] = j]
    OBVIOUS
  <1> HIDE DEF j
  <1> QED BY <1>2, <1>3, ZenonT(60) DEF TypeOK

\* The row is loaded, or found to be absent.
LEMMA LoadKeeps == ASSUME CacheInv, NEW q \in Reqs, Load(q) PROVE CacheInv'
  <1>1. job[q] \in Job /\ job[q].key \in Keys /\ row[job[q].key] \in Stored \cup {NoRow}
    BY DEF CacheInv, TypeOK, Job
  <1>2. PICK pc \in {"failed", "set"} :
          /\ pc = "set" => row[job[q].key] # NoRow
          /\ job' = [job EXCEPT ![q].pc = pc, ![q].row = row[job[q].key]]
    <2>1. CASE row[job[q].key] = NoRow
      BY <2>1 DEF Load
    <2>2. CASE row[job[q].key] # NoRow
      BY <2>2 DEF Load
    <2> QED BY <2>1, <2>2
  <1>3. /\ job' \in [Reqs -> Job]
        /\ job'[q].pc = pc /\ job'[q].row = row[job[q].key] /\ job'[q].key = job[q].key
        /\ \A x \in Reqs \ {q} : job'[x] = job[x]
    BY <1>1, <1>2, NotedJobs, ZenonT(60) DEF CacheInv, PCs
  <1>4. TypeOK'
    BY <1>3 DEF CacheInv, TypeOK, Load
  <1>5. LoadsAreTracked' /\ WritersHaveARow'
    <2>1. job'[q].pc # "del" /\ row' = row
      BY <1>3 DEF Load
    <2>2. LoadsAreTracked'
      BY <1>2, <1>3, <2>1 DEF CacheInv, LoadsAreTracked, At
    <2>3. WritersHaveARow'
      BY <1>3, <2>1 DEF CacheInv, WritersHaveARow, At
    <2> QED BY <2>2, <2>3
  <1>6. StaleRowsAreExplained'
    BY <1>2, <1>3 DEF CacheInv, StaleRowsAreExplained, Stale, At, Load
  <1> QED BY <1>4, <1>5, <1>6 DEF CacheInv

\* The SET: what it puts into the cache is the row as it is, or it has been overtaken.
LEMMA SetKeeps == ASSUME NoneAssumption, CacheInv, NEW q \in Reqs, Set(q) PROVE CacheInv'
  <1> DEFINE k == job[q].key
  <1>1. job[q] \in Job /\ k \in Keys /\ job[q].row \in Stored
    BY DEF CacheInv, TypeOK, LoadsAreTracked, Set, Job
  <1>2. job' \in [Reqs -> Job] /\ job'[q].pc = "ok" /\ \A x \in Reqs \ {q} : job'[x] = job[x]
    BY GotoJobs DEF CacheInv, Set, PCs
  <1>3. TypeOK'
    BY <1>1, <1>2 DEF CacheInv, TypeOK, Set
  <1>4. LoadsAreTracked' /\ WritersHaveARow'
    BY <1>2 DEF CacheInv, LoadsAreTracked, WritersHaveARow, At, Set
  <1>5. job[q].row # row[k] => job[q].overtaken
    BY DEF CacheInv, LoadsAreTracked, Set
  <1>6. \A x \in Reqs : At(x, "del") => At(x, "del")' /\ job'[x].key = job[x].key
    BY <1>2 DEF At, Set
  <1>7. ASSUME NEW c \in Keys, Stale(c)'
        PROVE  c \in excused' \/ \E x \in Reqs : At(x, "del")' /\ job'[x].key = c
    <2>1. CASE UNCHANGED <<entry, excused>>
      BY <2>1, <1>6, <1>7 DEF CacheInv, StaleRowsAreExplained, Stale, Set
    <2>2. CASE /\ entry' = [entry EXCEPT ![k] = job[q].row]
               /\ excused' = IF job[q].row = row[k] THEN excused \ {k}
                             ELSE IF job[q].overtaken THEN excused \cup {k} ELSE excused
      <3>1. CASE c = k
        BY <3>1, <2>2, <1>1, <1>5, <1>7 DEF CacheInv, TypeOK, Stale, Set
      <3>2. CASE c # k
        BY <3>2, <2>2, <1>6, <1>7 DEF CacheInv, TypeOK, StaleRowsAreExplained, Stale, Set
      <3> QED BY <3>1, <3>2
    <2> QED BY <2>1, <2>2 DEF Set
  <1>8. StaleRowsAreExplained'
    BY <1>7 DEF StaleRowsAreExplained
  <1> QED BY <1>3, <1>4, <1>8 DEF CacheInv

\* A key that is free has no entry that was right before the insert.
LEMMA InsertKeeps == ASSUME NoneAssumption, CacheInv, NEW q \in Reqs, Insert(q) PROVE CacheInv'
  <1> DEFINE k == job[q].key
             new == [id |-> ids, ver |-> 0]
  <1>1. job[q] \in Job /\ k \in Keys
    BY DEF CacheInv, TypeOK, Job
  <1>2. /\ job' \in [Reqs -> Job]
        /\ job'[q].pc \in {"ok", "unheard", "failed"}
        /\ \A x \in Reqs \ {q} : job'[x] = job[x]
    <2>1. PICK pc \in {"ok", "unheard", "failed"} : Goto(q, pc)
      BY DEF Insert
    <2> QED BY <2>1, GotoJobs DEF CacheInv, PCs
  <1>3. \A x \in Reqs : At(x, "del") => At(x, "del")' /\ job'[x].key = job[x].key
    BY <1>2 DEF At, Insert
  <1>4. CASE row[k] # NoRow
    <2>1. UNCHANGED <<row, ids, entry, changed, excused>>
      BY <1>4 DEF Insert
    <2>2. TypeOK'
      BY <2>1, <1>2 DEF CacheInv, TypeOK
    <2>3. LoadsAreTracked' /\ WritersHaveARow' /\ StaleRowsAreExplained'
      BY <2>1, <1>2, <1>3 DEF CacheInv, LoadsAreTracked, WritersHaveARow, StaleRowsAreExplained, Stale, At
    <2> QED BY <2>2, <2>3 DEF CacheInv
  <1>5. CASE row[k] = NoRow
    <2>1. row' = [row EXCEPT ![k] = new] /\ ids' = ids + 1 /\ changed' = changed \cup {q}
      BY <1>5 DEF Insert
    <2>2. new \in Stored /\ new.id = ids
      BY DEF CacheInv, TypeOK, Stored
    <2>3. \A c \in Keys : row'[c] # NoRow => row'[c].id < ids'
      <3> SUFFICES ASSUME NEW c \in Keys, row'[c] # NoRow PROVE row'[c].id < ids'
        OBVIOUS
      <3>1. CASE c = k
        BY <3>1, <2>1, <2>2, <1>1 DEF CacheInv, TypeOK
      <3>2. CASE c # k
        <4>1. row'[c] = row[c]
          BY <3>2, <2>1, <1>1 DEF CacheInv, TypeOK
        <4>2. row[c] \in Stored /\ row[c].id < ids
          BY <4>1 DEF CacheInv, TypeOK
        <4> QED BY <4>1, <4>2, <2>1 DEF CacheInv, TypeOK, Stored
      <3> QED BY <3>1, <3>2
    <2>4. row' \in [Keys -> Stored \cup {NoRow}] /\ ids' \in Nat /\ changed' \in SUBSET Reqs
      BY <2>1, <2>2, <1>1 DEF CacheInv, TypeOK
    <2>5. TypeOK'
      BY <2>3, <2>4, <1>2 DEF CacheInv, TypeOK, Insert
    <2>6. LoadsAreTracked' /\ WritersHaveARow'
      BY <2>1, <1>1, <1>2, <1>5 DEF CacheInv, TypeOK, LoadsAreTracked, WritersHaveARow, At
    <2>7. \A c \in Keys : Stale(c)' => Stale(c)
      BY <2>1, <1>5 DEF CacheInv, TypeOK, NoneAssumption, Stale, Insert
    <2>8. StaleRowsAreExplained'
      BY <2>7, <1>3 DEF CacheInv, StaleRowsAreExplained, Insert
    <2> QED BY <2>5, <2>6, <2>8 DEF CacheInv
  <1> QED BY <1>4, <1>5

\* The jobs after an update or a delete took effect: the writer goes on to its DEL, or
\* throws, and who was about to SET a row of that key is told that it has been overtaken.
LEMMA OvertakeJobs ==
  ASSUME TypeOK, NEW q \in Reqs, NEW k \in Keys, NEW pc \in {"del", "unheard"},
         job' = Overtake(k, [job EXCEPT ![q].pc = pc])
  PROVE  /\ job' \in [Reqs -> Job]
         /\ job'[q].pc = pc /\ job'[q].key = job[q].key
         /\ \A x \in Reqs : x # q => /\ job'[x].pc = job[x].pc
                                     /\ job'[x].key = job[x].key
                                     /\ job'[x].row = job[x].row
                                     /\ job[x].overtaken => job'[x].overtaken
                                     /\ job[x].pc = "set" /\ job[x].key = k => job'[x].overtaken
  <1> DEFINE mid == [job EXCEPT ![q].pc = pc]
             told(x) == [mid[x] EXCEPT !.overtaken = TRUE]
  <1>1. \A r \in Job : /\ [r EXCEPT !.overtaken = TRUE] \in Job
                       /\ [r EXCEPT !.overtaken = TRUE].pc = r.pc
                       /\ [r EXCEPT !.overtaken = TRUE].key = r.key
                       /\ [r EXCEPT !.overtaken = TRUE].row = r.row
                       /\ [r EXCEPT !.overtaken = TRUE].overtaken = TRUE
    BY DEF Job
  <1>2. \A r \in Job : /\ [r EXCEPT !.pc = pc] \in Job
                       /\ [r EXCEPT !.pc = pc].pc = pc
                       /\ [r EXCEPT !.pc = pc].key = r.key
    BY DEF Job, PCs
  <1>3. mid \in [Reqs -> Job] /\ mid[q].pc = pc /\ mid[q].key = job[q].key
        /\ \A x \in Reqs : x # q => mid[x] = job[x]
    BY <1>2 DEF TypeOK
  <1> HIDE DEF mid
  <1>4. \A x \in Reqs : job'[x] = IF mid[x].pc = "set" /\ mid[x].key = k THEN told(x) ELSE mid[x]
    BY DEF Overtake, mid
  <1>5. \A x \in Reqs : told(x) \in Job /\ told(x).pc = mid[x].pc /\ told(x).key = mid[x].key
                        /\ told(x).row = mid[x].row /\ told(x).overtaken = TRUE
    BY <1>1, <1>3
  <1> HIDE DEF told
  <1>6. job' = [x \in Reqs |-> job'[x]]
    BY DEF Overtake
  <1>7. \A x \in Reqs : job'[x] \in Job
    BY <1>3, <1>4, <1>5
  <1>8. job' \in [Reqs -> Job]
    BY <1>6, <1>7
  <1>9. job'[q] = mid[q]
    BY <1>3, <1>4
  <1>10. ASSUME NEW x \in Reqs, x # q
         PROVE  /\ job'[x].pc = job[x].pc
                /\ job'[x].key = job[x].key
                /\ job'[x].row = job[x].row
                /\ job[x].overtaken => job'[x].overtaken
                /\ job[x].pc = "set" /\ job[x].key = k => job'[x].overtaken
    <2>1. mid[x] = job[x]
      BY <1>3, <1>10
    <2>2. CASE job[x].pc = "set" /\ job[x].key = k
      BY <2>1, <2>2, <1>4, <1>5
    <2>3. CASE ~(job[x].pc = "set" /\ job[x].key = k)
      BY <2>1, <2>3, <1>4
    <2> QED BY <2>2, <2>3
  <1> QED BY <1>3, <1>8, <1>9, <1>10

\* An update or a delete by id took effect: from here on the key's entry may be outdated,
\* and the writer's DEL is what explains it, or that it will send none.
LEMMA ChangeKeeps ==
  ASSUME NoneAssumption, CacheInv, NEW q \in Reqs, At(q, "write"), Found(q),
         NEW pc \in {"del", "unheard"}, Change(q, pc),
         UNCHANGED <<ids, entry>>, excused \subseteq excused', excused' \in SUBSET Keys,
         pc = "unheard" /\ entry[job[q].key] # Miss => job[q].key \in excused'
  PROVE  CacheInv'
  <1> DEFINE k == job[q].key
             new == IF job[q].kind = "remove" THEN NoRow ELSE Edited(row[k])
  <1>1. job[q] \in Job /\ k \in Keys
    BY DEF CacheInv, TypeOK, Job
  <1>2. /\ row' = [row EXCEPT ![k] = new]
        /\ job' = Overtake(k, [job EXCEPT ![q].pc = pc])
        /\ changed' = changed \cup {q}
    BY DEF Change
  <1>3. row[k] \in Stored /\ row[k].id < ids
    BY <1>1 DEF CacheInv, TypeOK, Found
  <1>4. new \in Stored \cup {NoRow} /\ (new # NoRow => new.id < ids)
    BY <1>3 DEF Stored, Edited
  <1> HIDE DEF new
  <1>5. /\ job' \in [Reqs -> Job]
        /\ job'[q].pc = pc /\ job'[q].key = k
        /\ \A x \in Reqs : x # q => /\ job'[x].pc = job[x].pc
                                    /\ job'[x].key = job[x].key
                                    /\ job'[x].row = job[x].row
                                    /\ job[x].overtaken => job'[x].overtaken
                                    /\ job[x].pc = "set" /\ job[x].key = k => job'[x].overtaken
    BY <1>1, <1>2, OvertakeJobs DEF CacheInv
  <1>6. \A c \in Keys : row'[c] = IF c = k THEN new ELSE row[c]
    BY <1>2 DEF CacheInv, TypeOK
  <1>7. TypeOK'
    BY <1>2, <1>4, <1>5, <1>6 DEF CacheInv, TypeOK
  <1>8. LoadsAreTracked'
    <2> SUFFICES ASSUME NEW x \in Reqs, At(x, "set")'
                 PROVE  job'[x].row # NoRow /\ (job'[x].row # row'[job'[x].key] => job'[x].overtaken)
      BY DEF LoadsAreTracked
    <2>1. x # q /\ At(x, "set") /\ job[x].key \in Keys
      BY <1>5 DEF CacheInv, TypeOK, At, Job
    <2> QED BY <2>1, <1>5, <1>6 DEF CacheInv, LoadsAreTracked, At
  <1>9. WritersHaveARow'
    BY <1>5 DEF CacheInv, WritersHaveARow, At
  <1>10. ASSUME NEW c \in Keys, Stale(c)'
         PROVE  c \in excused' \/ \E x \in Reqs : At(x, "del")' /\ job'[x].key = c
    <2>1. CASE c = k
      <3>1. entry[k] # Miss
        BY <2>1, <1>10 DEF Stale
      <3>2. CASE pc = "del"
        BY <2>1, <3>2, <1>5 DEF At
      <3>3. CASE pc = "unheard"
        BY <2>1, <3>1, <3>3
      <3> QED BY <3>2, <3>3
    <2>2. CASE c # k
      <3>1. Stale(c)
        BY <2>2, <1>6, <1>10 DEF Stale
      <3>2. CASE c \in excused
        BY <3>2
      <3>3. CASE \E x \in Reqs : At(x, "del") /\ job[x].key = c
        BY <3>3, <1>5, <1>1 DEF At
      <3> QED BY <3>1, <3>2, <3>3 DEF CacheInv, StaleRowsAreExplained
    <2> QED BY <2>1, <2>2
  <1>11. StaleRowsAreExplained'
    BY <1>10 DEF StaleRowsAreExplained
  <1> QED BY <1>7, <1>8, <1>9, <1>11 DEF CacheInv

\* The write of a row that is gone fails, and one that throws may have taken effect.
LEMMA WriteKeeps ==
  ASSUME NoneAssumption, CacheInv, NEW q \in Reqs, Write(q) \/ WriteUnheard(q)
  PROVE  CacheInv'
  <1>1. job[q].key \in Keys
    BY DEF CacheInv, TypeOK, Job
  <1>2. CASE Write(q) /\ ~Found(q)
    <2>1. Goto(q, "failed") /\ UNCHANGED <<row, ids, entry, changed, excused>> /\ At(q, "write")
      BY <1>2 DEF Write
    <2>2. job' \in [Reqs -> Job] /\ job'[q].pc = "failed" /\ \A x \in Reqs \ {q} : job'[x] = job[x]
      BY <2>1, GotoJobs DEF CacheInv, PCs
    <2>3. TypeOK'
      BY <2>1, <2>2 DEF CacheInv, TypeOK
    <2>4. LoadsAreTracked' /\ WritersHaveARow'
      BY <2>1, <2>2 DEF CacheInv, LoadsAreTracked, WritersHaveARow, At
    <2>5. StaleRowsAreExplained'
      BY <2>1, <2>2 DEF CacheInv, StaleRowsAreExplained, Stale, At
    <2> QED BY <2>3, <2>4, <2>5 DEF CacheInv
  <1>3. CASE Write(q) /\ Found(q)
    <2>1. /\ At(q, "write") /\ Change(q, "del")
          /\ UNCHANGED <<ids, entry>> /\ excused' = excused
      BY <1>3 DEF Write
    <2>2. excused' \in SUBSET Keys
      BY <2>1 DEF CacheInv, TypeOK
    <2> QED BY <1>3, <2>1, <2>2, ChangeKeeps
  <1>4. CASE WriteUnheard(q)
    <2>1. /\ At(q, "write") /\ Found(q) /\ Change(q, "unheard") /\ UNCHANGED <<ids, entry>>
          /\ excused' = IF entry[job[q].key] # Miss THEN excused \cup {job[q].key} ELSE excused
      BY <1>4 DEF WriteUnheard
    <2>2. excused' \in SUBSET Keys /\ excused \subseteq excused'
      BY <1>1, <2>1 DEF CacheInv, TypeOK
    <2>3. entry[job[q].key] # Miss => job[q].key \in excused'
      BY <2>1
    <2> QED BY <2>1, <2>2, <2>3, ChangeKeeps
  <1> QED BY <1>2, <1>3, <1>4

\* A step that ends a request, or hands it to nobody, and takes no row with it.
LEMMA EndKeeps ==
  ASSUME CacheInv, NEW q \in Reqs, NEW pc \in {"ok", "failed", "dead"}, Goto(q, pc),
         UNCHANGED <<row, ids, changed>>, entry' \in [Keys -> Stored \cup {Miss}], excused' \in SUBSET Keys,
         \A c \in Keys : entry'[c] # entry[c] => entry'[c] = Miss,
         \A c \in Keys : c \in excused /\ c \notin excused' => entry'[c] = Miss,
         At(q, "del") /\ Stale(job[q].key) => job[q].key \in excused' \/ entry'[job[q].key] = Miss
  PROVE  CacheInv'
  <1>1. job' \in [Reqs -> Job] /\ job'[q].pc = pc /\ \A x \in Reqs \ {q} : job'[x] = job[x]
    BY GotoJobs DEF CacheInv, PCs
  <1>2. TypeOK'
    BY <1>1 DEF CacheInv, TypeOK
  <1>3. LoadsAreTracked' /\ WritersHaveARow'
    BY <1>1 DEF CacheInv, LoadsAreTracked, WritersHaveARow, At
  <1>4. \A c \in Keys : Stale(c)' => Stale(c) /\ entry'[c] # Miss
    BY DEF Stale
  <1>5. ASSUME NEW c \in Keys, Stale(c)'
        PROVE  c \in excused' \/ \E x \in Reqs : At(x, "del")' /\ job'[x].key = c
    <2>1. CASE c \in excused
      BY <2>1, <1>4, <1>5
    <2>2. ASSUME NEW x \in Reqs, At(x, "del"), job[x].key = c
          PROVE  c \in excused' \/ \E y \in Reqs : At(y, "del")' /\ job'[y].key = c
      <3>1. CASE x = q
        BY <3>1, <2>2, <1>4, <1>5
      <3>2. CASE x # q
        BY <3>2, <2>2, <1>1 DEF At
      <3> QED BY <3>1, <3>2
    <2> QED BY <2>1, <2>2, <1>4, <1>5 DEF CacheInv, StaleRowsAreExplained
  <1>6. StaleRowsAreExplained'
    BY <1>5 DEF StaleRowsAreExplained
  <1> QED BY <1>2, <1>3, <1>6 DEF CacheInv

\* DEL, arrived or lost.
LEMMA DelKeeps == ASSUME CacheInv, NEW q \in Reqs, Del(q) PROVE CacheInv'
  <1> DEFINE k == job[q].key
  <1>1. job[q] \in Job /\ k \in Keys
    BY DEF CacheInv, TypeOK, Job
  <1>2. /\ entry' \in [Keys -> Stored \cup {Miss}]
        /\ excused' \in SUBSET Keys
        /\ \A c \in Keys : entry'[c] # entry[c] => entry'[c] = Miss
        /\ \A c \in Keys : c \in excused /\ c \notin excused' => entry'[c] = Miss
        /\ Stale(k) => k \in excused' \/ entry'[k] = Miss
    <2>1. CASE entry' = [entry EXCEPT ![k] = Miss] /\ excused' = excused \ {k}
      BY <2>1, <1>1 DEF CacheInv, TypeOK
    <2>2. CASE excused' = (IF Stale(k) THEN excused \cup {k} ELSE excused) /\ UNCHANGED entry
      BY <2>2, <1>1 DEF CacheInv, TypeOK
    <2> QED BY <2>1, <2>2 DEF Del
  <1>3. Goto(q, "ok") /\ UNCHANGED <<row, ids, changed>>
    BY DEF Del
  <1> QED BY <1>2, <1>3, EndKeeps

\* A statement throws, or the instance dies before or after it.
LEMMA FailKeeps == ASSUME CacheInv, NEW q \in Reqs, Throws(q) \/ Dies(q) PROVE CacheInv'
  <1>1. job[q].key \in Keys
    BY DEF CacheInv, TypeOK, Job
  <1>2. CASE Throws(q)
    BY <1>2, EndKeeps DEF Throws, At, CacheInv, TypeOK
  <1>3. CASE Dies(q)
    <2>1. Goto(q, "dead") /\ UNCHANGED <<row, ids, entry, changed>>
      BY <1>3 DEF Dies
    <2>2. excused' = IF At(q, "del") /\ Stale(job[q].key) THEN excused \cup {job[q].key} ELSE excused
      BY <1>3 DEF Dies
    <2>3. excused' \in SUBSET Keys /\ excused \subseteq excused'
      BY <2>2, <1>1 DEF CacheInv, TypeOK
    <2>4. At(q, "del") /\ Stale(job[q].key) => job[q].key \in excused'
      BY <2>2
    <2>5. entry' \in [Keys -> Stored \cup {Miss}]
      BY <2>1 DEF CacheInv, TypeOK
    <2> QED BY <2>1, <2>3, <2>4, <2>5, EndKeeps
  <1> QED BY <1>2, <1>3

\* Time takes an entry.
LEMMA ExpireKeeps == ASSUME CacheInv, NEW k \in Keys, Expire(k) PROVE CacheInv'
  <1>1. \A c \in Keys : entry'[c] = (IF c = k THEN Miss ELSE entry[c])
    BY DEF CacheInv, TypeOK, Expire
  <1>2. UNCHANGED <<row, ids, job, changed>> /\ excused' = excused \ {k}
    BY DEF Expire
  <1>3. TypeOK'
    BY <1>1, <1>2 DEF CacheInv, TypeOK, Expire
  <1>4. LoadsAreTracked' /\ WritersHaveARow'
    BY <1>2 DEF CacheInv, LoadsAreTracked, WritersHaveARow, At
  <1>5. StaleRowsAreExplained'
    BY <1>1, <1>2 DEF CacheInv, StaleRowsAreExplained, Stale, At
  <1> QED BY <1>3, <1>4, <1>5 DEF CacheInv

\* The first step of a request.
LEMMA AskKeeps == ASSUME NoneAssumption, CacheInv, NEW q \in Reqs, Ask(q) PROVE CacheInv'
  <1>1. PICK k \in Keys : Get(q, k) \/ Check(q, k) \/ \E kind \in {"update", "remove"} : Find(q, k, kind)
    BY DEF Ask
  <1>2. entry[k] # Miss => entry[k] \in Stored \cup {NoRow}
    BY DEF CacheInv, TypeOK
  <1>3. row[k] \in Stored \cup {NoRow}
    BY DEF CacheInv, TypeOK
  <1>4. CASE Get(q, k)
    BY <1>4, <1>2, BeginKeeps DEF Get, Kinds
  <1>5. CASE Check(q, k)
    BY <1>5, BeginKeeps DEF Check, Kinds
  <1>6. ASSUME NEW kind \in {"update", "remove"}, Find(q, k, kind)
        PROVE  CacheInv'
    BY <1>6, <1>3, BeginKeeps DEF Find, Kinds
  <1> QED BY <1>1, <1>4, <1>5, <1>6

LEMMA CacheStep == NoneAssumption /\ CacheInv /\ [Next]_vars => CacheInv'
  <1> SUFFICES ASSUME NoneAssumption, CacheInv, [Next]_vars PROVE CacheInv'
    OBVIOUS
  <1>1. ASSUME NEW q \in Reqs, Ask(q) PROVE CacheInv'
    BY <1>1, AskKeeps
  <1>2. ASSUME NEW q \in Reqs, Step(q) PROVE CacheInv'
    BY <1>2, LoadKeeps, SetKeeps, InsertKeeps, WriteKeeps, DelKeeps, FailKeeps DEF Step
  <1>3. ASSUME NEW q \in Reqs, Dies(q) PROVE CacheInv'
    BY <1>3, FailKeeps
  <1>4. ASSUME NEW k \in Keys, Expire(k) PROVE CacheInv'
    BY <1>4, ExpireKeeps
  <1>5. CASE UNCHANGED vars
    BY <1>5 DEF vars, CacheInv, TypeOK, LoadsAreTracked, WritersHaveARow, StaleRowsAreExplained, Stale, At
  <1> QED BY <1>1, <1>2, <1>3, <1>4, <1>5 DEF Next

\* The types of the table, of the cache and of the requests hold in every run of
\* FeatureFlagsService and RemoteConfigsService, whatever Redis loses.
THEOREM CacheTypes == ASSUME NoneAssumption PROVE Spec => []TypeOK
  <1>1. Init => CacheInv
    BY CacheInit
  <1>2. CacheInv /\ [Next]_vars => CacheInv'
    BY CacheStep
  <1>3. CacheInv => TypeOK
    BY DEF CacheInv
  <1> QED BY <1>1, <1>2, <1>3, PTL DEF Spec

\* However many readers, writers and lost commands there are, findByKey answers with an
\* outdated flag or config only before the writer's DEL, after a DEL that was lost, or after
\* the SET of a reader that a writer overtook.
THEOREM StalenessIsExplained == ASSUME NoneAssumption PROVE Spec => []StaleRowsAreExplained
  <1>1. Init => CacheInv
    BY CacheInit
  <1>2. CacheInv /\ [Next]_vars => CacheInv'
    BY CacheStep
  <1>3. CacheInv => StaleRowsAreExplained
    BY DEF CacheInv
  <1> QED BY <1>1, <1>2, <1>3, PTL DEF Spec
-----------------------------------------------------------------------------
(* Where outdated copies come from. *)

\* A step that puts nothing into an entry but what a reader held, and lets no reader hold
\* anything but the row as it is, leaves as copies of a key only what it had or was.
LEMMA CopiesComeFrom ==
  ASSUME NoneAssumption, CacheInv, CacheInv', NEW k \in Keys,
         entry'[k] \in {entry[k], Miss} \cup Held(k),
         \A q \in Reqs : At(q, "set")' /\ job'[q].key = k =>
           job'[q].row = row[k] \/ job'[q].row \in Held(k)
  PROVE  Outdated(k)' \subseteq (Outdated(k) \cup ({row[k]} \ {NoRow})) \ {row'[k]}
  <1> SUFFICES ASSUME NEW c \in Outdated(k)'
               PROVE  c \in Outdated(k) \cup ({row[k]} \ {NoRow}) /\ c # row'[k]
    OBVIOUS
  <1>1. c # Miss /\ c # row'[k] /\ (c = entry'[k] \/ c \in Held(k)')
    BY DEF Outdated
  <1>2. c \in Held(k)' => c = row[k] \/ c \in Held(k)
    BY DEF Held
  <1>3. c = row[k] \/ c = entry[k] \/ c \in Held(k)
    BY <1>1, <1>2
  <1>4. entry[k] # NoRow /\ NoRow \notin Held(k)
    BY DEF CacheInv, TypeOK, NoneAssumption, LoadsAreTracked, Held
  <1>5. c \in {entry[k]} \cup Held(k) => c # NoRow
    BY <1>4
  <1>6. CASE c = row[k]
    <2>1. c # NoRow
      <3>1. CASE c = entry'[k]
        BY <3>1, <1>1, <1>4
      <3>2. CASE c \in Held(k)'
        BY <3>2 DEF CacheInv, LoadsAreTracked, Held
      <3> QED BY <3>1, <3>2, <1>1
    <2> QED BY <2>1, <1>6, <1>1
  <1>7. CASE c # row[k]
    BY <1>1, <1>3, <1>7 DEF Outdated
  <1> QED BY <1>6, <1>7

\* A step that moves one request on, and not to a SET, or leaves all as they are.
LEMMA NobodyLoads ==
  ASSUME CacheInv, NEW q \in Reqs, NEW k \in Keys,
         job'[q].pc # "set", \A x \in Reqs \ {q} : job'[x] = job[x]
  PROVE  \A x \in Reqs : At(x, "set")' /\ job'[x].key = k => job'[x].row \in Held(k)
  BY DEF At, Held

LEMMA CopiesAreLeft ==
  ASSUME NoneAssumption, CacheInv, CacheInv', [Next]_vars, NEW k \in Keys
  PROVE  Outdated(k)' \subseteq (Outdated(k) \cup ({row[k]} \ {NoRow})) \ {row'[k]}
  <1> DEFINE Fine == /\ entry'[k] \in {entry[k], Miss} \cup Held(k)
                     /\ \A q \in Reqs : At(q, "set")' /\ job'[q].key = k =>
                          job'[q].row = row[k] \/ job'[q].row \in Held(k)
  <1>0. \A q \in Reqs : job[q] \in Job /\ job[q].key \in Keys
    BY DEF CacheInv, TypeOK, Job
  <1>1. ASSUME NEW q \in Reqs, Ask(q) PROVE Fine
    <2>1. PICK pc \in {"ok", "load", "insert", "failed", "write"}, kind \in Kinds, c \in Keys,
               found \in Stored \cup {NoRow} : Begin(q, pc, kind, c, found)
      <3>1. PICK c \in Keys : Get(q, c) \/ Check(q, c) \/ \E kind \in {"update", "remove"} : Find(q, c, kind)
        BY <1>1 DEF Ask
      <3>2. entry[c] # Miss => entry[c] \in Stored \cup {NoRow}
        BY DEF CacheInv, TypeOK
      <3>3. row[c] \in Stored \cup {NoRow}
        BY DEF CacheInv, TypeOK
      <3> QED BY <3>1, <3>2, <3>3 DEF Get, Check, Find, Kinds
    <2>2. job'[q].pc # "set" /\ \A x \in Reqs \ {q} : job'[x] = job[x]
      BY <2>1 DEF Begin, CacheInv, TypeOK
    <2>3. entry' = entry
      BY <2>1 DEF Begin
    <2> QED BY <2>2, <2>3, NobodyLoads
  <1>2. ASSUME NEW q \in Reqs, Load(q) PROVE Fine
    <2>1. PICK pc \in {"failed", "set"} :
            job' = [job EXCEPT ![q].pc = pc, ![q].row = row[job[q].key]]
      BY <1>2 DEF Load
    <2>2. row[job[q].key] \in Stored \cup {NoRow}
      BY <1>0 DEF CacheInv, TypeOK
    <2>3. /\ job'[q].row = row[job[q].key] /\ job'[q].key = job[q].key
          /\ \A x \in Reqs \ {q} : job'[x] = job[x]
      BY <2>1, <2>2, NotedJobs, ZenonT(60) DEF CacheInv, PCs
    <2>4. entry' = entry
      BY <1>2 DEF Load
    <2> QED BY <2>3, <2>4 DEF At, Held
  <1>3. ASSUME NEW q \in Reqs, NEW pc \in {"ok", "failed", "unheard", "dead", "del"}, Goto(q, pc),
               entry' = entry \/ (\E c \in Keys : entry' = [entry EXCEPT ![c] = Miss])
                 \/ (At(q, "set") /\ entry' = [entry EXCEPT ![job[q].key] = job[q].row])
        PROVE  Fine
    <2>1. job'[q].pc # "set" /\ \A x \in Reqs \ {q} : job'[x] = job[x]
      BY <1>3, GotoJobs DEF CacheInv, PCs
    <2>2. entry'[k] \in {entry[k], Miss} \cup Held(k)
      BY <1>3, <1>0 DEF CacheInv, TypeOK, Held
    <2> QED BY <2>1, <2>2, NobodyLoads
  <1>4. ASSUME NEW q \in Reqs, Write(q) \/ WriteUnheard(q) PROVE Fine
    <2>1. At(q, "write") /\ entry' = entry
      BY <1>4 DEF Write, WriteUnheard
    <2>2. CASE Goto(q, "failed")
      BY <2>1, <2>2, <1>3
    <2>3. ASSUME NEW pc \in {"del", "unheard"}, job' = Overtake(job[q].key, [job EXCEPT ![q].pc = pc])
          PROVE  Fine
      <3>1. /\ job'[q].pc = pc
            /\ \A x \in Reqs : x # q => job'[x].pc = job[x].pc /\ job'[x].key = job[x].key /\ job'[x].row = job[x].row
        BY <2>3, <1>0, OvertakeJobs DEF CacheInv
      <3> QED BY <2>1, <3>1 DEF At, Held
    <2> QED BY <1>4, <2>2, <2>3 DEF Write, WriteUnheard, Change
  <1>5. ASSUME NEW q \in Reqs, Step(q) PROVE Fine
    <2>1. CASE Set(q)
      BY <2>1, <1>3 DEF Set
    <2>2. CASE Insert(q)
      BY <2>2, <1>3 DEF Insert
    <2>3. CASE Del(q)
      BY <2>3, <1>0, <1>3 DEF Del
    <2>4. CASE Throws(q)
      BY <2>4, <1>3 DEF Throws
    <2> QED BY <1>2, <1>4, <1>5, <2>1, <2>2, <2>3, <2>4 DEF Step
  <1>6. ASSUME NEW q \in Reqs, Dies(q) PROVE Fine
    BY <1>3, <1>6 DEF Dies
  <1>7. ASSUME NEW c \in Keys, Expire(c) PROVE Fine
    BY <1>7 DEF Expire, CacheInv, TypeOK, At, Held
  <1>8. ASSUME UNCHANGED vars PROVE Fine
    <2>1. entry' = entry /\ job' = job
      BY <1>8 DEF vars
    <2>2. \A q \in Reqs : At(q, "set")' /\ job'[q].key = k => job'[q].row \in Held(k)
      BY <2>1 DEF At, Held
    <2>3. entry'[k] \in {entry[k], Miss} \cup Held(k)
      BY <2>1
    <2> QED BY <2>2, <2>3
  <1>9. Fine
    BY <1>1, <1>5, <1>6, <1>7, <1>8 DEF Next
  <1> HIDE DEF Fine
  <1>10. Fine => Outdated(k)' \subseteq (Outdated(k) \cup ({row[k]} \ {NoRow})) \ {row'[k]}
    BY CopiesComeFrom DEF Fine
  <1> QED BY <1>9, <1>10
=============================================================================
