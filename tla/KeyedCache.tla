---------------------------- MODULE KeyedCache ----------------------------
(***************************************************************************)
(* Feature flags and remote configs: rows found by a unique key through a  *)
(* Redis entry of that key.  Both services are the same algorithm:         *)
(* findByKey reads through, every change of a row deletes the entry after  *)
(* the row was written.  Commands to Redis fail one by one, and silently.  *)
(* A request is handled once; its steps are its statements.                *)
(***************************************************************************)
EXTENDS Naturals

CONSTANTS Keys,     \* keys of flags and of configs
          Reqs,     \* requests
          NoRow, Miss

Stored == [id : Nat, ver : Nat]
\* Assumed of the constants.
NoneAssumption == Keys # {} /\ NoRow # Miss /\ NoRow \notin Stored /\ Miss \notin Stored

VARIABLES row,      \* row[k]: the row with key k, a row id and how often it was edited
          ids,      \* row ids given out
          entry,    \* entry[k]: the row cached in Redis
          job,      \* requests
          changed,  \* history: requests that changed a row
          excused   \* history: keys whose outdated entry no DEL will reach

vars == <<row, ids, entry, job, changed, excused>>

Kinds == {"read", "create", "update", "remove"}
\* unheard: failed like "failed", but at a statement that took effect.
PCs == {"new", "load", "set", "insert", "write", "del", "ok", "failed", "unheard", "dead"}
\* row: what a read found; overtaken, a history flag: it has been changed since.
Job == [pc : PCs, kind : Kinds, key : Keys, row : Stored \cup {NoRow}, overtaken : BOOLEAN]
New == [pc |-> "new", kind |-> "read", key |-> CHOOSE k \in Keys : TRUE, row |-> NoRow, overtaken |-> FALSE]

TypeOK ==
  /\ row \in [Keys -> Stored \cup {NoRow}]
  /\ ids \in Nat
  /\ entry \in [Keys -> Stored \cup {Miss}]
  /\ job \in [Reqs -> Job]
  /\ changed \in SUBSET Reqs
  /\ excused \in SUBSET Keys
  /\ \A k \in Keys : row[k] # NoRow => row[k].id < ids

Init ==
  /\ row = [k \in Keys |-> [id |-> 0, ver |-> 0]]
  /\ ids = 1
  /\ entry = [k \in Keys |-> Miss]
  /\ job = [q \in Reqs |-> New]
  /\ changed = {}
  /\ excused = {}

At(q, pc) == job[q].pc = pc
Goto(q, pc) == job' = [job EXCEPT ![q].pc = pc]
Begin(q, pc, kind, k, found) ==
  /\ At(q, "new")
  /\ job' = [job EXCEPT ![q] = [pc |-> pc, kind |-> kind, key |-> k, row |-> found, overtaken |-> FALSE]]
  /\ UNCHANGED <<row, ids, entry, changed, excused>>
Stale(k) == entry[k] # Miss /\ entry[k] # row[k]
\* Rows of key k other than the current one that are cached, or in a reader's hands.
Held(k) == {job[q].row : q \in {x \in Reqs : At(x, "set") /\ job[x].key = k}}
Outdated(k) == ({entry[k]} \cup Held(k)) \ {Miss, row[k]}
-----------------------------------------------------------------------------
(* findByKey *)

\* GET: a hit is the answer, a miss or an error sends the reader to the table.
Get(q, k) == \/ entry[k] # Miss /\ Begin(q, "ok", "read", k, entry[k])
             \/ Begin(q, "load", "read", k, NoRow)

\* Mutant: the SET of an absent row, as a negative entry would be.
LoadAbsent(q) ==
  LET k == job[q].key IN
  /\ At(q, "load")
  /\ job' = [job EXCEPT ![q].pc = "set", ![q].row = row[k]]
  /\ UNCHANGED <<row, ids, entry, changed, excused>>

Load(q) ==
  LET k == job[q].key IN
  /\ At(q, "load")
  /\ job' = [job EXCEPT ![q].pc = IF row[k] = NoRow THEN "failed" ELSE "set", ![q].row = row[k]]
  /\ UNCHANGED <<row, ids, entry, changed, excused>>

\* SET with its TTL arrives, or is lost.
Set(q) ==
  LET k == job[q].key IN
  /\ At(q, "set")
  /\ Goto(q, "ok")
  /\ \/ /\ entry' = [entry EXCEPT ![k] = job[q].row]
        /\ excused' = IF job[q].row = row[k] THEN excused \ {k}
                      ELSE IF job[q].overtaken THEN excused \cup {k} ELSE excused
     \/ UNCHANGED <<entry, excused>>
  /\ UNCHANGED <<row, ids, changed>>
-----------------------------------------------------------------------------
(* create, update (and toggle), remove *)

\* Is the key taken?
Check(q, k) == Begin(q, IF row[k] = NoRow THEN "insert" ELSE "failed", "create", k, NoRow)

\* The unique index decides.  A row that was created may not be heard of: the statement throws.
Insert(q) ==
  LET k == job[q].key IN
  /\ At(q, "insert")
  /\ IF row[k] = NoRow
     THEN /\ row' = [row EXCEPT ![k] = [id |-> ids, ver |-> 0]]
          /\ ids' = ids + 1
          /\ changed' = changed \cup {q}
          /\ Goto(q, "ok") \/ Goto(q, "unheard")
     ELSE /\ Goto(q, "failed")
          /\ UNCHANGED <<row, ids, changed>>
  /\ UNCHANGED <<entry, excused>>

\* The row is looked up by its id, which the caller took from a list.
Find(q, k, kind) ==
  \/ row[k] # NoRow /\ Begin(q, "write", kind, k, row[k])
  \/ Begin(q, "failed", kind, k, NoRow)

\* Readers of k that hold a row have been overtaken by a change.
Overtake(k, j) ==
  [x \in Reqs |-> IF j[x].pc = "set" /\ j[x].key = k THEN [j[x] EXCEPT !.overtaken = TRUE] ELSE j[x]]

Edited(r) == [r EXCEPT !.ver = @ + 1]

\* Another request may have deleted the row since it was found.
Found(q) == LET r == row[job[q].key] IN r # NoRow /\ r.id = job[q].row.id

\* The row found is edited or deleted, and the request goes on at pc.
Change(q, pc) ==
  LET k == job[q].key IN
  /\ row' = [row EXCEPT ![k] = IF job[q].kind = "remove" THEN NoRow ELSE Edited(row[k])]
  /\ job' = Overtake(k, [job EXCEPT ![q].pc = pc])
  /\ changed' = changed \cup {q}

\* Mutant: a deleted row is not taken out of the cache.
WriteKeepingEntry(q) ==
  /\ At(q, "write")
  /\ IF Found(q) THEN Change(q, IF job[q].kind = "remove" THEN "ok" ELSE "del")
     ELSE Goto(q, "failed") /\ UNCHANGED <<row, changed>>
  /\ UNCHANGED <<ids, entry, excused>>

\* Update or delete by id.
Write(q) ==
  /\ At(q, "write")
  /\ IF Found(q) THEN Change(q, "del")
     ELSE Goto(q, "failed") /\ UNCHANGED <<row, changed>>
  /\ UNCHANGED <<ids, entry, excused>>

\* The statement takes effect but its answer is lost: it throws, and no DEL is sent.
WriteUnheard(q) ==
  LET k == job[q].key IN
  /\ At(q, "write") /\ Found(q)
  /\ Change(q, "unheard")
  /\ excused' = IF entry[k] # Miss THEN excused \cup {k} ELSE excused
  /\ UNCHANGED <<ids, entry>>

\* Mutant: an error of Redis is not swallowed.
DelThrows(q) ==
  LET k == job[q].key IN
  /\ At(q, "del")
  /\ \/ Goto(q, "ok") /\ entry' = [entry EXCEPT ![k] = Miss] /\ excused' = excused \ {k}
     \/ Goto(q, "failed") /\ excused' = (IF Stale(k) THEN excused \cup {k} ELSE excused) /\ UNCHANGED entry
  /\ UNCHANGED <<row, ids, changed>>

\* Mutant: what the writer has found is cached instead.
DelCachesFound(q) ==
  LET k == job[q].key IN
  /\ At(q, "del")
  /\ Goto(q, "ok")
  /\ \/ entry' = [entry EXCEPT ![k] = job[q].row] /\ excused' = excused \cup {k}
     \/ excused' = (IF Stale(k) THEN excused \cup {k} ELSE excused) /\ UNCHANGED entry
  /\ UNCHANGED <<row, ids, changed>>

\* DEL arrives, or is lost; the caller is told of success either way.
Del(q) ==
  LET k == job[q].key IN
  /\ At(q, "del")
  /\ Goto(q, "ok")
  /\ \/ entry' = [entry EXCEPT ![k] = Miss] /\ excused' = excused \ {k}
     \/ excused' = (IF Stale(k) THEN excused \cup {k} ELSE excused) /\ UNCHANGED entry
  /\ UNCHANGED <<row, ids, changed>>
-----------------------------------------------------------------------------
\* A statement throws, and did nothing.
Throws(q) ==
  /\ job[q].pc \in {"load", "insert", "write"}
  /\ Goto(q, "failed")
  /\ UNCHANGED <<row, ids, entry, changed, excused>>

\* The instance dies.
Dies(q) ==
  /\ job[q].pc \in {"load", "set", "insert", "write", "del"}
  /\ Goto(q, "dead")
  /\ excused' = IF At(q, "del") /\ Stale(job[q].key) THEN excused \cup {job[q].key} ELSE excused
  /\ UNCHANGED <<row, ids, entry, changed>>

\* The TTL of an entry.
Expire(k) ==
  /\ entry[k] # Miss
  /\ entry' = [entry EXCEPT ![k] = Miss]
  /\ excused' = excused \ {k}
  /\ UNCHANGED <<row, ids, job, changed>>

Ask(q) == \E k \in Keys : Get(q, k) \/ Check(q, k) \/ \E kind \in {"update", "remove"} : Find(q, k, kind)
Step(q) == Load(q) \/ Set(q) \/ Insert(q) \/ Write(q) \/ WriteUnheard(q) \/ Del(q) \/ Throws(q)

Next == \/ \E q \in Reqs : Ask(q) \/ Step(q) \/ Dies(q)
        \/ \E k \in Keys : Expire(k)

Spec == Init /\ [][Next]_vars
-----------------------------------------------------------------------------
\* A flag or config is served from an outdated entry only while the request that changed it
\* has still to send its DEL, or if a DEL was lost or never sent, or a reader put back what it
\* had loaded before the change.  Creating a row needs no DEL: its absence is never cached.
StaleRowsAreExplained ==
  \A k \in Keys : Stale(k) => k \in excused \/ \E q \in Reqs : At(q, "del") /\ job[q].key = k
=============================================================================
