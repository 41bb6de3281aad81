--------------------------- MODULE Announcements ---------------------------
(***************************************************************************)
(* Announcements and their status.  Every operation but create looks the   *)
(* row up, decides, and then writes it by id alone: what it decided on may *)
(* be out of date, and the row gone.  A statement that took effect throws  *)
(* when its answer is lost.  A request is handled once.                    *)
(***************************************************************************)
CONSTANTS Rows,   \* announcements, created and to be created
          Drafts, \* those created before
          Reqs    \* requests

\* Assumed of the constants.
RowsAssumption == Rows # {}

VARIABLES status,  \* "none" for no row yet, "gone" for a deleted one
          job,
          changed  \* history: requests that changed a row

vars == <<status, job, changed>>

Statuses == {"DRAFT", "PUBLISHED", "ARCHIVED"}
Kinds == {"create", "update", "publish", "unpublish", "archive", "remove"}
\* unheard: failed like "failed", but at a statement that took effect.
Job == [pc : {"new", "write", "ok", "failed", "unheard", "dead"}, kind : Kinds, of : Rows]

TypeOK ==
  /\ status \in [Rows -> Statuses \cup {"none", "gone"}]
  /\ job \in [Reqs -> Job]
  /\ changed \in SUBSET Reqs

Init ==
  /\ status = [a \in Rows |-> IF a \in Drafts THEN "DRAFT" ELSE "none"]
  /\ job = [q \in Reqs |-> [pc |-> "new", kind |-> "update", of |-> CHOOSE a \in Rows : TRUE]]
  /\ changed = {}

At(q, pc) == job[q].pc = pc
Goto(q, pc) == job' = [job EXCEPT ![q].pc = pc]
Existing == {a \in Rows : status[a] \in Statuses}

\* What each operation asks of the row it finds.
Allowed(kind, s) ==
  /\ s \in Statuses
  /\ kind = "publish" => s # "PUBLISHED"
  /\ kind = "unpublish" => s = "PUBLISHED"

Find(q, a, kind) ==
  /\ At(q, "new") /\ status[a] # "none" /\ kind # "create"
  /\ job' = [job EXCEPT ![q] = [pc |-> IF Allowed(kind, status[a]) THEN "write" ELSE "failed",
                                kind |-> kind, of |-> a]]
  /\ UNCHANGED <<status, changed>>

After(kind, s) == CASE kind = "publish" -> "PUBLISHED"
                    [] kind \in {"unpublish", "create"} -> "DRAFT"
                    [] kind = "archive" -> "ARCHIVED"
                    [] kind = "remove" -> "gone"
                    [] kind = "update" -> s

\* A row deleted meanwhile makes the statement throw.
Write(q) ==
  LET a == job[q].of IN
  /\ At(q, "write")
  /\ IF a \in Existing
     THEN /\ status' = [status EXCEPT ![a] = After(job[q].kind, @)]
          /\ changed' = changed \cup {q}
          /\ Goto(q, "ok") \/ Goto(q, "unheard")
     ELSE Goto(q, "failed") /\ UNCHANGED <<status, changed>>

\* create is a single statement.
Create(q, a) ==
  LET Ends(pc) == job' = [job EXCEPT ![q] = [pc |-> pc, kind |-> "create", of |-> a]] IN
  /\ At(q, "new") /\ status[a] = "none"
  /\ \/ /\ status' = [status EXCEPT ![a] = "DRAFT"]
        /\ changed' = changed \cup {q}
        /\ Ends("ok") \/ Ends("unheard")
     \/ Ends("failed") /\ UNCHANGED <<status, changed>>

\* The statement throws, and did nothing.
Throws(q) == At(q, "write") /\ Goto(q, "failed") /\ UNCHANGED <<status, changed>>
Dies(q) == At(q, "write") /\ Goto(q, "dead") /\ UNCHANGED <<status, changed>>

Ask(q) == \E a \in Rows : Create(q, a) \/ \E kind \in Kinds : Find(q, a, kind)
Step(q) == Write(q) \/ Throws(q)

Next == \E q \in Reqs : Ask(q) \/ Step(q) \/ Dies(q)

Spec == Init /\ [][Next]_vars
=============================================================================
