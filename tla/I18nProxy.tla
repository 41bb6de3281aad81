----------------------------- MODULE I18nProxy -----------------------------
(***************************************************************************)
(* The translations: I18nService proxies an upstream that is slow and      *)
(* fails.  Its list is served from a durable copy in Redis, refreshed in   *)
(* the background once a short-lived freshness marker is gone.  Edits go   *)
(* to the upstream, are repeated after a time-out although the first try   *)
(* may have been carried out or still be, and then delete copy and marker. *)
(***************************************************************************)
EXTENDS Naturals

CONSTANTS Reqs,      \* requests, each handled once
          Retries,   \* UPSTREAM_RETRIES
          Miss

\* Assumed of the constants.
ProxyAssumption == Retries \in Nat /\ Miss \notin Nat

VARIABLES upstream,  \* external: how often the translations were changed
          late,      \* external: tries of an edit that timed out here and are still under way there
          list,      \* i18n:config:list, the state of the upstream it shows
          fresh,     \* i18n:config:list:fresh
          job,       \* requests
          refresh,   \* refreshList on behalf of a request, in the background or not
          applied,   \* history: how often the edit of a request was carried out
          excused    \* history: nothing will delete the outdated copy

vars == <<upstream, late, list, fresh, job, refresh, applied, excused>>

\* marker: has the copy, asks for the marker; wait: for its refresh; send: an edit.
PCs == {"new", "marker", "wait", "send", "del", "ok", "failed", "dead"}
NoRefresh == [pc |-> "none", tries |-> 0, got |-> 0, overtaken |-> FALSE]

TypeOK ==
  /\ upstream \in Nat
  /\ late \in [Reqs -> Nat]
  /\ list \in Nat \cup {Miss} /\ fresh \in BOOLEAN
  /\ job \in [Reqs -> [pc : PCs, kind : {"list", "edit"}, tries : 0 .. Retries]]
  /\ refresh \in [Reqs -> [pc : {"none", "fetch", "list", "marker"}, tries : 0 .. Retries,
                           got : Nat, overtaken : BOOLEAN]]
  /\ applied \in [Reqs -> Nat]
  /\ excused \in BOOLEAN
  /\ \A q \in Reqs : job[q].pc = "wait" => refresh[q].pc # "none"

Init ==
  /\ upstream = 0 /\ late = [q \in Reqs |-> 0]
  /\ list = Miss /\ fresh = FALSE
  /\ job = [q \in Reqs |-> [pc |-> "new", kind |-> "list", tries |-> 0]]
  /\ refresh = [q \in Reqs |-> NoRefresh]
  /\ applied = [q \in Reqs |-> 0]
  /\ excused = FALSE

At(q, pc) == job[q].pc = pc
Goto(q, pc) == job' = [job EXCEPT ![q].pc = pc]
Stale == list # Miss /\ list # upstream
\* Lists other than the current one that are in Redis, or with a refresh.
Held == {refresh[q].got : q \in {x \in Reqs : refresh[x].pc = "list"}}
Outdated == ({list} \cup Held) \ {Miss, upstream}
redis == <<list, fresh>>
outside == <<upstream, late>>
-----------------------------------------------------------------------------
(* list *)

Begin(q, pc, kind) == job' = [job EXCEPT ![q] = [@ EXCEPT !.pc = pc, !.kind = kind]]
StartRefresh(q) == refresh' = [refresh EXCEPT ![q] = [NoRefresh EXCEPT !.pc = "fetch"]]

\* GET of the copy; a miss or an error makes the request wait for the upstream.
GetList(q) ==
  /\ At(q, "new")
  /\ \/ list # Miss /\ Begin(q, "marker", "list") /\ UNCHANGED refresh
     \/ Begin(q, "wait", "list") /\ StartRefresh(q)
  /\ UNCHANGED <<outside, redis, applied, excused>>

\* GET of the marker: without it the copy is served too, and refreshed in the background.
GetMarker(q) ==
  /\ At(q, "marker")
  /\ Goto(q, "ok")
  /\ (fresh /\ UNCHANGED refresh) \/ StartRefresh(q)
  /\ UNCHANGED <<outside, redis, applied, excused>>

\* refreshList is over; whoever waits for it is answered.
EndRefresh(q, pc) ==
  /\ refresh' = [refresh EXCEPT ![q] = NoRefresh]
  /\ IF At(q, "wait") THEN Goto(q, pc) ELSE UNCHANGED job

Fetch(q) ==
  /\ refresh[q].pc = "fetch"
  /\ refresh' = [refresh EXCEPT ![q].pc = "list", ![q].got = upstream]
  /\ UNCHANGED <<outside, redis, job, applied, excused>>

\* The network fails or the time is up: once more, or no more.
FetchFails(q) ==
  /\ refresh[q].pc = "fetch"
  /\ IF refresh[q].tries < Retries
     THEN refresh' = [refresh EXCEPT ![q].tries = @ + 1] /\ UNCHANGED job
     ELSE EndRefresh(q, "failed")
  /\ UNCHANGED <<outside, redis, applied, excused>>

\* The upstream answers with an error: no second try.
FetchRefused(q) ==
  /\ refresh[q].pc = "fetch"
  /\ EndRefresh(q, "failed")
  /\ UNCHANGED <<outside, redis, applied, excused>>

\* The two SETs; each may be lost.
SetList(q) ==
  LET v == refresh[q].got IN
  /\ refresh[q].pc = "list"
  /\ refresh' = [refresh EXCEPT ![q].pc = "marker"]
  /\ \/ /\ list' = v
        /\ excused' = (v # upstream /\ (excused \/ refresh[q].overtaken))
     \/ UNCHANGED <<list, excused>>
  /\ UNCHANGED <<outside, fresh, job, applied>>

SetMarker(q) ==
  /\ refresh[q].pc = "marker"
  /\ fresh' \in {TRUE, fresh}
  /\ EndRefresh(q, "ok")
  /\ UNCHANGED <<outside, list, applied, excused>>
-----------------------------------------------------------------------------
(* add, update, batchImport: a try ends in one of six ways. *)

AskEdit(q) ==
  /\ At(q, "new")
  /\ Begin(q, "send", "edit")
  /\ UNCHANGED <<outside, redis, refresh, applied, excused>>

\* The upstream changes: lists fetched before show what was.
Carry(q) ==
  /\ upstream' = upstream + 1
  /\ applied' = [applied EXCEPT ![q] = @ + 1]
  /\ refresh' = [x \in Reqs |-> IF refresh[x].pc = "list" THEN [refresh[x] EXCEPT !.overtaken = TRUE]
                                ELSE refresh[x]]

\* An edit fails without an invalidation, whatever the upstream made of it.
GivenUp(q) == excused' = (excused \/ (Stale' /\ applied'[q] > 0))

NextTry(q) ==
  IF job[q].tries < Retries
  THEN job' = [job EXCEPT ![q].tries = @ + 1] /\ UNCHANGED excused
  ELSE Goto(q, "failed") /\ GivenUp(q)

Carried(q) ==
  /\ At(q, "send")
  /\ Carry(q) /\ Goto(q, "del")
  /\ UNCHANGED <<late, redis, excused>>

\* The answer cannot be read, which is not tried again.
CarriedUnreadably(q) ==
  /\ At(q, "send")
  /\ UNCHANGED <<late, redis>>
  /\ Carry(q) /\ Goto(q, "failed") /\ GivenUp(q)

\* The answer is lost or too late.
CarriedUnheard(q) ==
  /\ At(q, "send")
  /\ UNCHANGED <<late, redis>>
  /\ Carry(q) /\ NextTry(q)

\* Mutant: a try too many.
SendFailsOnceMore(q) ==
  /\ At(q, "send")
  /\ UNCHANGED <<upstream, redis, refresh, applied>>
  /\ late' \in {late, [late EXCEPT ![q] = @ + 1]}
  /\ IF job[q].tries < Retries
     THEN \E n \in {0, 1} : job' = [job EXCEPT ![q].tries = @ + n] /\ UNCHANGED excused
     ELSE Goto(q, "failed") /\ GivenUp(q)

\* The try is lost, or timed out here with the upstream still to carry it out.
SendFails(q) ==
  /\ At(q, "send")
  /\ UNCHANGED <<upstream, redis, refresh, applied>>
  /\ late' \in {late, [late EXCEPT ![q] = @ + 1]}
  /\ NextTry(q)

Refused(q) ==
  /\ At(q, "send")
  /\ UNCHANGED <<outside, redis, refresh, applied>>
  /\ Goto(q, "failed") /\ GivenUp(q)

\* External: a try given up here is carried out after all.
CarryLate(q) ==
  /\ late[q] > 0
  /\ late' = [late EXCEPT ![q] = @ - 1]
  /\ Carry(q) /\ UNCHANGED <<redis, job>>
  /\ excused' = (excused \/ (Stale' /\ job[q].pc \in {"ok", "failed", "dead"}))

\* Mutant: only the marker is deleted.
InvalidateMarker(q) ==
  /\ At(q, "del")
  /\ Goto(q, "ok")
  /\ \/ fresh' = FALSE
     \/ UNCHANGED fresh
  /\ UNCHANGED <<outside, list, excused, refresh, applied>>

\* invalidateCache: one DEL of both keys, which may be lost.
Invalidate(q) ==
  /\ At(q, "del")
  /\ Goto(q, "ok")
  /\ \/ list' = Miss /\ fresh' = FALSE /\ excused' = FALSE
     \/ excused' = (excused \/ Stale) /\ UNCHANGED redis
  /\ UNCHANGED <<outside, refresh, applied>>
-----------------------------------------------------------------------------
\* The instance dies, and with it the request and its refresh.
Dies(q) ==
  /\ job[q].pc \in {"marker", "wait", "send", "del"} \/ refresh[q].pc # "none"
  /\ job' = [job EXCEPT ![q].pc = IF @ \in {"ok", "failed"} THEN @ ELSE "dead"]
  /\ refresh' = [refresh EXCEPT ![q] = NoRefresh]
  /\ excused' = (excused \/ (Stale /\ applied[q] > 0))
  /\ UNCHANGED <<outside, redis, applied>>

\* Five minutes, or a day.
MarkerExpires == fresh /\ fresh' = FALSE /\ UNCHANGED <<outside, list, job, refresh, applied, excused>>
ListExpires ==
  /\ list # Miss /\ list' = Miss
  /\ excused' = FALSE
  /\ UNCHANGED <<outside, fresh, job, refresh, applied>>

Ask(q) == GetList(q) \/ AskEdit(q)
Refreshing(q) == Fetch(q) \/ FetchFails(q) \/ FetchRefused(q) \/ SetList(q) \/ SetMarker(q)
Editing(q) == Carried(q) \/ CarriedUnreadably(q) \/ CarriedUnheard(q) \/ SendFails(q) \/ Refused(q)
              \/ Invalidate(q)

Next == \/ \E q \in Reqs : Ask(q) \/ GetMarker(q) \/ Refreshing(q) \/ Editing(q) \/ CarryLate(q) \/ Dies(q)
        \/ MarkerExpires \/ ListExpires

Spec == Init /\ [][Next]_vars
-----------------------------------------------------------------------------
\* An outdated copy of the translations is served only while an edit that was carried out is
\* still being made here, or if that edit was never reported as made, its DEL was lost, or
\* a refresh put back what it had fetched before.
StaleListIsExplained ==
  Stale => excused \/ \E q \in Reqs : job[q].pc \in {"send", "del"} /\ applied[q] > 0

\* The upstream never carries out an edit, or import, more often than it was sent: once
\* and once more for each retry, however late.
EditsAreBounded == \A q \in Reqs : applied[q] + late[q] <= Retries + 1
=============================================================================
