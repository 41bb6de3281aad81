----------------------------- MODULE AppUpload -----------------------------
(***************************************************************************)
(* Publishing an app package.  The API only forwards: it asks the CatWallet*)
(* upstream for a presigned URL, the page puts the file to S3 itself, and  *)
(* then has the upstream refresh the cache that serves the package.  No    *)
(* part of this is repeated after a failure, and nobody remembers it.      *)
(* S3 and the upstream are modelled from how they are used.                *)
(***************************************************************************)
CONSTANTS Files,
          Uploads   \* slots for handleUpload under way

VARIABLES stored, readable,   \* the package in S3, and the one S3 hands out
          served,             \* the package in the cache of the upstream
          page,               \* AppUploadPage
          up,                 \* runs of handleUpload
          letDown             \* history: the stored package was not refreshed as it should

vars == <<stored, readable, served, page, up, letDown>>

Page == [fetching : BOOLEAN, url : BOOLEAN, uploading : BOOLEAN, done : BOOLEAN]
Mounted == [fetching |-> FALSE, url |-> FALSE, uploading |-> FALSE, done |-> FALSE]
\* here: the page that called it is still there; current: with the URL of the call.
Up == [pc : {"none", "putting", "stored", "waiting", "refreshing"}, file : Files,
       here : BOOLEAN, current : BOOLEAN]

TypeOK ==
  /\ {stored, readable, served} \subseteq Files
  /\ page \in Page /\ up \in [Uploads -> Up] /\ letDown \in BOOLEAN

Init ==
  /\ stored \in Files /\ readable = stored /\ served = stored
  /\ page = Mounted
  /\ up = [u \in Uploads |-> [pc |-> "none", file |-> stored, here |-> FALSE, current |-> FALSE]]
  /\ letDown = FALSE

At(u, pc) == up[u].pc = pc
-----------------------------------------------------------------------------
(* handleGetUrl. *)

GetUrl ==
  /\ ~page.fetching
  /\ page' = [page EXCEPT !.fetching = TRUE]
  /\ UNCHANGED <<stored, readable, served, up, letDown>>

\* Also while a file is on its way to the URL before.
UrlArrives ==
  /\ page.fetching
  /\ page' = [page EXCEPT !.fetching = FALSE, !.url = TRUE, !.done = FALSE]
  /\ up' = [u \in Uploads |-> [up[u] EXCEPT !.current = FALSE]]
  /\ UNCHANGED <<stored, readable, served, letDown>>

\* Or a payload with no URL in it, which extractUrl throws and nobody shows.
UrlFails ==
  /\ page.fetching
  /\ page' = [page EXCEPT !.fetching = FALSE]
  /\ UNCHANGED <<stored, readable, served, up, letDown>>
-----------------------------------------------------------------------------
(* handleUpload. *)

Put(u, f) ==
  /\ page.url /\ ~page.uploading /\ At(u, "none")
  /\ page' = [page EXCEPT !.uploading = TRUE]
  /\ up' = [up EXCEPT ![u] = [pc |-> "putting", file |-> f, here |-> TRUE, current |-> TRUE]]
  /\ UNCHANGED <<stored, readable, served, letDown>>

\* S3 has the file, and may hand out the one before for a moment.
Store(u) ==
  /\ At(u, "putting")
  /\ stored' = up[u].file
  /\ up' = [up EXCEPT ![u].pc = "stored"]
  /\ letDown' = FALSE
  /\ UNCHANGED <<readable, served, page>>

Settle ==
  /\ readable # stored /\ readable' = stored
  /\ UNCHANGED <<stored, served, page, up, letDown>>

\* The finally of handleUpload.
Finish(u) ==
  /\ up' = [up EXCEPT ![u].pc = "none", ![u].here = FALSE]
  /\ page' = [page EXCEPT !.uploading = @ /\ ~up[u].here]

\* An error of S3, or its answer is lost: nothing is refreshed.
PutFails(u) ==
  /\ At(u, "putting") \/ At(u, "stored")
  /\ Finish(u)
  /\ letDown' = (letDown \/ (At(u, "stored") /\ stored # served))
  /\ UNCHANGED <<stored, readable, served>>

\* Mutant: an upload to a URL that has been replaced ends here.
HeardByCurrent(u) ==
  /\ At(u, "stored")
  /\ IF up[u].current
     THEN /\ up' = [up EXCEPT ![u].pc = "waiting"]
          /\ page' = [page EXCEPT !.done = @ \/ up[u].here]
     ELSE Finish(u)
  /\ UNCHANGED <<stored, readable, served, letDown>>

\* setDone, and a wait of half a second that gives S3 time.
Heard(u) ==
  /\ At(u, "stored")
  /\ up' = [up EXCEPT ![u].pc = "waiting"]
  /\ page' = [page EXCEPT !.done = @ \/ up[u].here]
  /\ UNCHANGED <<stored, readable, served, letDown>>

WaitEnds(u) ==
  /\ At(u, "waiting")
  /\ up' = [up EXCEPT ![u].pc = "refreshing"]
  /\ UNCHANGED <<stored, readable, served, page, letDown>>

\* AppPackageService.refreshCache: the upstream takes what S3 hands out, or it does not, and
\* whatever it answers within 25 seconds, or not at all, the page is done.
Refresh(u) ==
  /\ At(u, "refreshing")
  /\ served' \in {served, readable}
  /\ letDown' = (served' # stored)
  /\ Finish(u)
  /\ UNCHANGED <<stored, readable>>
-----------------------------------------------------------------------------
\* The page is left, or mounted anew: handleUpload goes on.
Remount ==
  /\ page' = Mounted
  /\ up' = [u \in Uploads |-> [up[u] EXCEPT !.here = FALSE, !.current = FALSE]]
  /\ UNCHANGED <<stored, readable, served, letDown>>

\* The tab is closed or loaded anew: it does not.
Close ==
  /\ page' = Mounted
  /\ up' = [u \in Uploads |-> [up[u] EXCEPT !.pc = "none", !.here = FALSE, !.current = FALSE]]
  /\ letDown' = (letDown \/ stored # served)
  /\ UNCHANGED <<stored, readable, served>>

Next ==
  \/ GetUrl \/ UrlArrives \/ UrlFails \/ Settle \/ Remount \/ Close
  \/ \E u \in Uploads :
       \/ (\E f \in Files : Put(u, f))
       \/ Store(u) \/ PutFails(u) \/ Heard(u) \/ WaitEnds(u) \/ Refresh(u)
-----------------------------------------------------------------------------
\* A package that is stored is served, or an upload that has yet to refresh the cache is
\* under way, of whatever page and URL.  Else something named happened after it was stored:
\* its answer was lost, the tab was closed, or a refresh failed or came too early.
StalePackageIsExplained ==
  stored # served => letDown \/ \E u \in Uploads : up[u].pc \in {"stored", "waiting", "refreshing"}
=============================================================================
