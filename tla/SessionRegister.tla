-------------------------- MODULE SessionRegister --------------------------
(***************************************************************************)
(* What the refresh-token store promises, without requests or tables: an   *)
(* operator's session is opened once, holds at most one usable refresh     *)
(* token at a time, is carried from token to token by rotations, and once  *)
(* closed stays closed.  No token value is ever handed out twice.          *)
(* AuthSessions implements this specification.                             *)
(***************************************************************************)
CONSTANTS Sessions,   \* identities of sessions
          Tokens,     \* refresh-token values
          NoToken     \* not one of them

VARIABLES phase,      \* phase[s]: where session s is in its life
          current,    \* current[s]: the one token session s may be refreshed with
          issued      \* the token values handed out so far

vars == <<phase, current, issued>>

Phases == {"unopened", "open", "rotating", "closed"}

TypeOK == /\ phase \in [Sessions -> Phases]
          /\ current \in [Sessions -> Tokens \cup {NoToken}]
          /\ issued \in SUBSET Tokens

Init == /\ phase = [s \in Sessions |-> "unopened"]
        /\ current = [s \in Sessions |-> NoToken]
        /\ issued = {}

\* Hand the fresh token t to session s.
Hand(s, t) == /\ t \notin issued
              /\ issued' = issued \cup {t}
              /\ phase' = [phase EXCEPT ![s] = "open"]
              /\ current' = [current EXCEPT ![s] = t]

Open(s, t) == phase[s] = "unopened" /\ Hand(s, t)

\* The current token is consumed; until the rotation ends the session has none.
BeginRotation(s) == /\ phase[s] = "open"
                    /\ phase' = [phase EXCEPT ![s] = "rotating"]
                    /\ current' = [current EXCEPT ![s] = NoToken]
                    /\ UNCHANGED issued

FinishRotation(s, t) == phase[s] = "rotating" /\ Hand(s, t)

\* Logout, a failed rotation, a revocation of all of an operator's tokens.
Close(S) == /\ \A s \in S : phase[s] \in {"open", "rotating"}
            /\ phase' = [s \in Sessions |-> IF s \in S THEN "closed" ELSE phase[s]]
            /\ current' = [s \in Sessions |-> IF s \in S THEN NoToken ELSE current[s]]
            /\ UNCHANGED issued

Next == \/ \E s \in Sessions, t \in Tokens : Open(s, t) \/ FinishRotation(s, t)
        \/ \E s \in Sessions : BeginRotation(s)
        \/ \E S \in SUBSET Sessions : Close(S)

Spec == Init /\ [][Next]_vars
-----------------------------------------------------------------------------
\* Nobody refreshes with a token that is not of an open session, or with another's.
TokensAreExclusive ==
  /\ \A s \in Sessions : phase[s] = "open" <=> current[s] # NoToken
  /\ \A s1, s2 \in Sessions : current[s1] = current[s2] /\ current[s1] # NoToken => s1 = s2

\* A closed session is over.
StayClosed == \A s \in Sessions : phase[s] = "closed" => phase'[s] = "closed"
ClosedForGood == [][StayClosed]_vars

\* A token that was handed out and is not the current one of a session will never be again.
StayUsed ==
  \A t \in issued : (\A s \in Sessions : current[s] # t) => \A s \in Sessions : current'[s] # t
UsedForGood == [][StayUsed]_vars
=============================================================================
