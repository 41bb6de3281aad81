--------------------------- MODULE MCAuthSessions ---------------------------
EXTENDS AuthSessions, TLC

\* Slots, tokens and users are interchangeable.
Symmetry == Permutations(Users) \cup Permutations(Tokens) \cup Permutations(Reqs)

\* Bound: time passes while nobody sets up 2FA, resets a password or suspends a user.
ExpiryAlone ==
  expired # {} => \A u \in Users : twoFASecret[u] = 0 /\ passwordHash[u] = 1 /\ status[u] # "INACTIVE"

(***************************************************************************)
(* What of the history can still matter.  A password that is no longer the *)
(* stored one never is again, so of a session one needs to know whether it *)
(* rests on the stored one, and of a client whether it has passed a first  *)
(* step with it: verify2FA can present an older answer, or none, anyway.   *)
(* Of a token that is not live, only the name of its session is looked at. *)
(***************************************************************************)
Current(o, u) ==
  [o EXCEPT !.gen = IF @ = passwordHash[u] THEN 1 ELSE 0,
            !.since = IF @ = passwordHash[u] THEN 1 ELSE 0]
View ==
  <<status, passwordHash, twoFASecret, twoFAEnabled, tstate, owner, expired, cut,
    [u \in Users |-> passwordHash[u] \in passed[u]],
    [t \in Tokens |-> IF Live(t) THEN Current(origin[t], owner[t])
                                 ELSE Rooted(NoOrigin, origin[t].root)],
    [r \in Reqs |-> IF job[r].user \notin Users THEN job[r]
                    ELSE [job[r] EXCEPT !.origin = Current(@, job[r].user)]]>>
=============================================================================
