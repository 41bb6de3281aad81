----------------------- MODULE SessionRegisterProofs -----------------------
(***************************************************************************)
(* What follows for every register of sessions, and so for AuthSessions,   *)
(* which is one, and for the server behind AdminSession: a used token is   *)
(* used up, a closed session is over.                                      *)
(***************************************************************************)
EXTENDS SessionRegister, TLAPS

\* Assumed of the constants.
RegisterAssumption == NoToken \notin Tokens

RegisterInv == /\ TypeOK
               /\ TokensAreExclusive
               /\ \A s \in Sessions : current[s] # NoToken => current[s] \in issued

LEMMA RegisterStarts == Init => RegisterInv
  BY DEF Init, RegisterInv, TypeOK, Phases, TokensAreExclusive

\* A session that is handed a fresh token shares it with none.
LEMMA HandKeeps ==
  ASSUME RegisterAssumption, RegisterInv, NEW s \in Sessions, NEW t \in Tokens, Hand(s, t)
  PROVE  RegisterInv'
  <1>1. /\ phase' = [phase EXCEPT ![s] = "open"] /\ current' = [current EXCEPT ![s] = t]
        /\ issued' = issued \cup {t} /\ t \notin issued /\ t # NoToken
    BY DEF Hand, RegisterAssumption
  <1>2. TypeOK'
    BY <1>1 DEF RegisterInv, TypeOK, Phases
  <1>3. /\ phase'[s] = "open" /\ current'[s] = t
        /\ \A x \in Sessions \ {s} : phase'[x] = phase[x] /\ current'[x] = current[x] /\ current'[x] # t
    BY <1>1 DEF RegisterInv, TypeOK
  <1>4. TokensAreExclusive'
    BY <1>1, <1>3 DEF RegisterInv, TokensAreExclusive
  <1>5. \A x \in Sessions : current'[x] # NoToken => current'[x] \in issued'
    BY <1>1, <1>3 DEF RegisterInv
  <1> QED BY <1>2, <1>4, <1>5 DEF RegisterInv

\* A session that loses its token, to a rotation or for good, takes no other's.
LEMMA LossKeeps ==
  ASSUME RegisterInv, UNCHANGED issued, TypeOK',
         \A s \in Sessions : \/ phase'[s] = phase[s] /\ current'[s] = current[s]
                             \/ phase'[s] \in {"rotating", "closed"} /\ current'[s] = NoToken
  PROVE  RegisterInv'
  BY DEF RegisterInv, TokensAreExclusive

\* BeginRotation and Close are such losses, and close sessions only.
LEMMA Losses ==
  ASSUME RegisterInv, (\E s \in Sessions : BeginRotation(s)) \/ (\E S \in SUBSET Sessions : Close(S))
  PROVE  /\ UNCHANGED issued /\ TypeOK'
         /\ \A s \in Sessions : \/ phase'[s] = phase[s] /\ current'[s] = current[s]
                                \/ /\ phase[s] # "closed" /\ phase'[s] \in {"rotating", "closed"}
                                   /\ current'[s] = NoToken
  <1>1. CASE \E s \in Sessions : BeginRotation(s)
    BY <1>1 DEF BeginRotation, RegisterInv, TypeOK, Phases
  <1>2. CASE \E S \in SUBSET Sessions : Close(S)
    BY <1>2 DEF Close, RegisterInv, TypeOK, Phases
  <1> QED BY <1>1, <1>2

LEMMA RegisterStep ==
  ASSUME RegisterAssumption, RegisterInv, [Next]_vars
  PROVE  RegisterInv'
  <1>1. CASE UNCHANGED vars
    BY <1>1 DEF vars, RegisterInv, TypeOK, TokensAreExclusive
  <1>2. CASE \E s \in Sessions, t \in Tokens : Open(s, t) \/ FinishRotation(s, t)
    BY <1>2, HandKeeps DEF Open, FinishRotation
  <1>3. CASE (\E s \in Sessions : BeginRotation(s)) \/ (\E S \in SUBSET Sessions : Close(S))
    BY <1>3, Losses, LossKeeps
  <1> QED BY <1>1, <1>2, <1>3 DEF Next

\* What a step of a register never does.
LEMMA RegisterNever ==
  ASSUME RegisterAssumption, RegisterInv, [Next]_vars
  PROVE  StayClosed /\ StayUsed
  <1>1. CASE UNCHANGED vars
    BY <1>1 DEF vars, StayClosed, StayUsed
  <1>2. ASSUME NEW s \in Sessions, NEW t \in Tokens, Open(s, t) \/ FinishRotation(s, t)
        PROVE  StayClosed /\ StayUsed
    BY <1>2 DEF Open, FinishRotation, Hand, RegisterInv, TypeOK, StayClosed, StayUsed
  <1>3. CASE (\E s \in Sessions : BeginRotation(s)) \/ (\E S \in SUBSET Sessions : Close(S))
    BY <1>3, Losses DEF RegisterInv, TypeOK, RegisterAssumption, StayClosed, StayUsed
  <1> QED BY <1>1, <1>2, <1>3 DEF Next

\* In every register a session has a token just while it is open, and no two have the same.
THEOREM TokensStayExclusive == ASSUME RegisterAssumption PROVE Spec => []TokensAreExclusive
  <1>1. RegisterInv /\ [Next]_vars => RegisterInv'
    BY RegisterStep
  <1>2. RegisterInv => TokensAreExclusive
    BY DEF RegisterInv
  <1> QED BY <1>1, <1>2, RegisterStarts, PTL DEF Spec

\* And a session that is closed stays closed, a token that is used stays used.
THEOREM OverIsOver == ASSUME RegisterAssumption PROVE Spec => ClosedForGood /\ UsedForGood
  <1>1. RegisterInv /\ [Next]_vars => RegisterInv'
    BY RegisterStep
  <1>2. RegisterInv /\ [Next]_vars => StayClosed /\ StayUsed
    BY RegisterNever
  <1> QED BY <1>1, <1>2, RegisterStarts, PTL DEF Spec, ClosedForGood, UsedForGood
=============================================================================
