--------------------------- MODULE TwoFactorModal ---------------------------
(***************************************************************************)
(* Setup2FAModal, open in the tabs of one user, and the service behind it. *)
(* Each set-up gives the user another secret, one who has enabled the      *)
(* second factor included: a user whose authenticator has not got it from  *)
(* the QR code cannot log in any more.                                     *)
(***************************************************************************)
EXTENDS Naturals

CONSTANT Tabs

VARIABLES secret, enabled,   \* twoFASecret, by number, 0 for none, and twoFAEnabled
          authenticator,     \* the secret in the user's authenticator app
          modal,             \* the modal of each tab, which is never unmounted
          setup, enable,     \* its calls of setup2FA and enable2FA
          stray,             \* a set-up is under way that its tab has given up
          meddled            \* history: others set up or scanned since the tab sent its code

vars == <<secret, enabled, authenticator, modal, setup, enable, stray, meddled>>

MaxSecrets == 3   \* bound on set-ups

Secrets == 0..MaxSecrets
Modal == [open : BOOLEAN, step : {"init", "scan", "verify"}, qr : Secrets, loading : BOOLEAN]
NoModal == [open |-> FALSE, step |-> "init", qr |-> 0, loading |-> FALSE]
\* got: the secret that the answer carries.
Setup == [pc : {"none", "sent", "served"}, got : Secrets]
NoSetup == [pc |-> "none", got |-> 0]
\* code: the secret behind the code that was typed.
Enable == [pc : {"none", "sent", "checked", "served"}, code : Secrets]
NoEnable == [pc |-> "none", code |-> 0]

TypeOK ==
  /\ secret \in Secrets /\ enabled \in BOOLEAN /\ authenticator \in Secrets
  /\ modal \in [Tabs -> Modal] /\ setup \in [Tabs -> Setup] /\ enable \in [Tabs -> Enable]
  /\ stray \in BOOLEAN /\ meddled \in [Tabs -> BOOLEAN]
  /\ enabled => secret # 0

Init ==
  /\ secret = 0 /\ enabled = FALSE /\ authenticator = 0
  /\ modal = [t \in Tabs |-> NoModal]
  /\ setup = [t \in Tabs |-> NoSetup] /\ enable = [t \in Tabs |-> NoEnable]
  /\ stray = FALSE /\ meddled = [t \in Tabs |-> FALSE]

Meddles(others) == meddled' = [t \in Tabs |-> meddled[t] \/ t \in others]
-----------------------------------------------------------------------------
Open(t) ==
  /\ ~modal[t].open
  /\ modal' = [modal EXCEPT ![t].open = TRUE]
  /\ UNCHANGED <<secret, enabled, authenticator, setup, enable, stray, meddled>>

\* handleClose, whatever is under way.
Close(t) ==
  /\ modal[t].open
  /\ modal' = [modal EXCEPT ![t].open = FALSE, ![t].step = "init"]
  /\ UNCHANGED <<secret, enabled, authenticator, setup, enable, stray, meddled>>

\* Mutant: the button of the first step is not disabled.
AskSetupAlways(t) ==
  /\ modal[t].open /\ modal[t].step = "init" /\ setup[t].pc = "none"
  /\ setup' = [setup EXCEPT ![t].pc = "sent"]
  /\ modal' = [modal EXCEPT ![t].loading = TRUE]
  /\ UNCHANGED <<secret, enabled, authenticator, enable, stray, meddled>>

\* handleSetup.  Its button and that of handleEnable wait for the same flag.
AskSetup(t) ==
  /\ modal[t].open /\ modal[t].step = "init" /\ ~modal[t].loading
  /\ setup' = [setup EXCEPT ![t].pc = "sent"]
  /\ modal' = [modal EXCEPT ![t].loading = TRUE]
  /\ UNCHANGED <<secret, enabled, authenticator, enable, stray, meddled>>

\* AuthService.setup2FA, for a tab or for one that waits no more.
ServeSetup(t) ==
  /\ setup[t].pc = "sent" /\ secret < MaxSecrets
  /\ secret' = secret + 1
  /\ setup' = [setup EXCEPT ![t] = [pc |-> "served", got |-> secret + 1]]
  /\ Meddles(Tabs \ {t})
  /\ UNCHANGED <<enabled, authenticator, modal, enable, stray>>

ServeStray ==
  /\ stray /\ secret < MaxSecrets
  /\ secret' = secret + 1 /\ stray' = FALSE
  /\ Meddles(Tabs)
  /\ UNCHANGED <<enabled, authenticator, modal, setup, enable>>

\* Even in a modal that has been closed, or closed and opened again, since.
SetupArrives(t) ==
  /\ setup[t].pc = "served"
  /\ modal' = [modal EXCEPT ![t].step = "scan", ![t].loading = FALSE, ![t].qr = setup[t].got]
  /\ setup' = [setup EXCEPT ![t] = NoSetup]
  /\ UNCHANGED <<secret, enabled, authenticator, enable, stray, meddled>>

\* An error or a timeout, which stops nobody but the tab.
SetupFails(t) ==
  /\ setup[t].pc # "none"
  /\ modal' = [modal EXCEPT ![t].loading = FALSE]
  /\ setup' = [setup EXCEPT ![t] = NoSetup]
  /\ stray' \in {stray, stray \/ setup[t].pc = "sent"}
  /\ UNCHANGED <<secret, enabled, authenticator, enable, meddled>>

\* The authenticator keeps one secret for the label.
Scan(t) ==
  /\ modal[t].open /\ modal[t].step = "scan"
  /\ authenticator' = modal[t].qr
  /\ Meddles(Tabs \ {t})
  /\ UNCHANGED <<secret, enabled, modal, setup, enable, stray>>

Verify(t) ==
  /\ modal[t].open /\ modal[t].step = "scan"
  /\ modal' = [modal EXCEPT ![t].step = "verify"]
  /\ UNCHANGED <<secret, enabled, authenticator, setup, enable, stray, meddled>>
-----------------------------------------------------------------------------
\* handleEnable, with the code that the authenticator shows.
AskEnable(t) ==
  /\ modal[t].open /\ modal[t].step = "verify" /\ ~modal[t].loading /\ authenticator # 0
  /\ enable' = [enable EXCEPT ![t] = [pc |-> "sent", code |-> authenticator]]
  /\ modal' = [modal EXCEPT ![t].loading = TRUE]
  /\ meddled' = [meddled EXCEPT ![t] = FALSE]
  /\ UNCHANGED <<secret, enabled, authenticator, setup, stray>>

\* AuthService.enable2FA reads the user and checks the code, and writes afterwards.
CheckCode(t) ==
  /\ enable[t].pc = "sent" /\ enable[t].code = secret
  /\ enable' = [enable EXCEPT ![t].pc = "checked"]
  /\ UNCHANGED <<secret, enabled, authenticator, modal, setup, stray, meddled>>

ServeEnable(t) ==
  /\ enable[t].pc = "checked"
  /\ enabled' = TRUE
  /\ enable' = [enable EXCEPT ![t].pc = "served"]
  /\ UNCHANGED <<secret, authenticator, modal, setup, stray, meddled>>

\* Success is reported, and onClose closes the modal, be it another time that it is open.
EnableArrives(t) ==
  /\ enable[t].pc = "served"
  /\ modal' = [modal EXCEPT ![t].open = FALSE, ![t].step = "init", ![t].loading = FALSE]
  /\ enable' = [enable EXCEPT ![t] = NoEnable]
  /\ UNCHANGED <<secret, enabled, authenticator, setup, stray, meddled>>

\* A wrong code, an error or a timeout: what was checked may be written yet.
EnableFails(t) ==
  /\ enable[t].pc # "none"
  /\ modal' = [modal EXCEPT ![t].loading = FALSE]
  /\ enable' = [enable EXCEPT ![t] = NoEnable]
  /\ enabled' \in {enabled, enabled \/ enable[t].pc = "checked"}
  /\ UNCHANGED <<secret, authenticator, setup, stray, meddled>>

Next ==
  \/ ServeStray
  \/ \E t \in Tabs :
       \/ Open(t) \/ Close(t)
       \/ AskSetup(t) \/ ServeSetup(t) \/ SetupArrives(t) \/ SetupFails(t) \/ Scan(t) \/ Verify(t)
       \/ AskEnable(t) \/ CheckCode(t) \/ ServeEnable(t) \/ EnableArrives(t) \/ EnableFails(t)
-----------------------------------------------------------------------------
\* A user who is told that the second factor is enabled can log in: the authenticator has
\* the secret, unless another tab, or a set-up that was given up, meddled with either since
\* the code was sent.  However the modal is closed and opened, it never spoils its own.
EnabledIsUsable ==
  [][\A t \in Tabs : enable[t].pc = "served" /\ enable'[t].pc = "none" =>
       authenticator = secret \/ meddled[t]]_vars
=============================================================================
