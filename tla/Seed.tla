-------------------------------- MODULE Seed --------------------------------
(***************************************************************************)
(* prisma/seed.ts fills the tables of roles, permissions and users, one    *)
(* upsert after the other without a transaction.  It may be cut short, and *)
(* is run again, over tables in which administrators are at work.          *)
(***************************************************************************)
EXTENDS Naturals, Sequences

CONSTANTS PermOrder,      \* PERMISSIONS
          OperatorOrder   \* those of them that are in OPERATOR_PERMISSIONS, in the same order

VARIABLES rows,          \* the rows there are, of those that the seed cares for
          active, own,   \* of the admin user: ACTIVE, and a password the seed does not know
          at,            \* the step of the seed
          held,          \* the rows whose ids it has in hand
          undone,        \* history: rows administrators have deleted and not put back
          disturbed      \* history: rows were deleted, or the user changed, since this run began

vars == <<rows, active, own, at, held, undone, disturbed>>

SeedAssumption ==
  LET perms == {PermOrder[i] : i \in DOMAIN PermOrder}
  IN  PermOrder \in Seq(perms) /\ OperatorOrder \in Seq(perms)

Role(r) == <<"role", r>>
Perm(p) == <<"perm", p>>
Link(r, p) == <<"link", r, p>>
Admin == <<"user">>
Member == <<"member">>

\* The rows a row refers to: it goes with them, onDelete: Cascade.
Needs(row) ==
  CASE row[1] = "link" -> {Role(row[2]), Perm(row[3])}
    [] row = Member -> {Admin, Role("superadmin")}
    [] OTHER -> {}

LinksOf(r, perms) == [i \in 1..Len(perms) |-> Link(r, perms[i])]
Tables == <<Role("superadmin"), Role("operator")>> \o [i \in 1..Len(PermOrder) |-> Perm(PermOrder[i])]
Links == LinksOf("superadmin", PermOrder) \o LinksOf("operator", OperatorOrder)

\* Mutant: the admin user and its role first.
StepsUserFirst == Tables \o <<Admin, Member>> \o Links

\* The upserts of main, in their order.
Steps == Tables \o Links \o <<Admin, Member>>

Wanted == {Steps[i] : i \in 1..Len(Steps)}
Done == Len(Steps) + 1
Stopped == 0

TypeOK ==
  /\ rows \in SUBSET Wanted /\ active \in BOOLEAN /\ own \in BOOLEAN
  /\ at \in Stopped..Done
  /\ held \in SUBSET rows /\ undone \in SUBSET (Wanted \ rows) /\ disturbed \in BOOLEAN
  /\ \A row \in rows : Needs(row) \subseteq rows

Init ==
  /\ rows = {} /\ active = FALSE /\ own = FALSE
  /\ at = Stopped /\ held = {}
  /\ undone = {} /\ disturbed = FALSE
-----------------------------------------------------------------------------
(* The seed. *)

Start ==
  /\ at \in {Stopped, Done}
  /\ at' = 1 /\ held' = {} /\ disturbed' = FALSE
  /\ UNCHANGED <<rows, active, own, undone>>

Running == at \in 1..Len(Steps)

\* Mutant: a user who is there is left as it is.
RefreshedNot(row) == row = Admin /\ Admin \notin rows
\* The update of an upsert has something to set only for the admin user.
Refreshed(row) == row = Admin

\* An upsert, by what the row is known by: names, or the ids that the seed has in hand.
Upsert ==
  LET row == Steps[at] IN
  /\ Running /\ Needs(row) \subseteq held
  /\ rows' = rows \cup {row} /\ held' = held \cup {row}
  /\ IF Refreshed(row) THEN active' = TRUE /\ own' = FALSE ELSE UNCHANGED <<active, own>>
  /\ at' = at + 1
  /\ undone' = undone \ {row}
  /\ UNCHANGED disturbed

\* The row behind an id has gone: the database refuses the foreign key.
Refused ==
  /\ Running /\ ~(Needs(Steps[at]) \subseteq held)
  /\ at' = Stopped
  /\ UNCHANGED <<rows, active, own, held, undone, disturbed>>

\* Production without a password stops before the admin user, and anything may stop anywhere.
Stop ==
  /\ Running
  /\ at' = Stopped
  /\ UNCHANGED <<rows, active, own, held, undone, disturbed>>
-----------------------------------------------------------------------------
(* Administrators, who may be others than the admin of the seed. *)

\* Mutant: the rows that refer to it stay.
DeleteAlone(row) ==
  /\ row \in rows
  /\ rows' = rows \ {row} /\ held' = held \ {row}
  /\ undone' = undone \cup {row} /\ disturbed' = TRUE
  /\ UNCHANGED <<active, own, at>>

Delete(row) ==
  LET lost == {row} \cup {other \in rows : row \in Needs(other)} IN
  /\ row \in rows
  /\ rows' = rows \ lost /\ held' = held \ lost
  /\ undone' = undone \cup lost /\ disturbed' = TRUE
  /\ UNCHANGED <<active, own, at>>

\* A row of the same name, with another id.
Recreate(row) ==
  /\ row \in undone /\ Needs(row) \subseteq rows
  /\ rows' = rows \cup {row} /\ undone' = undone \ {row}
  /\ IF row = Admin THEN active' = TRUE /\ own' = TRUE ELSE UNCHANGED <<active, own>>
  /\ UNCHANGED <<at, held, disturbed>>

ChangeAdmin ==
  /\ Admin \in rows
  /\ (active' = FALSE /\ UNCHANGED own) \/ (own' = TRUE /\ UNCHANGED active)
  /\ disturbed' = TRUE
  /\ UNCHANGED <<rows, at, held, undone>>

Next == Start \/ Upsert \/ Refused \/ Stop \/ (\E row \in Wanted : Delete(row) \/ Recreate(row)) \/ ChangeAdmin
-----------------------------------------------------------------------------
\* The last upsert is what makes the seed count.  Wherever runs were cut short, an admin
\* user who has the superadmin role has it with every permission in the list, apart from
\* those that administrators have taken away.
MembershipComesLast == Member \in rows => Wanted \subseteq rows \cup undone

\* A run that gets to its end with nobody in its way has put everything back: no row is
\* missing, and the admin user is ACTIVE, with the password of the environment.
CompletedSeedsAreWhole == at = Done /\ ~disturbed => rows = Wanted /\ active /\ ~own
=============================================================================
