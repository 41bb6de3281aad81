-------------------------- MODULE LaggingRegister --------------------------
(***************************************************************************)
(* What a read-through cache promises, whichever commands get lost and     *)
(* however its readers are interleaved: beside the value of a key only     *)
(* such values are at large as it had before.  Outdated copies are left    *)
(* behind by a change, and by nothing else: none is made up, none belongs  *)
(* to another key, the absence of a value leaves none, and a key that has  *)
(* lost its copies stays without them until its value changes again.  The  *)
(* permission cache of Rbac and both caches of Content implement this      *)
(* specification.                                                          *)
(***************************************************************************)
CONSTANTS Keys,
          Values,
          Absent       \* the value of a key without one

VARIABLES value,       \* value[k]: what the table says, or the upstream
          outdated     \* outdated[k]: other values that a reader may be served or put back

vars == <<value, outdated>>

TypeOK == /\ value \in [Keys -> Values \cup {Absent}]
          /\ outdated \in [Keys -> SUBSET Values]
          /\ \A k \in Keys : value[k] \notin outdated[k]

Init == /\ value \in [Keys -> Values \cup {Absent}]
        /\ outdated = [k \in Keys |-> {}]

\* What there are, or may be, copies of.
Copied(k) == outdated[k] \cup ({value[k]} \ {Absent})

\* The values of some keys change, or of none; of the copies of a key some are left.
Next == /\ value' \in [Keys -> Values \cup {Absent}]
        /\ outdated' \in [Keys -> SUBSET Values]
        /\ \A k \in Keys : outdated'[k] \subseteq Copied(k) \ {value'[k]}

Spec == Init /\ [][Next]_vars
-----------------------------------------------------------------------------
\* A key whose copies are gone has none until its value changes.
Clean == \A k \in Keys : outdated[k] = {} /\ value'[k] = value[k] => outdated'[k] = {}
CleanStaysClean == [][Clean]_vars
=============================================================================
