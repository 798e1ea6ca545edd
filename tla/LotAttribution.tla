---------------------------- MODULE LotAttribution ----------------------------
(***************************************************************************)
(* The abstract recompute: "the alloc state is always a pure function of   *)
(* the current live transactions" (services/fifo.py).  One step turns the  *)
(* view of a position into its attribution, or refuses the position when   *)
(* its lots do not cover its disposals.                                    *)
(***************************************************************************)
EXTENDS LotSemantics

CONSTANT Ids

VARIABLES view,      \* the live lot rows of the position
          result,    \* quantity by (disposal, lot)
          outcome    \* "pending", "attributed" or "refused"

Canonical ==
    [p \in Ids \X Ids |->
        LET pairs == {q \in Consumers(view) \X Sources(view) :
                        q[1].id = p[1] /\ q[2].id = p[2]}
        IN  MapThenSumSet(LAMBDA q : Attributed(view, q[1], q[2]), pairs)]

Init ==
    /\ outcome = "pending"
    /\ result = [p \in Ids \X Ids |-> 0]

Attribute ==
    /\ outcome = "pending"
    /\ Covered(view)
    /\ outcome' = "attributed"
    /\ result' = Canonical
    /\ UNCHANGED view

Refuse ==
    /\ outcome = "pending"
    /\ ~Covered(view)
    /\ outcome' = "refused"
    /\ UNCHANGED <<result, view>>

Next == Attribute \/ Refuse

Spec == Init /\ [][Next]_<<view, result, outcome>>
=============================================================================
