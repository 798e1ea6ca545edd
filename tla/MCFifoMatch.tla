---------------------------- MODULE MCFifoMatch ----------------------------
(***************************************************************************)
(* Every position of four rows over two days: each type, quantities up to  *)
(* three, trims and top-ups and the zero adjustment of a dismissed drift,  *)
(* and deleted rows that may still own allocations.                        *)
(***************************************************************************)
EXTENDS FifoMatch

MCIds == 1..4

MCRow(type, date, quantity, deleted) ==
    [type |-> type, date |-> date, quantity |-> quantity, deleted |-> deleted]

MCRowChoices ==
    {MCRow(t, d, SignedQuantity(t, q), FALSE) :
        t \in {"buy", "sell"}, d \in 1..2, q \in {1, 3}}
    \cup {MCRow("adjustment", d, q, FALSE) : d \in 1..2, q \in {-2, 0, 2}}
    \cup {MCRow("yield", 1, 1, FALSE),
          MCRow("spend", 1, -2, TRUE), MCRow("buy", 1, 2, TRUE)}
=============================================================================
