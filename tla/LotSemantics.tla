---------------------------- MODULE LotSemantics ----------------------------
(***************************************************************************)
(* The vocabulary of the ledger: transaction types, the sign convention of *)
(* stored quantities, which rows open lots and which consume them, the     *)
(* order in which first-in-first-out matching visits rows, and the         *)
(* attribution of disposals to lots that the matching promises.            *)
(*                                                                         *)
(* A lot row is what matching reads of a live transaction: its insertion   *)
(* number, type, date and signed quantity.  Quantities are integers: the   *)
(* code computes them with exact decimals, so a unit is the smallest       *)
(* amount that occurs.                                                     *)
(***************************************************************************)
EXTENDS Integers, FiniteSets, FiniteSetsExt

TxnTypes == {"buy", "sell", "spend", "yield", "adjustment"}

DisposalTypes == {"sell", "spend"}

LotConsumingTypes == DisposalTypes \cup {"adjustment"}

LotSourceTypes == {"buy", "adjustment"}

LotAffectingTypes == LotConsumingTypes \cup LotSourceTypes

Magnitude(q) == IF q < 0 THEN -q ELSE q

\* A trim (negative adjustment) consumes lots like a sell.
IsLotConsuming(type, quantity) ==
    \/ type \in DisposalTypes
    \/ type = "adjustment" /\ quantity < 0

\* Mutant of IsLotSource: a top-up is not a lot.
IsLotSourceBuysOnly(type, quantity) == type = "buy" /\ quantity > 0

\* A top-up (positive adjustment) opens a lot like a buy.
IsLotSource(type, quantity) == type \in LotSourceTypes /\ quantity > 0

\* The sign under which a quantity typed by the user is stored.
SignedQuantity(type, quantity) ==
    CASE type \in DisposalTypes -> -Magnitude(quantity)
      [] type = "adjustment"    -> quantity
      [] OTHER                  -> Magnitude(quantity)

-----------------------------------------------------------------------------

\* What the matching queries read of transaction number i.
LotRow(i, txn) ==
    [id |-> i, type |-> txn.type, date |-> txn.date, quantity |-> txn.quantity]

\* WHERE deleted_at IS NULL AND txn_type IN (...)
IsMatchable(txn) == ~txn.deleted /\ txn.type \in LotAffectingTypes

Sources(view) == {r \in view : IsLotSource(r.type, r.quantity)}

Consumers(view) == {r \in view : IsLotConsuming(r.type, r.quantity)}

\* The rows of a view that take part in matching, by sign as well as by type.
Basis(view) == Sources(view) \cup Consumers(view)

\* ORDER BY date, created_at: rows of one day in the order they were written.
Precedes(r, s) == r.date < s.date \/ (r.date = s.date /\ r.id < s.id)

IsFirst(r, S) == \A s \in S \ {r} : Precedes(r, s)

-----------------------------------------------------------------------------
(***************************************************************************)
(* The promise.  Lay the lots of a position end to end in their order, and *)
(* the disposals likewise: each disposal draws from a lot exactly the      *)
(* length on which the two segments overlap, and the disposals are covered *)
(* when they do not reach past the last lot.                               *)
(***************************************************************************)

Total(S) == MapThenSumSet(LAMBDA r : Magnitude(r.quantity), S)

Covered(view) == Total(Consumers(view)) <= Total(Sources(view))

Start(r, S) == Total({s \in S : Precedes(s, r)})

Attributed(view, c, s) ==
    LET from == Max({Start(c, Consumers(view)), Start(s, Sources(view))})
        to   == Min({Start(c, Consumers(view)) + Magnitude(c.quantity),
                     Start(s, Sources(view)) + Magnitude(s.quantity)})
    IN  Max({0, to - from})
=============================================================================
