------------------------------ MODULE FifoMatch ------------------------------
(***************************************************************************)
(* recompute_fifo_for_pair and match_lots_for_sell (services/fifo.py), the *)
(* convergence point of every lot-affecting mutation, as the loops they    *)
(* are: wipe the allocations of one (account, instrument) position, then   *)
(* walk the live disposals in order and, for each, the live lots in order. *)
(*                                                                         *)
(* The caller holds SQLite's write lock from its first flush, so the rows  *)
(* do not change while the loops run.  Ids are insertion numbers: they     *)
(* stand for created_at, whose ties SQLite breaks by rowid.                *)
(***************************************************************************)
EXTENDS LotSemantics

CONSTANTS Ids,          \* insertion numbers of the position's rows
          RowChoices    \* rows a position may hold

ASSUME IdsAssumption == Ids \subseteq Nat /\ IsFiniteSet(Ids)

\* Quantities are stored under the sign of their type.
ASSUME RowChoicesAssumption ==
    /\ RowChoices \subseteq
           [type : TxnTypes, date : Nat, quantity : Int, deleted : BOOLEAN]
    /\ \A r \in RowChoices : r.quantity = SignedQuantity(r.type, r.quantity)

VARIABLES rows,       \* the position's transactions
          alloc,      \* lot_alloc.quantity by (consumer, lot); 0: no such row
          consumed,   \* consumed_by_lot: what the allocations take of each lot
          todo,       \* consumers the outer loop has not reached
          current,    \* id of the consumer being matched
          remaining,  \* remaining_to_match
          queue,      \* lots the inner loop has not reached
          phase       \* "wipe", "next", "match", "done" or "refused"

vars == <<rows, alloc, consumed, todo, current, remaining, queue, phase>>

\* The live rows of a lot-affecting type, as the two SELECTs read them.
View == {LotRow(i, rows[i]) : i \in {j \in Ids : IsMatchable(rows[j])}}

NoAllocations == [p \in Ids \X Ids |-> 0]

\* Allocations an earlier state of the same rows may have left behind, also
\* under rows that have since been deleted or changed their role.
Leftover(r, n) ==
    [p \in Ids \X Ids |->
        IF /\ p[1] # p[2]
           /\ r[p[1]].type \in LotConsumingTypes
           /\ r[p[2]].type \in LotSourceTypes
        THEN n ELSE 0]

Init ==
    /\ rows \in [Ids -> RowChoices]
    /\ \E n \in 0..1 : alloc = Leftover(rows, n)
    /\ consumed = [i \in Ids |-> 0]
    /\ todo = {}
    /\ current = 0
    /\ remaining = 0
    /\ queue = {}
    /\ phase = "wipe"

-----------------------------------------------------------------------------

\* Mutant of Wipe: only allocations of live consumers are deleted.
WipeLiveConsumers ==
    /\ phase = "wipe"
    /\ alloc' = [p \in Ids \X Ids |->
                    IF \E c \in Consumers(View) : c.id = p[1] THEN 0 ELSE alloc[p]]
    /\ consumed' = [i \in Ids |-> 0]
    /\ todo' = Consumers(View)
    /\ phase' = "next"
    /\ UNCHANGED <<rows, current, remaining, queue>>

\* DELETE FROM lot_alloc WHERE sell_txn_id IN (every row of the position,
\* whatever its present role), then the SELECT of the consumers.
Wipe ==
    /\ phase = "wipe"
    /\ alloc' = NoAllocations
    /\ consumed' = [i \in Ids |-> 0]
    /\ todo' = Consumers(View)
    /\ phase' = "next"
    /\ UNCHANGED <<rows, current, remaining, queue>>

\* Mutant of NextConsumer: the consumers are not ordered.
NextConsumerUnordered ==
    /\ phase = "next"
    /\ \E c \in todo :
        /\ todo' = todo \ {c}
        /\ current' = c.id
        /\ remaining' = Magnitude(c.quantity)
    /\ queue' = Sources(View)
    /\ phase' = "match"
    /\ UNCHANGED <<rows, alloc, consumed>>

\* for sell_txn in consumers: match_lots_for_sell(session, sell_txn)
NextConsumer ==
    /\ phase = "next"
    /\ \E c \in todo :
        /\ IsFirst(c, todo)
        /\ todo' = todo \ {c}
        /\ current' = c.id
        /\ remaining' = Magnitude(c.quantity)
    /\ queue' = Sources(View)
    /\ phase' = "match"
    /\ UNCHANGED <<rows, alloc, consumed>>

\* Mutant of FirstInQueue: the lots are not ordered.
AnyInQueue(b) == TRUE

FirstInQueue(b) == IsFirst(b, queue)

\* Mutant of Available: what earlier disposals consumed is forgotten.
AvailableAtFirst(b) == b.quantity

\* The code sums consumed_by_lot afresh for every consumer; each round visits
\* a lot once, so the running total kept here is that sum.
Available(b) == b.quantity - consumed[b.id]

\* Mutants of Draw: the lot is drawn empty whatever the disposal needs; the
\* row records what remained before the draw.
DrawWhole(b) ==
    /\ alloc' = [alloc EXCEPT ![<<current, b.id>>] = Available(b)]
    /\ consumed' = [consumed EXCEPT ![b.id] = @ + Available(b)]
    /\ remaining' = remaining - Available(b)

DrawMisrecorded(b) ==
    LET matched == IF remaining < Available(b) THEN remaining ELSE Available(b)
    IN  /\ alloc' = [alloc EXCEPT ![<<current, b.id>>] = remaining]
        /\ consumed' = [consumed EXCEPT ![b.id] = @ + matched]
        /\ remaining' = remaining - matched

Draw(b) ==
    LET matched == IF remaining < Available(b) THEN remaining ELSE Available(b)
    IN  /\ alloc' = [alloc EXCEPT ![<<current, b.id>>] = matched]
        /\ consumed' = [consumed EXCEPT ![b.id] = @ + matched]
        /\ remaining' = remaining - matched

\* Mutant of VisitLot: the walk does not move past an exhausted lot.
VisitLotAgain ==
    /\ phase = "match"
    /\ remaining > 0
    /\ \E b \in queue :
        /\ FirstInQueue(b)
        /\ IF Available(b) <= 0
           THEN UNCHANGED <<alloc, consumed, remaining, queue>>
           ELSE Draw(b) /\ queue' = queue \ {b}
    /\ UNCHANGED <<rows, todo, current, phase>>

\* One round of "for buy in buy_txns": skip an exhausted lot, or draw on it.
VisitLot ==
    /\ phase = "match"
    /\ remaining > 0
    /\ \E b \in queue :
        /\ FirstInQueue(b)
        /\ queue' = queue \ {b}
        /\ IF Available(b) <= 0
           THEN UNCHANGED <<alloc, consumed, remaining>>
           ELSE Draw(b)
    /\ UNCHANGED <<rows, todo, current, phase>>

\* Mutant of ConsumerCovered: a shortage of lots is not noticed.
ConsumerLeft ==
    /\ phase = "match"
    /\ remaining <= 0 \/ queue = {}
    /\ phase' = "next"
    /\ UNCHANGED <<rows, alloc, consumed, todo, current, remaining, queue>>

\* The consumer is covered: the inner loop breaks, or has run out with nothing
\* left to match, and the outer loop goes on.
ConsumerCovered ==
    /\ phase = "match"
    /\ remaining <= 0
    /\ phase' = "next"
    /\ UNCHANGED <<rows, alloc, consumed, todo, current, remaining, queue>>

\* raise ValueError: the caller rolls the whole request back.
Refuse ==
    /\ phase = "match"
    /\ remaining > 0
    /\ queue = {}
    /\ phase' = "refused"
    /\ UNCHANGED <<rows, alloc, consumed, todo, current, remaining, queue>>

Finish ==
    /\ phase = "next"
    /\ todo = {}
    /\ phase' = "done"
    /\ UNCHANGED <<rows, alloc, consumed, todo, current, remaining, queue>>

Next == Wipe \/ NextConsumer \/ VisitLot \/ ConsumerCovered \/ Refuse \/ Finish

Spec == Init /\ [][Next]_vars

\* The event loop resumes the coroutine after every awaited statement.
FairSpec == Spec /\ WF_vars(Next)

-----------------------------------------------------------------------------

LotRows == [id : Ids, type : TxnTypes, date : Nat, quantity : Int]

\* Type invariant of the loop variables.
TypeOK ==
    /\ rows \in [Ids -> [type : TxnTypes, date : Nat,
                         quantity : Int, deleted : BOOLEAN]]
    /\ alloc \in [Ids \X Ids -> Nat]
    /\ consumed \in [Ids -> Nat]
    /\ todo \subseteq Consumers(View)
    /\ current \in Ids \cup {0}
    /\ remaining \in Nat
    /\ queue \subseteq Sources(View)
    /\ phase \in {"wipe", "next", "match", "done", "refused"}

\* No lot gives out more than it holds, at any point of the walk, although
\* the availability check and the draw are separate statements of a loop that
\* also runs over rows left exhausted by earlier disposals.
NoLotOverdrawn ==
    \A b \in Sources(View) : consumed[b.id] <= b.quantity

\* First in, first out over the lots: nothing is drawn from a lot while an
\* older lot of the position still has units.
OldestLotsFirst ==
    \A a, b \in Sources(View) :
        Precedes(a, b) /\ consumed[b.id] > 0 => consumed[a.id] = a.quantity

\* First in, first out over the disposals: a later disposal never draws from
\* a lot older than one an earlier disposal draws from.
NoCrossing ==
    phase # "wipe" =>
    \A c, d \in Consumers(View), a, b \in Sources(View) :
        Precedes(c, d) /\ Precedes(a, b)
            => ~(alloc[<<c.id, b.id>>] > 0 /\ alloc[<<d.id, a.id>>] > 0)

\* After the wipe an allocation joins a live disposal to a live lot: none is
\* left under a deleted row or a row that changed its role.
AllocationsJoinLiveRows ==
    phase # "wipe" =>
    \A i, j \in Ids : alloc[<<i, j>>] > 0 =>
        /\ \E c \in Consumers(View) : c.id = i
        /\ \E b \in Sources(View) : b.id = j

\* consumed_by_lot agrees with the allocation rows it is computed from.
ConsumedIsAllocated ==
    phase # "wipe" =>
    \A b \in Sources(View) :
        consumed[b.id] = MapThenSumSet(LAMBDA i : alloc[<<i, b.id>>], Ids)

\* The open lots and the yields of a position add up to its holding: the
\* figure the holdings page derives from lots and the one it derives from
\* signed quantities agree once the recompute is done.
OpenLotsAndYieldsAreTheHolding ==
    phase = "done" =>
    LET live == {i \in Ids : ~rows[i].deleted}
        open == MapThenSumSet(LAMBDA b : b.quantity - consumed[b.id], Sources(View))
    IN  MapThenSumSet(LAMBDA i : rows[i].quantity, live)
            = open + MapThenSumSet(LAMBDA i : rows[i].quantity,
                                   {i \in live : rows[i].type = "yield"})

\* The walk ends, whatever the rows.
Terminates == <>(phase \in {"done", "refused"})

-----------------------------------------------------------------------------
(***************************************************************************)
(* What callers rely on: seen from outside, the loops attribute the        *)
(* position in one step, or refuse it.                                     *)
(***************************************************************************)

Attribution == INSTANCE LotAttribution
    WITH outcome <- CASE phase = "done"    -> "attributed"
                      [] phase = "refused" -> "refused"
                      [] OTHER             -> "pending",
         result  <- IF phase = "done" THEN alloc ELSE NoAllocations,
         view    <- View

ImplementsAttribution == Attribution!Spec
=============================================================================
