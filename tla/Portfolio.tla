----------------------------- MODULE Portfolio -----------------------------
(***************************************************************************)
(* What the pages show of the positions: the table of holdings, the        *)
(* allocation pies of /compare and the drill behind a slice, the headline  *)
(* figures of an instrument, the realized totals and the net worth chart.  *)
(* Each is computed by its own service and its own fold in the browser     *)
(* from one ledger: lots bought, units sold or trimmed, yields, quotes.    *)
(*                                                                         *)
(* One display currency is modelled (the euro, in which the ledger keeps   *)
(* its costs), so no conversion is missing; the time-weighted return and   *)
(* the tag filter are left out.  A figure that may be absent (shown as a   *)
(* dash) is a set with at most one element.                                *)
(***************************************************************************)
EXTENDS Integers, Sequences, FiniteSetsExt, SequencesExt

CONSTANTS
    Accounts,     \* account ids, ordered: the attribution breaks ties by id
    Banked,       \* the accounts flagged is_banked
    Instruments,
    Funds,        \* the instruments of type "fund"; the others are stocks
    Risky,        \* the instruments of risk level "High"; the others are "Low"
    Costs,        \* unit costs of a lot; 0 is an upward adjustment, which has none
    Prices,       \* quotes and sale prices
    Opening,      \* the ledgers it starts from: lots of adjustments, which have no cost
    MaxTrades     \* bound on the ledger's rows

VARIABLES
    lots,         \* per position: the costs of the units still in lots, oldest first
    yields,       \* per position: the units credited as yield, which belong to no lot
    gains,        \* per position: the realized gains of its disposals
    closing,      \* per position: <<>>, or the quote of the day of its last disposal (one
                  \* fetched later that day replaces it) and whether its disposals had a cost
    quote,        \* per instrument: its latest quote, if any
    traded,       \* per instrument: the price of its latest priced transaction, if any
    trades,       \* rows written so far
    drill,        \* the slice opened on /compare, if any
    excludeClosed,\* the switch of /compare
    chosen        \* the instruments the net worth chart is narrowed to

vars == <<lots, yields, gains, closing, quote, traded, trades, drill, excludeClosed, chosen>>
ledger == <<lots, yields, gains, closing, quote, traded, trades>>
page == <<drill, excludeClosed, chosen>>

Positions == Accounts \X Instruments
Dimensions == {"type", "risk", "account", "banked"}

Init ==
    /\ lots \in Opening
    /\ yields = [p \in Positions |-> 0]
    /\ gains = [p \in Positions |-> 0]
    /\ closing = [p \in Positions |-> <<>>]
    /\ quote = [i \in Instruments |-> {}]
    /\ traded = [i \in Instruments |-> {}]
    /\ trades = 0
    /\ drill = {}
    /\ excludeClosed = FALSE
    /\ chosen = {}

Total(rows, Figure(_)) == MapThenSumSet(Figure, rows)

-----------------------------------------------------------------------------
(* The positions, as the services read them off the ledger.                *)

Held(p) == Len(lots[p]) + yields[p]
OpenBasis(p) == FoldSeq(LAMBDA cost, sum : cost + sum, 0, lots[p])
Open == {p \in Positions : Held(p) > 0}
Closed == {p \in Positions : Held(p) = 0 /\ closing[p] # <<>>}
OpenOf(i) == {p \in Open : p[2] = i}
Value(p) == {Held(p) * q : q \in quote[p[2]]}

\* The realized total of an instrument, over its accounts (/api/realized).
Realized(i) == Total(Accounts, LAMBDA a : gains[<<a, i>>])

\* The lifetime figure of /compare.
Lifetime == Total(Instruments, Realized)

\* The open row that carries its instrument's realized total: the one of the
\* largest value, an unquoted one counting as -1, then the smallest account.
Rank(p) == IF Value(p) = {} THEN -1 ELSE Max(Value(p))
Representative(i) ==
    CHOOSE p \in OpenOf(i) : \A other \in OpenOf(i) :
        Rank(p) > Rank(other) \/ (Rank(p) = Rank(other) /\ p[1] <= other[1])

AttributedToAll(p) == Realized(p[2])
Attributed(p) == IF p = Representative(p[2]) THEN Realized(p[2]) ELSE 0

TypeLabel(i) == IF i \in Funds THEN "fund" ELSE "stock"
RiskLabel(i) == IF i \in Risky THEN "High" ELSE "Low"
BankedLabel(banked) == IF banked THEN "Banked" ELSE "Non-banked"

\* The rows of /api/perf.  A closed position keeps its own gains, and neither
\* the risk level of its instrument nor the flag of its account; without a basis
\* it has no average cost, so none of its units.
OpenRow(p) ==
    [account |-> p[1], instrument |-> p[2], open |-> TRUE, quantity |-> Held(p),
     cost |-> {OpenBasis(p)}, price |-> quote[p[2]], realized |-> Attributed(p),
     risk |-> RiskLabel(p[2]), banked |-> p[1] \in Banked]

ClosedRow(p) ==
    [account |-> p[1], instrument |-> p[2], open |-> FALSE, quantity |-> 0,
     cost |-> IF closing[p][2] THEN {0} ELSE {}, price |-> closing[p][1], realized |-> gains[p],
     risk |-> "", banked |-> FALSE]

PerfRows(includeClosed) ==
    {OpenRow(p) : p \in Open} \cup (IF includeClosed THEN {ClosedRow(p) : p \in Closed} ELSE {})

\* The table of closed positions (/holdings/closed) lists each with its own gains.
ClosedTable == {ClosedRow(p) : p \in Closed}

\* The slices of /api/allocation: the open positions that have a quote.
SliceOf(dimension, p) ==
    CASE dimension = "type" -> TypeLabel(p[2])
      [] dimension = "risk" -> RiskLabel(p[2])
      [] dimension = "account" -> p[1]
      [] dimension = "banked" -> BankedLabel(p[1] \in Banked)

Quoted == {p \in Open : quote[p[2]] # {}}
Slice(dimension, label) ==
    Total({p \in Quoted : SliceOf(dimension, p) = label}, LAMBDA p : Max(Value(p)))
PieTotal == Total(Quoted, LAMBDA p : Max(Value(p)))
Slices(dimension) == {SliceOf(dimension, p) : p \in Quoted}

-----------------------------------------------------------------------------
(* The table of holdings (PerfTable) and its folds.                        *)

\* A slice of the pie selects rows by the label it shows.
InSlice(row, dimension, label) ==
    CASE dimension = "type" -> TypeLabel(row.instrument) = label
      [] dimension = "risk" -> row.risk = label
      [] dimension = "account" -> row.account = label
      [] dimension = "banked" -> BankedLabel(row.banked) = label

\* What a row is worth: a quantity of nothing is worth nothing.
Market(row) == {row.quantity * price : price \in row.price}

\* The rows of one instrument as one: costs and quotes of the open ones, gains
\* of all.  Without an open row there is no cost, and the price is the last
\* close of the first row.
Aggregated(group) ==
    LET open == {r \in group : r.open}
        source == IF open = {} THEN group ELSE open
        first == CHOOSE r \in source : \A other \in source : r.account <= other.account
    IN  [instrument |-> first.instrument, open |-> open # {},
         quantity |-> Total(group, LAMBDA r : r.quantity),
         cost |-> IF open = {} THEN {} ELSE {Total(open, LAMBDA r : Max(r.cost))},
         price |-> first.price,
         realized |-> Total(group, LAMBDA r : r.realized)]

ByInstrument(rows) ==
    {Aggregated({r \in rows : r.instrument = i}) : i \in {r.instrument : r \in rows}}

\* The table of open holdings has a row per instrument.
HoldingsTable == ByInstrument(PerfRows(FALSE))

\* The totals row: a figure any row lacks is absent.
SumIfAll(rows, Figure(_)) ==
    IF \E r \in rows : Figure(r) = {} THEN {} ELSE {Total(rows, LAMBDA r : Max(Figure(r)))}

Totals(rows) ==
    [value |-> SumIfAll(rows, Market),
     cost |-> SumIfAll(rows, LAMBDA r : r.cost),
     realized |-> Total(rows, LAMBDA r : r.realized)]

\* The table behind a slice: per account for an account, per instrument otherwise.
DrillRows(dimension, label, includeClosed) ==
    LET rows == {r \in PerfRows(includeClosed) : InSlice(r, dimension, label)}
    IN  IF dimension = "account" THEN rows ELSE ByInstrument(rows)

-----------------------------------------------------------------------------
(* The page of an instrument, and the chart.                               *)

\* The rows of an instrument in one: figures of the open ones, gains of all.
InstrumentFigures(rows) ==
    LET open == {r \in rows : r.open}
    IN  [quantity |-> Total(open, LAMBDA r : r.quantity),
         value |-> IF open = {} THEN {} ELSE SumIfAll(open, Market),
         cost |-> IF open = {} THEN {} ELSE SumIfAll(open, LAMBDA r : r.cost),
         realized |-> Total(rows, LAMBDA r : r.realized)]

RowsOf(i) == {r \in PerfRows(TRUE) : r.instrument = i}

\* The headline figures of the instrument page.
Headline(i) == InstrumentFigures(RowsOf(i))

\* The rows per account below it; a single open one is not repeated.
AccountRows(i) ==
    LET rows == RowsOf(i)
    IN  IF Cardinality(rows) = 1 /\ \A r \in rows : r.open THEN {} ELSE rows

\* The last point of the chart: a position without a quote is carried at the
\* price of the latest trade; no instrument chosen means all of them.
Worth(p) == Held(p) * (IF quote[p[2]] # {} THEN Max(quote[p[2]])
                       ELSE IF traded[p[2]] # {} THEN Max(traded[p[2]]) ELSE 0)
Charted == IF chosen = {} THEN Instruments ELSE chosen
LastPoint == Total({p \in Open : p[2] \in Charted}, Worth)

-----------------------------------------------------------------------------
(* The ledger.                                                             *)

Trade == trades < MaxTrades /\ trades' = trades + 1 /\ UNCHANGED page

\* A unit is bought, or added by an adjustment, which has no price and no cost.
Buy(p, cost) ==
    /\ Trade
    /\ lots' = [lots EXCEPT ![p] = Append(@, cost)]
    /\ traded' = IF cost = 0 THEN traded ELSE [traded EXCEPT ![p[2]] = {cost}]
    /\ UNCHANGED <<yields, gains, closing, quote>>

\* The oldest unit leaves at a price (a sale, a spend) or without one (a trim).
Dispose(p, price) ==
    /\ Trade
    /\ lots[p] # <<>>
    /\ lots' = [lots EXCEPT ![p] = Tail(@)]
    /\ gains' = [gains EXCEPT ![p] = @ + Total(price, LAMBDA paid : paid - Head(lots[p]))]
    /\ closing' = [closing EXCEPT ![p] =
          <<quote[p[2]], Head(lots[p]) > 0 \/ (closing[p] # <<>> /\ closing[p][2])>>]
    /\ traded' = IF price = {} THEN traded ELSE [traded EXCEPT ![p[2]] = price]
    /\ UNCHANGED <<yields, quote>>

Accrue(p) ==
    /\ Trade
    /\ p \in Open
    /\ yields' = [yields EXCEPT ![p] = @ + 1]
    /\ UNCHANGED <<lots, gains, closing, quote, traded>>

\* The quote of a day is also the closing one of what was disposed of that day:
\* a closed position's quote is looked up when its row is asked for.
Quote(i, price) ==
    /\ quote[i] # {price}
    /\ quote' = [quote EXCEPT ![i] = {price}]
    /\ \E today \in SUBSET {p \in Positions : p[2] = i /\ closing[p] # <<>>} :
          closing' = [p \in Positions |-> IF p \in today THEN <<{price}, closing[p][2]>>
                                          ELSE closing[p]]
    /\ UNCHANGED <<lots, yields, gains, traded, trades, page>>

Ledger ==
    \/ \E p \in Positions :
        \/ \E cost \in Costs : Buy(p, cost)
        \/ \E price \in {{}} \cup {{q} : q \in Prices} : Dispose(p, price)
        \/ Accrue(p)
    \/ \E i \in Instruments, price \in Prices : Quote(i, price)

-----------------------------------------------------------------------------
(* The pages.                                                              *)

\* A slice opens its drill, a dialog over the pies and their switch.
ClickSlice(dimension, label) ==
    /\ drill = {}
    /\ drill' = {<<dimension, label>>}
    /\ UNCHANGED <<ledger, excludeClosed, chosen>>

CloseDrill ==
    /\ drill # {}
    /\ drill' = {}
    /\ UNCHANGED <<ledger, excludeClosed, chosen>>

ToggleClosed ==
    /\ drill = {}
    /\ excludeClosed' = ~excludeClosed
    /\ UNCHANGED <<ledger, drill, chosen>>

\* The selection of the chart lists the instruments that are held: one that was
\* chosen and then sold stays chosen until all are cleared.
Choose(i) ==
    /\ OpenOf(i) # {}
    /\ chosen' = IF i \in chosen THEN chosen \ {i} ELSE chosen \cup {i}
    /\ UNCHANGED <<ledger, drill, excludeClosed>>

ClearChosen ==
    /\ chosen # {}
    /\ chosen' = {}
    /\ UNCHANGED <<ledger, drill, excludeClosed>>

Pages ==
    \/ \E dimension \in Dimensions : \E label \in Slices(dimension) : ClickSlice(dimension, label)
    \/ CloseDrill
    \/ ToggleClosed
    \/ \E i \in Instruments : Choose(i)
    \/ ClearChosen

Next == Ledger \/ Pages

Spec == Init /\ [][Next]_vars

-----------------------------------------------------------------------------

TypeOK ==
    /\ lots \in [Positions -> Seq(Costs)]
    /\ yields \in [Positions -> Nat]
    /\ gains \in [Positions -> Int]
    /\ \A p \in Positions :
        closing[p] \in {<<>>} \cup (({{}} \cup {{q} : q \in Prices}) \X BOOLEAN)
    /\ \A i \in Instruments :
        quote[i] \subseteq Prices /\ traded[i] \subseteq Costs \cup Prices
    /\ trades \in 0..MaxTrades
    /\ Cardinality(drill) <= 1
    /\ excludeClosed \in BOOLEAN
    /\ chosen \subseteq Instruments

\* The drill behind a slice totals what the slice shows, whether or not it lists
\* closed positions; without them it always has a total, unless a position of
\* the slice has no quote (and is not in the pie).
DrillMatchesSlice ==
    \A slice \in drill :
        LET rows == DrillRows(slice[1], slice[2], ~excludeClosed)
            value == Totals(rows).value
        IN  /\ value \subseteq {Slice(slice[1], slice[2])}
            /\ excludeClosed /\ Open \subseteq Quoted => value # {}

\* An instrument has the same quantity, cost and value in the table of holdings,
\* in its headline figures and in the rows per account.
RowMatchesHeadline ==
    \A row \in HoldingsTable :
        LET head == Headline(row.instrument)
            accounts == {r \in AccountRows(row.instrument) : r.open}
        IN  /\ row.quantity = head.quantity
            /\ row.cost = head.cost
            /\ Market(row) = head.value
            /\ accounts # {} => SumIfAll(accounts, Market) = head.value

\* The open rows of an instrument carry its realized total between them, once.
OpenRowsRealizeAll ==
    \A row \in HoldingsTable : row.realized = Realized(row.instrument)

\* The lifetime figure is what the open rows carry and, of the instruments nobody
\* holds any more, the table of closed positions.
GainsAddUp ==
    Lifetime = Total(PerfRows(FALSE), LAMBDA r : r.realized)
             + Total({r \in ClosedTable : OpenOf(r.instrument) = {}}, LAMBDA r : r.realized)

\* With every open position quoted, the chart ends where the pies' total and the
\* headline values of the chosen instruments are.
ChartEndsAtTotal ==
    Open \subseteq Quoted =>
        /\ chosen = {} => LastPoint = PieTotal
        /\ LastPoint = Total({i \in Charted : OpenOf(i) # {}}, LAMBDA i : Max(Headline(i).value))

\* The figures of one ledger agree, whichever page shows them.
FiguresAgree ==
    /\ DrillMatchesSlice
    /\ RowMatchesHeadline
    /\ OpenRowsRealizeAll
    /\ GainsAddUp
    /\ ChartEndsAtTotal

\* The realized figure of an instrument's page, which says "Lifetime, includes
\* closed lots", is the sum of its gains.
RealizedCountedOnce ==
    \A i \in Instruments : Headline(i).realized = Realized(i)
=============================================================================
