------------------------------- MODULE Ledger -------------------------------
(***************************************************************************)
(* The transaction ledger and the requests that change it: creating,       *)
(* editing and deleting a transaction, linked trades, and reconciliation   *)
(* events (routers/transactions.py, services/trades.py,                    *)
(* services/reconciliation.py).                                            *)
(*                                                                         *)
(* Interleaving.  All requests run on one event loop; every awaited        *)
(* statement lets another request run.  A request's SELECTs before its     *)
(* first write see the committed rows of that moment and hold nothing; its *)
(* first flush takes SQLite's only write lock and everything from there to *)
(* commit or rollback is invisible to, and undisturbed by, the others.     *)
(* So PUT and DELETE are two actions, the check and the write, and a       *)
(* reconciliation event, whose loop the properties look into, is a series  *)
(* of staged steps under the lock.                                         *)
(*                                                                         *)
(* Allocations.  FifoMatch shows that a recompute replaces a position's    *)
(* allocations by a function of the rows it read.  The ledger therefore    *)
(* records those rows: matched[p] is the view the allocations of position  *)
(* p were last computed from.                                              *)
(***************************************************************************)
EXTENDS LotSemantics, Sequences, SequencesExt

CONSTANTS Clients, Accounts, Instruments, Dates,
          Quantities,      \* positive amounts a form submits
          Edits,           \* bodies of PUT /api/transactions/{id}
          Opening,         \* the ledger the model starts from
          Payloads,        \* bodies of POST /api/reconciliation/events
          Nobody,          \* holder of the free write lock
          MaxTxns, MaxEdits, MaxEvents   \* bounds of the model

Positions == Accounts \X Instruments

TxnIds == 1..MaxTxns

\* "price" stands for unit_price, fx_rate_to_eur and a changed price_currency,
\* "notes" for notes and fee_eur.
Fields == {"date", "quantity", "price", "notes"}

\* Mutants of the next definition: the frozenset without one of its names.
RelevantFieldsSansDate == {"quantity", "price"}
RelevantFieldsSansQuantity == {"date", "price"}

FifoRelevantFields == {"date", "quantity", "price"}

Actions == {"accept", "reject", "dismiss", "matched"}

RejectTypes == {"buy", "sell", "spend"}

ASSUME LedgerAssumption ==
    /\ Dates \subseteq Nat
    /\ Quantities \subseteq Nat \ {0}
    /\ Edits \subseteq [fields : SUBSET Fields, date : Dates, quantity : Int]
    /\ Nobody \notin Clients
    /\ MaxTxns \in Nat

Txns == [position : Positions, type : TxnTypes, date : Dates,
         quantity : Int, trade : 0..MaxTxns, deleted : BOOLEAN]

View(t, p) ==
    {LotRow(i, t[i]) :
        i \in {j \in DOMAIN t : t[j].position = p /\ IsMatchable(t[j])}}

\* A ledger of plain, live transactions whose lots cover its disposals.
ASSUME OpeningAssumption ==
    /\ Opening \in Seq(Txns)
    /\ Len(Opening) <= MaxTxns
    /\ \A i \in DOMAIN Opening : Opening[i].trade = 0 /\ ~Opening[i].deleted
    /\ \A p \in Positions : Covered(View(Opening, p))

\* The request body's schema: a rejected transaction must name an instrument
\* of the holdings array.
ASSUME PayloadAssumption ==
    \A p \in Payloads :
        /\ p.account \in Accounts
        /\ p.date \in Dates
        /\ DOMAIN p.holdings \subseteq Instruments
        /\ \A i \in DOMAIN p.holdings : p.holdings[i] \in Int
        /\ p.decisions \in Seq([instrument : Instruments, action : Actions])
        /\ p.rejected \in Seq([instrument : DOMAIN p.holdings,
                               type : RejectTypes, date : Dates])

VARIABLES txns,     \* the committed transaction table, in insertion order
          matched,  \* per position, the rows its allocations were matched from
          audit,    \* per transaction: edit rows, delete rows, last fields logged
          events,   \* saved reconciliation events
          request,  \* what each client's request in flight has read
          lock,     \* the client inside a staged write transaction
          staged    \* that transaction's own view of the tables

vars == <<txns, matched, audit, events, request, lock, staged>>

\* Mutant of Txn: the trade_pair_id is set on the sell leg only.
TxnLinkedOnSale(position, type, date, quantity, trade) ==
    [position |-> position, type |-> type, date |-> date, quantity |-> quantity,
     trade |-> IF type = "sell" THEN trade ELSE 0, deleted |-> FALSE]

Txn(position, type, date, quantity, trade) ==
    [position |-> position, type |-> type, date |-> date,
     quantity |-> quantity, trade |-> trade, deleted |-> FALSE]

\* Signed quantity of a position over its live rows, whatever their date.
Held(t, p) ==
    MapThenSumSet(LAMBDA i : t[i].quantity,
                  {i \in DOMAIN t : t[i].position = p /\ ~t[i].deleted})

Idle == [kind |-> "idle"]

NothingStaged ==
    [txns |-> <<>>, matched |-> [p \in Positions |-> {}],
     decisions |-> <<>>, rejected |-> <<>>]

Init ==
    /\ txns = Opening
    /\ matched = [p \in Positions |-> Basis(View(Opening, p))]
    /\ audit = [i \in TxnIds |-> [edits |-> 0, deletes |-> 0, logged |-> {}]]
    /\ events = <<>>
    /\ request = [c \in Clients |-> Idle]
    /\ lock = Nobody
    /\ staged = NothingStaged

-----------------------------------------------------------------------------
(***************************************************************************)
(* POST /api/transactions.  Nothing is read before the first flush, so the *)
(* handler is one step.  A refused body (no lots to consume, no FX rate)   *)
(* leaves no trace, here and below.                                        *)
(***************************************************************************)

CreateTransaction(c) ==
    /\ request[c] = Idle
    /\ lock = Nobody
    /\ Len(txns) < MaxTxns
    /\ \E type \in {"buy", "spend", "yield"}, p \in Positions,
          d \in Dates, q \in Quantities :
        LET t == Append(txns, Txn(p, type, d, SignedQuantity(type, q), 0))
        IN  /\ txns' = t
            /\ IF type \in LotAffectingTypes
               THEN /\ Covered(View(t, p))
                    /\ matched' = [matched EXCEPT ![p] = Basis(View(t, p))]
               ELSE UNCHANGED matched
    /\ UNCHANGED <<audit, events, request, lock, staged>>

\* POST /api/trades: two rows that share a trade_pair_id (the number of the
\* sell leg), then both positions are recomputed.
CreateTrade(c) ==
    /\ request[c] = Idle
    /\ lock = Nobody
    /\ Len(txns) + 1 < MaxTxns
    /\ \E sold, received \in Positions, d \in Dates, q, r \in Quantities :
        LET pair == Len(txns) + 1
            t == Append(Append(txns,
                     Txn(sold, "sell", d, SignedQuantity("sell", q), pair)),
                     Txn(received, "buy", d, SignedQuantity("buy", r), pair))
        IN  /\ sold[2] # received[2]
            /\ Covered(View(t, sold))
            /\ Covered(View(t, received))
            /\ txns' = t
            /\ matched' = [matched EXCEPT ![sold] = Basis(View(t, sold)),
                                          ![received] = Basis(View(t, received))]
    /\ UNCHANGED <<audit, events, request, lock, staged>>

-----------------------------------------------------------------------------
(***************************************************************************)
(* PUT /api/transactions/{id}.  The SELECT leaves a copy of the row in the *)
(* session, and the session never refreshes it: the later statements of    *)
(* the request see the row's columns as they were then, save those the     *)
(* request itself sets.                                                    *)
(***************************************************************************)

\* Mutant of BeginUpdate: the deleted_at check is missing.
BeginUpdateUnchecked(c) ==
    /\ request[c] = Idle
    /\ \E i \in DOMAIN txns, e \in Edits :
        /\ MapThenSumSet(LAMBDA k : audit[k].edits, TxnIds) < MaxEdits
        /\ ("quantity" \in e.fields /\ txns[i].type # "adjustment") => e.quantity > 0
        /\ request' = [request EXCEPT ![c] =
                [kind |-> "update", id |-> i, seen |-> txns[i], edit |-> e]]
    /\ UNCHANGED <<txns, matched, audit, events, lock, staged>>

BeginUpdate(c) ==
    /\ request[c] = Idle
    /\ \E i \in DOMAIN txns, e \in Edits :
        /\ ~txns[i].deleted
        /\ MapThenSumSet(LAMBDA k : audit[k].edits, TxnIds) < MaxEdits
        /\ ("quantity" \in e.fields /\ txns[i].type # "adjustment") => e.quantity > 0
        /\ request' = [request EXCEPT ![c] =
                [kind |-> "update", id |-> i, seen |-> txns[i], edit |-> e]]
    /\ UNCHANGED <<txns, matched, audit, events, lock, staged>>

\* The request's own copy of the row, after setattr.
Edited(r) ==
    [r.seen EXCEPT
        !.date = IF "date" \in r.edit.fields THEN r.edit.date ELSE @,
        !.quantity = IF "quantity" \in r.edit.fields
                     THEN SignedQuantity(r.seen.type, r.edit.quantity) ELSE @]

\* Mutant of Written: UPDATE writes every column of the session's copy.
WrittenWhole(r, row) == Edited(r)

\* UPDATE writes the columns whose value changed in the session.
Written(r, row) ==
    [row EXCEPT
        !.date = IF Edited(r).date # r.seen.date THEN Edited(r).date ELSE @,
        !.quantity = IF Edited(r).quantity # r.seen.quantity
                     THEN Edited(r).quantity ELSE @]

\* compute_field_diff: the values of the body against the stored ones.  A body
\* carries quantities unsigned; whether "price" and "notes" differ is open.
PossibleDiffs(r) ==
    {s \in SUBSET r.edit.fields :
        \A f \in r.edit.fields \cap {"date", "quantity"} :
            f \in s <=> r.edit[f] # r.seen[f]}

\* Mutant of ViewInSession: the edited row counts as live because it was when
\* the session loaded it.
ViewInSessionStale(t, r) ==
    {v \in View(t, r.seen.position) : v.id # r.id} \cup {LotRow(r.id, Edited(r))}

\* The recompute filters and orders by the table's columns, but takes the
\* edited row's quantity from the session.
ViewInSession(t, r) ==
    {IF v.id = r.id THEN [v EXCEPT !.quantity = Edited(r).quantity] ELSE v :
        v \in View(t, r.seen.position)}

CommitUpdate(c) ==
    /\ request[c].kind = "update"
    /\ lock = Nobody
    /\ LET r == request[c]
           t == [txns EXCEPT ![r.id] = Written(r, @)]
           v == ViewInSession(t, r)
       IN  /\ txns' = t
           /\ IF /\ r.seen.type \in LotAffectingTypes
                 /\ r.edit.fields \cap FifoRelevantFields # {}
              THEN /\ Covered(v)
                   /\ matched' = [matched EXCEPT ![r.seen.position] = Basis(v)]
              ELSE UNCHANGED matched
           /\ \E diff \in PossibleDiffs(r) :
                audit' = IF diff = {} THEN audit
                         ELSE [audit EXCEPT ![r.id].edits = @ + 1,
                                            ![r.id].logged = diff]
    /\ request' = [request EXCEPT ![c] = Idle]
    /\ UNCHANGED <<events, lock, staged>>

-----------------------------------------------------------------------------
(***************************************************************************)
(* DELETE /api/transactions/{id}: soft delete, with the other leg of a     *)
(* linked trade.                                                           *)
(***************************************************************************)

BeginDelete(c) ==
    /\ request[c] = Idle
    /\ \E i \in DOMAIN txns :
        /\ ~txns[i].deleted
        /\ request' = [request EXCEPT ![c] = [kind |-> "delete", id |-> i]]
    /\ UNCHANGED <<txns, matched, audit, events, lock, staged>>

\* Mutant of Cascade: the other leg of the trade is forgotten.
CascadeAlone(i) == {i}

\* The row itself and its live partner, looked up under the lock.
Cascade(i) ==
    {i} \cup {j \in DOMAIN txns : /\ txns[i].trade # 0
                                  /\ txns[j].trade = txns[i].trade
                                  /\ ~txns[j].deleted}

Tombstoned(t, gone) ==
    [i \in DOMAIN t |-> IF i \in gone THEN [t[i] EXCEPT !.deleted = TRUE] ELSE t[i]]

\* Mutants of DeletionsLogged: only the row of the request is audited; the
\* trail is replaced by the rows of this deletion.
DeletionLogged(id, gone) == [audit EXCEPT ![id].deletes = @ + 1]

DeletionsReplace(id, gone) ==
    [i \in gone |-> [audit[i] EXCEPT !.deletes = @ + 1]]

\* One "delete" row of the audit trail for every row that goes.
DeletionsLogged(id, gone) ==
    [i \in TxnIds |-> IF i \in gone THEN [audit[i] EXCEPT !.deletes = @ + 1]
                      ELSE audit[i]]

CommitDelete(c) ==
    /\ request[c].kind = "delete"
    /\ lock = Nobody
    /\ LET gone == Cascade(request[c].id)
           t    == Tombstoned(txns, gone)
           hit  == {txns[i].position :
                       i \in {j \in gone : txns[j].type \in LotAffectingTypes}}
       IN  /\ \A p \in hit : Covered(View(t, p))
           /\ txns' = t
           /\ matched' = [p \in Positions |->
                             IF p \in hit THEN Basis(View(t, p)) ELSE matched[p]]
           /\ audit' = DeletionsLogged(request[c].id, gone)
    /\ request' = [request EXCEPT ![c] = Idle]
    /\ UNCHANGED <<events, lock, staged>>

-----------------------------------------------------------------------------
(***************************************************************************)
(* POST /api/reconciliation/events: save_event.  The holdings it compares  *)
(* the snapshot with are read before the event row is flushed.             *)
(***************************************************************************)

BeginReconcile(c) ==
    /\ request[c] = Idle
    /\ Len(events) < MaxEvents
    /\ \E p \in Payloads :
        request' = [request EXCEPT ![c] =
            [kind |-> "reconcile", payload |-> p,
             held |-> [i \in Instruments |-> Held(txns, <<p.account, i>>)]]]
    /\ UNCHANGED <<txns, matched, audit, events, lock, staged>>

SnapshotQuantity(p, i) == IF i \in DOMAIN p.holdings THEN p.holdings[i] ELSE 0

\* Mutant of Delta: the difference the wrong way round.
DeltaReversed(c, i) == request[c].held[i] - SnapshotQuantity(request[c].payload, i)

Delta(c, i) == SnapshotQuantity(request[c].payload, i) - request[c].held[i]

\* Flushing the event row takes the write lock.
StageEvent(c) ==
    /\ request[c].kind = "reconcile"
    /\ lock = Nobody
    /\ lock' = c
    /\ staged' = [txns |-> txns, matched |-> matched,
                  decisions |-> request[c].payload.decisions,
                  rejected |-> request[c].payload.rejected]
    /\ UNCHANGED <<txns, matched, audit, events, request>>

\* session.add(row), flush, recompute_fifo_for_pair; then the rest of the loop.
StageTxn(row, decisions, rejected) ==
    LET t == Append(staged.txns, row)
        p == row.position
    IN  /\ Len(staged.txns) < MaxTxns
        /\ Covered(View(t, p))
        /\ staged' = [txns |-> t,
                      matched |-> [staged.matched EXCEPT ![p] = Basis(View(t, p))],
                      decisions |-> decisions, rejected |-> rejected]

StageDecision(c) ==
    /\ lock = c
    /\ staged.decisions # <<>>
    /\ LET p     == request[c].payload
           d     == Head(staged.decisions)
           rest  == Tail(staged.decisions)
           delta == Delta(c, d.instrument)
           adjustment(q) == Txn(<<p.account, d.instrument>>, "adjustment", p.date, q, 0)
       IN  \/ /\ d.action \in {"matched", "reject"} \/ (d.action = "accept" /\ delta = 0)
              /\ staged' = [staged EXCEPT !.decisions = rest]
           \/ /\ d.action = "accept"
              /\ delta # 0
              /\ StageTxn(adjustment(delta), rest, staged.rejected)
           \/ \* A dismissed drift leaves an adjustment by zero: no recompute.
              /\ d.action = "dismiss"
              /\ Len(staged.txns) < MaxTxns
              /\ staged' = [staged EXCEPT !.decisions = rest,
                                          !.txns = Append(@, adjustment(0))]
    /\ UNCHANGED <<txns, matched, audit, events, request, lock>>

\* The transactions entered for rejected drifts, by the drift's size.
StageRejected(c) ==
    /\ lock = c
    /\ staged.decisions = <<>>
    /\ staged.rejected # <<>>
    /\ LET p    == request[c].payload
           r    == Head(staged.rejected)
           rest == Tail(staged.rejected)
           size == Magnitude(Delta(c, r.instrument))
       IN  IF size = 0
           THEN staged' = [staged EXCEPT !.rejected = rest]
           ELSE StageTxn(Txn(<<p.account, r.instrument>>, r.type, r.date,
                             SignedQuantity(r.type, size), 0), <<>>, rest)
    /\ UNCHANGED <<txns, matched, audit, events, request, lock>>

CommitEvent(c) ==
    /\ lock = c
    /\ staged.decisions = <<>>
    /\ staged.rejected = <<>>
    /\ txns' = staged.txns
    /\ matched' = staged.matched
    /\ events' = Append(events, request[c].payload)
    /\ lock' = Nobody
    /\ staged' = NothingStaged
    /\ request' = [request EXCEPT ![c] = Idle]
    /\ UNCHANGED audit

-----------------------------------------------------------------------------
(***************************************************************************)
(* A request that ends without effect: refused by a recompute or by the FX *)
(* provider, timed out waiting for the lock, or gone with the process.     *)
(***************************************************************************)

Rollback(c) ==
    /\ lock = c
    /\ lock' = Nobody
    /\ staged' = NothingStaged
    /\ request' = [request EXCEPT ![c] = Idle]
    /\ UNCHANGED <<txns, matched, audit, events>>

Abandon(c) ==
    /\ request[c] # Idle
    /\ lock # c
    /\ request' = [request EXCEPT ![c] = Idle]
    /\ UNCHANGED <<txns, matched, audit, events, lock, staged>>

Next ==
    \E c \in Clients :
        \/ CreateTransaction(c) \/ CreateTrade(c)
        \/ BeginUpdate(c) \/ CommitUpdate(c)
        \/ BeginDelete(c) \/ CommitDelete(c)
        \/ BeginReconcile(c) \/ StageEvent(c) \/ StageDecision(c)
        \/ StageRejected(c) \/ CommitEvent(c)
        \/ Rollback(c) \/ Abandon(c)

Spec == Init /\ [][Next]_vars

-----------------------------------------------------------------------------

Views == SUBSET [id : TxnIds, type : TxnTypes, date : Dates, quantity : Int]

Requests ==
    {Idle}
    \cup [kind : {"update"}, id : TxnIds, seen : Txns, edit : Edits]
    \cup [kind : {"delete"}, id : TxnIds]
    \cup [kind : {"reconcile"}, payload : Payloads, held : [Instruments -> Int]]

\* Type invariant of the tables and the requests in flight.
TypeOK ==
    /\ txns \in Seq(Txns)
    /\ Len(txns) <= MaxTxns
    /\ matched \in [Positions -> Views]
    /\ audit \in [TxnIds -> [edits : Nat, deletes : Nat, logged : SUBSET Fields]]
    /\ events \in Seq(Payloads)
    /\ request \in [Clients -> Requests]
    /\ lock \in Clients \cup {Nobody}
    /\ staged.txns \in Seq(Txns)
    /\ Len(staged.txns) <= MaxTxns
    /\ staged.matched \in [Positions -> Views]

\* Linked trades: the two legs of a trade are deleted together, however many
\* requests delete, edit or reconcile around them.  (The cascade of DELETE and
\* its lookup of a still live partner.)
TradeLegsTogether ==
    \A i, j \in DOMAIN txns :
        txns[i].trade # 0 /\ txns[i].trade = txns[j].trade
            => txns[i].deleted = txns[j].deleted

\* A trade is one sell and one buy: nothing else joins it.
TradesArePairs ==
    \A i \in DOMAIN txns : txns[i].trade # 0 =>
        \E j \in DOMAIN txns : /\ j # i
                               /\ {txns[i].type, txns[j].type} = {"sell", "buy"}
                               /\ {k \in DOMAIN txns : txns[k].trade = txns[i].trade} = {i, j}

\* "the alloc state is always a pure function of the current live
\* transactions" (services/fifo.py:7-8): every position's allocations stem
\* from its present live rows, whichever path changed them last.
AllocationsCurrent ==
    \A p \in Positions : matched[p] = Basis(View(txns, p))

\* Whatever races, allocations are matched from rows that are live and in the
\* order of their present dates: only a quantity can be out of date.
AllocationsOfLiveRows ==
    \A p \in Positions : \A r \in matched[p] :
        /\ txns[r.id].position = p
        /\ ~txns[r.id].deleted
        /\ txns[r.id].date = r.date

\* "you cannot orphan a dependent sell" (routers/transactions.py:368): in every
\* committed state the live lots of a position cover its live disposals.
DisposalsCovered ==
    \A p \in Positions : Covered(View(txns, p))

\* The audit trail knows every deletion exactly once, the cascaded ones too
\* ("second delete is invalid", routers/transactions.py:349).
DeletionsAuditedOnce ==
    \A i \in DOMAIN txns : audit[i].deletes = IF txns[i].deleted THEN 1 ELSE 0

\* Every deletion is audited, also when requests race.
DeletionsAudited ==
    \A i \in DOMAIN txns : txns[i].deleted <=> audit[i].deletes > 0

\* "Cannot edit a tombstoned row" (routers/transactions.py:236).
TombstonesFrozen ==
    [][\A i \in DOMAIN txns : txns[i].deleted => txns'[i] = txns[i]]_vars

\* No request brings a deleted row back or loses a row.
DeletionIsFinal ==
    [][\A i \in DOMAIN txns :
          /\ i \in DOMAIN txns'
          /\ txns[i].deleted => txns'[i].deleted]_vars

Accepts(ds, i) == \E k \in DOMAIN ds : ds[k].action = "accept" /\ ds[k].instrument = i

AcceptedOnce(ds) ==
    \A j, k \in DOMAIN ds :
        ds[j].action = "accept" /\ ds[k].action = "accept" /\ ds[j].instrument = ds[k].instrument
            => j = k

\* A body that accepts no drift twice and enters no transaction for a drift it
\* accepts.  The endpoint takes any body, and the page sends others too: see
\* AcceptedGapsClose in ReconScreen.
CleanBody(p) ==
    /\ AcceptedOnce(p.decisions)
    /\ \A k \in DOMAIN p.rejected : ~Accepts(p.decisions, p.rejected[k].instrument)

\* "an accept-drift correctly closes the gap between the broker's reported qty
\* and the user's current app-state" (services/reconciliation.py:215-217): an
\* event of a clean body leaves every holding it accepts at the broker's figure.
AcceptClosesGap ==
    [][Len(events') > Len(events) /\ CleanBody(Last(events')) =>
        LET p == Last(events')
        IN  \A i \in Instruments :
                Accepts(p.decisions, i) =>
                    Held(txns', <<p.account, i>>) = SnapshotQuantity(p, i)]_vars
=============================================================================
