------------------------- MODULE LedgerSerial_proofs -------------------------
(***************************************************************************)
(* What the ledger guarantees when requests come one at a time, for any    *)
(* tables, bodies and bounds: every position's allocations are matched     *)
(* from its present live rows, and its lots cover its disposals.  With two *)
(* clients this is false (run ledger_stale_edit), and the proof shows what *)
(* it rests on: the row an edit has loaded is the row in the table.        *)
(***************************************************************************)
EXTENDS Ledger_proofs

OneClient == \A c, d \in Clients : c = d

CurrentAt(t, m) ==
    \A p \in Positions : m[p] = Basis(View(t, p)) /\ Covered(View(t, p))

LoadedRowsCurrent ==
    \A c \in Clients :
        request[c].kind = "update" => request[c].seen = txns[request[c].id]

SerialInv ==
    /\ IInv
    /\ CurrentAt(txns, matched)
    /\ lock # Nobody => CurrentAt(staged.txns, staged.matched)
    /\ LoadedRowsCurrent

-----------------------------------------------------------------------------

Matched(t, i, p) == i \in DOMAIN t /\ t[i].position = p /\ IsMatchable(t[i])

\* A view depends on the matchable rows of the position and what they hold.
LEMMA ViewSame ==
    ASSUME NEW t, NEW u, NEW p,
           \A i : Matched(t, i, p) <=> Matched(u, i, p),
           \A i : Matched(t, i, p) => LotRow(i, t[i]) = LotRow(i, u[i])
    PROVE  View(u, p) = View(t, p)
  <1>1. \A s : View(s, p) = {LotRow(i, s[i]) : i \in {j \in DOMAIN s : Matched(s, j, p)}}
    BY DEF View, Matched
  <1>2. \A i : Matched(t, i, p) => i \in DOMAIN t
    BY DEF Matched
  <1>3. \A i : Matched(u, i, p) => i \in DOMAIN u
    BY DEF Matched
  <1>4. ASSUME NEW x PROVE x \in View(u, p) <=> x \in View(t, p)
    <2>1. x \in View(t, p) <=> \E i : Matched(t, i, p) /\ x = LotRow(i, t[i])
      BY <1>1, <1>2
    <2>2. x \in View(u, p) <=> \E i : Matched(u, i, p) /\ x = LotRow(i, u[i])
      BY <1>1, <1>3
    <2> QED BY <2>1, <2>2
  <1> QED BY <1>4

\* A row that another position or no matching reads does not change a view.
LEMMA AppendElsewhere ==
    ASSUME NEW t, \E S : t \in Seq(S), NEW row, NEW p,
           row.position # p \/ ~IsMatchable(row)
    PROVE  View(Append(t, row), p) = View(t, p)
  <1> DEFINE u == Append(t, row)
  <1>1. /\ Len(t) \in Nat
        /\ DOMAIN t = 1..Len(t)
        /\ DOMAIN u = 1..(Len(t) + 1)
        /\ \A i \in DOMAIN t : u[i] = t[i]
        /\ u[Len(t) + 1] = row
    BY Appended
  <1> HIDE DEF u
  <1>2. DOMAIN u = DOMAIN t \cup {Len(t) + 1} /\ Len(t) + 1 \notin DOMAIN t
    BY <1>1
  <1>3. \A i : Matched(t, i, p) <=> Matched(u, i, p)
    BY <1>1, <1>2 DEF Matched
  <1>4. \A i : Matched(t, i, p) => LotRow(i, t[i]) = LotRow(i, u[i])
    BY <1>1 DEF Matched
  <1>5. View(u, p) = View(t, p)
    BY <1>3, <1>4, ViewSame
  <1> QED BY <1>5 DEF u

\* A dismissed drift's adjustment by zero neither opens nor consumes a lot.
LEMMA AppendZero ==
    ASSUME NEW t, \E S : t \in Seq(S), NEW row, NEW p,
           row.type = "adjustment", row.quantity = 0
    PROVE  /\ Basis(View(Append(t, row), p)) = Basis(View(t, p))
           /\ Covered(View(Append(t, row), p)) <=> Covered(View(t, p))
  <1> DEFINE u == Append(t, row)
             n == Len(t) + 1
             z == LotRow(n, row)
  <1>1. /\ Len(t) \in Nat
        /\ DOMAIN t = 1..Len(t)
        /\ DOMAIN u = 1..n
        /\ \A i \in DOMAIN t : u[i] = t[i]
        /\ u[n] = row
    BY Appended
  <1> HIDE DEF u
  <1>2. DOMAIN u = DOMAIN t \cup {n} /\ n \notin DOMAIN t
    BY <1>1
  <1>3. View(t, p) \subseteq View(u, p) /\ View(u, p) \subseteq View(t, p) \cup {z}
    BY <1>1, <1>2 DEF View
  <1>4. z.type = "adjustment" /\ z.quantity = 0
    BY DEF LotRow
  <1> HIDE DEF z
  <1>5. /\ ~IsLotSource(z.type, z.quantity)
        /\ ~IsLotConsuming(z.type, z.quantity)
    BY <1>4 DEF IsLotSource, IsLotConsuming, DisposalTypes
  <1>6. /\ Sources(View(u, p)) = Sources(View(t, p))
        /\ Consumers(View(u, p)) = Consumers(View(t, p))
    BY <1>3, <1>5 DEF Sources, Consumers
  <1> QED BY <1>6 DEF u, Basis, Covered

\* Appending a row and recomputing its position.
LEMMA AppendCurrent ==
    ASSUME NEW t, \E S : t \in Seq(S), NEW m, CurrentAt(t, m),
           m = [p \in Positions |-> m[p]],
           NEW row, row.position \in Positions,
           Covered(View(Append(t, row), row.position))
    PROVE  CurrentAt(Append(t, row),
                     [m EXCEPT ![row.position] =
                         Basis(View(Append(t, row), row.position))])
  <1> DEFINE u == Append(t, row)
             n == [m EXCEPT ![row.position] = Basis(View(u, row.position))]
  <1>1. \A p \in Positions : p # row.position => View(u, p) = View(t, p)
    BY AppendElsewhere
  <1> HIDE DEF u
  <1>2. \A p \in Positions : n[p] = IF p = row.position THEN Basis(View(u, p)) ELSE m[p]
    OBVIOUS
  <1>3. Covered(View(u, row.position))
    BY DEF u
  <1> HIDE DEF n
  <1>4. CurrentAt(u, n)
    BY <1>1, <1>2, <1>3 DEF CurrentAt
  <1> QED BY <1>4 DEF u, n
-----------------------------------------------------------------------------

LEMMA InitSerial == Init => SerialInv
  <1> SUFFICES ASSUME Init PROVE SerialInv
    OBVIOUS
  <1>1. CurrentAt(txns, matched)
    BY OpeningAssumption DEF CurrentAt, Init
  <1>2. LoadedRowsCurrent
    BY DEF LoadedRowsCurrent, Idle, Init
  <1>3. lock = Nobody
    BY DEF Init
  <1> QED BY InitIInv, <1>1, <1>2, <1>3 DEF SerialInv

\* Where the only client's request is new or done, there is no loaded row.
LEMMA NothingLoaded ==
    ASSUME OneClient, RequestsOK, NEW c \in Clients,
           request' = [request EXCEPT ![c] = Idle] \/ (request' = request /\ request[c] = Idle)
    PROVE  LoadedRowsCurrent'
  <1>1. \A d \in Clients : d = c
    BY DEF OneClient
  <1>2. request'[c] = Idle
    BY DEF RequestsOK
  <1> QED BY <1>1, <1>2 DEF LoadedRowsCurrent, Idle

LEMMA CreateTransactionSerial ==
    ASSUME SerialInv, OneClient, NEW c \in Clients, CreateTransaction(c)
    PROVE  CurrentAt(txns', matched') /\ LoadedRowsCurrent' /\ lock' = Nobody
  <1>1. PICK type \in {"buy", "spend", "yield"}, p \in Positions,
             d \in Dates, q \in Quantities :
           LET t == Append(txns, Txn(p, type, d, SignedQuantity(type, q), 0))
           IN  /\ txns' = t
               /\ IF type \in LotAffectingTypes
                  THEN /\ Covered(View(t, p))
                       /\ matched' = [matched EXCEPT ![p] = Basis(View(t, p))]
                  ELSE UNCHANGED matched
    BY DEF CreateTransaction
  <1> DEFINE row == Txn(p, type, d, SignedQuantity(type, q), 0)
  <1>2. /\ txns' = Append(txns, row)
        /\ row.position = p
        /\ row.type = type
        /\ \/ /\ Covered(View(txns', p))
              /\ matched' = [matched EXCEPT ![p] = Basis(View(txns', p))]
           \/ type \notin LotAffectingTypes /\ matched' = matched
    BY <1>1, TxnOK DEF TxnTypes
  <1> HIDE DEF row
  <1>3. /\ \E S : txns \in Seq(S)
        /\ matched = [x \in Positions |-> matched[x]]
        /\ CurrentAt(txns, matched)
    BY DEF SerialInv, IInv, TableOK, MatchedOK
  <1>4. CurrentAt(txns', matched')
    <2>1. CASE /\ Covered(View(txns', p))
               /\ matched' = [matched EXCEPT ![p] = Basis(View(txns', p))]
      BY <1>2, <1>3, <2>1, AppendCurrent
    <2>2. CASE type \notin LotAffectingTypes /\ matched' = matched
      <3>1. ~IsMatchable(row)
        BY <1>2, <2>2 DEF IsMatchable
      <3>2. \A x \in Positions : View(txns', x) = View(txns, x)
        BY <1>2, <1>3, <3>1, AppendElsewhere
      <3> QED BY <1>3, <2>2, <3>2 DEF CurrentAt
    <2> QED BY <1>2, <2>1, <2>2
  <1>5. LoadedRowsCurrent' /\ lock' = Nobody
    BY NothingLoaded DEF SerialInv, IInv, CreateTransaction
  <1> QED BY <1>4, <1>5

LEMMA CreateTradeSerial ==
    ASSUME SerialInv, OneClient, NEW c \in Clients, CreateTrade(c)
    PROVE  CurrentAt(txns', matched') /\ LoadedRowsCurrent' /\ lock' = Nobody
  <1>1. PICK sold \in Positions, received \in Positions,
             d \in Dates, q \in Quantities, r \in Quantities :
           LET n == Len(txns) + 1
               t == Append(Append(txns,
                        Txn(sold, "sell", d, SignedQuantity("sell", q), n)),
                        Txn(received, "buy", d, SignedQuantity("buy", r), n))
           IN  /\ sold[2] # received[2]
               /\ Covered(View(t, sold))
               /\ Covered(View(t, received))
               /\ txns' = t
               /\ matched' = [matched EXCEPT ![sold] = Basis(View(t, sold)),
                                             ![received] = Basis(View(t, received))]
    BY Zenon DEF CreateTrade
  <1> DEFINE n == Len(txns) + 1
             s == Txn(sold, "sell", d, SignedQuantity("sell", q), n)
             b == Txn(received, "buy", d, SignedQuantity("buy", r), n)
             t == Append(txns, s)
  <1>2. s.position = sold /\ b.position = received
    BY DEF Txn
  <1>3. /\ txns' = Append(t, b)
        /\ Covered(View(txns', sold))
        /\ Covered(View(txns', received))
        /\ matched' = [matched EXCEPT ![sold] = Basis(View(txns', sold)),
                                      ![received] = Basis(View(txns', received))]
    BY <1>1
  <1> HIDE DEF s, b
  <1>4. /\ \E S : txns \in Seq(S)
        /\ matched = [x \in Positions |-> matched[x]]
        /\ CurrentAt(txns, matched)
    BY DEF SerialInv, IInv, TableOK, MatchedOK
  <1>5. \E S : t \in Seq(S)
    BY <1>4, Appended
  <1>6. ASSUME NEW p \in Positions, p # sold, p # received
        PROVE  View(txns', p) = View(txns, p)
    <2>1. View(t, p) = View(txns, p)
      BY <1>2, <1>4, <1>6, AppendElsewhere
    <2> HIDE DEF t
    <2>2. View(Append(t, b), p) = View(t, p)
      BY <1>2, <1>5, <1>6, AppendElsewhere
    <2> QED BY <1>3, <2>1, <2>2
  <1>7. \A p \in Positions :
           matched'[p] = IF p = sold \/ p = received THEN Basis(View(txns', p)) ELSE matched[p]
    BY <1>3, <1>4
  <1>8. CurrentAt(txns', matched')
    BY <1>3, <1>4, <1>6, <1>7 DEF CurrentAt
  <1>9. LoadedRowsCurrent' /\ lock' = Nobody
    BY NothingLoaded DEF SerialInv, IInv, CreateTrade
  <1> QED BY <1>8, <1>9

LEMMA CommitUpdateSerial ==
    ASSUME SerialInv, OneClient, NEW c \in Clients, CommitUpdate(c)
    PROVE  CurrentAt(txns', matched') /\ LoadedRowsCurrent' /\ lock' = Nobody
  <1> DEFINE r   == request[c]
             row == Written(r, txns[r.id])
             v   == ViewInSession(txns', r)
             pos == r.seen.position
             recomputes == /\ r.seen.type \in LotAffectingTypes
                           /\ r.edit.fields \cap FifoRelevantFields # {}
  <1>1. /\ r.kind = "update"
        /\ lock = Nobody
        /\ txns' = [txns EXCEPT ![r.id] = row]
        /\ IF recomputes THEN /\ Covered(v)
                              /\ matched' = [matched EXCEPT ![pos] = Basis(v)]
                         ELSE UNCHANGED matched
        /\ request' = [request EXCEPT ![c] = Idle]
        /\ UNCHANGED lock
    BY DEF CommitUpdate
  <1>2. r.id \in DOMAIN txns /\ r.seen = txns[r.id] /\ RowOK(txns[r.id])
    BY <1>1 DEF SerialInv, LoadedRowsCurrent, IInv, RequestsOK, RequestOK, TableOK
  <1>3. /\ row.position = r.seen.position
        /\ row.type = r.seen.type
        /\ row.deleted = r.seen.deleted
        /\ row.date = Edited(r).date
        /\ row.quantity = Edited(r).quantity
    BY <1>2 DEF Written, RowOK, RowFields
  <1>4. r.edit.fields \cap FifoRelevantFields = {} =>
           row.date = r.seen.date /\ row.quantity = r.seen.quantity
    <2> SUFFICES ASSUME r.edit.fields \cap FifoRelevantFields = {}
                 PROVE  Edited(r).date = r.seen.date /\ Edited(r).quantity = r.seen.quantity
      BY <1>3
    <2>1. "date" \notin r.edit.fields /\ "quantity" \notin r.edit.fields
      BY DEF FifoRelevantFields
    <2> QED BY <1>2, <2>1 DEF Edited, RowOK, RowFields
  <1> HIDE DEF row
  <1>5. /\ DOMAIN txns' = DOMAIN txns
        /\ txns'[r.id] = row
        /\ \A i \in DOMAIN txns \ {r.id} : txns'[i] = txns[i]
    BY <1>1, <1>2
  <1>6. \A i, p : Matched(txns, i, p) <=> Matched(txns', i, p)
    BY <1>2, <1>3, <1>5 DEF Matched, IsMatchable
  <1>7. ASSUME NEW p, p # pos \/ ~recomputes
        PROVE  View(txns', p) = View(txns, p)
    <2>1. \A i : Matched(txns, i, p) => LotRow(i, txns[i]) = LotRow(i, txns'[i])
      BY <1>2, <1>3, <1>4, <1>5, <1>7 DEF Matched, IsMatchable, LotRow
    <2> HIDE DEF recomputes, r
    <2> QED BY <1>6, <2>1, ViewSame
  <1>8. v = View(txns', pos)
    <2>1. \A x \in View(txns', pos) :
             x.id = r.id => [x EXCEPT !.quantity = Edited(r).quantity] = x
      BY <1>3, <1>5 DEF View, LotRow
    <2> QED BY <2>1 DEF ViewInSession
  <1>9. /\ CurrentAt(txns, matched)
        /\ matched = [p \in Positions |-> matched[p]]
    BY DEF SerialInv, IInv, MatchedOK
  <1> HIDE DEF v
  <1>10. CurrentAt(txns', matched')
    <2>1. CASE recomputes
      <3>1. \A p \in Positions :
               matched'[p] = IF p = pos THEN Basis(View(txns', pos)) ELSE matched[p]
        BY <1>1, <1>8, <1>9, <2>1
      <3>2. Covered(View(txns', pos))
        BY <1>1, <1>8, <2>1
      <3> HIDE DEF pos, recomputes
      <3> QED BY <1>7, <1>9, <3>1, <3>2 DEF CurrentAt
    <2>2. CASE ~recomputes
      <3>1. matched' = matched
        BY <1>1, <2>2
      <3> QED BY <1>7, <1>9, <2>2, <3>1 DEF CurrentAt
    <2> QED BY <2>1, <2>2
  <1>11. LoadedRowsCurrent'
    BY <1>1, NothingLoaded DEF SerialInv, IInv
  <1> QED BY <1>1, <1>10, <1>11

LEMMA CommitDeleteSerial ==
    ASSUME SerialInv, OneClient, NEW c \in Clients, CommitDelete(c)
    PROVE  CurrentAt(txns', matched') /\ LoadedRowsCurrent' /\ lock' = Nobody
  <1> DEFINE gone == Cascade(request[c].id)
             hit  == {txns[i].position :
                         i \in {j \in gone : txns[j].type \in LotAffectingTypes}}
  <1>1. /\ lock = Nobody
        /\ txns' = Tombstoned(txns, gone)
        /\ \A p \in hit : Covered(View(txns', p))
        /\ matched' = [p \in Positions |->
                          IF p \in hit THEN Basis(View(txns', p)) ELSE matched[p]]
        /\ request' = [request EXCEPT ![c] = Idle]
        /\ UNCHANGED lock
    BY DEF CommitDelete
  <1>2. \A i \in gone : txns[i].type \in LotAffectingTypes => txns[i].position \in hit
    OBVIOUS
  <1> HIDE DEF gone, hit
  <1>3. /\ DOMAIN txns' = DOMAIN txns
        /\ \A i \in DOMAIN txns \ gone : txns'[i] = txns[i]
        /\ \A i \in DOMAIN txns \cap gone : txns'[i] = [txns[i] EXCEPT !.deleted = TRUE]
    BY <1>1 DEF Tombstoned
  <1>4. \A i \in DOMAIN txns \cap gone :
           txns'[i].deleted /\ txns'[i].position = txns[i].position
    BY <1>3 DEF SerialInv, IInv, TableOK, RowOK, RowFields
  <1>5. ASSUME NEW p \in Positions, p \notin hit
        PROVE  View(txns', p) = View(txns, p)
    <2>1. \A i : Matched(txns, i, p) => i \notin gone
      BY <1>2, <1>5 DEF Matched, IsMatchable
    <2>2. \A i : Matched(txns', i, p) => i \notin gone
      BY <1>3, <1>4 DEF Matched, IsMatchable
    <2>3. \A i : Matched(txns, i, p) <=> Matched(txns', i, p)
      BY <1>3, <2>1, <2>2 DEF Matched
    <2>4. \A i : Matched(txns, i, p) => LotRow(i, txns[i]) = LotRow(i, txns'[i])
      BY <1>3, <2>1 DEF Matched
    <2> QED BY <2>3, <2>4, ViewSame
  <1>6. CurrentAt(txns', matched')
    BY <1>1, <1>5 DEF SerialInv, CurrentAt
  <1>7. LoadedRowsCurrent'
    BY <1>1, NothingLoaded DEF SerialInv, IInv
  <1> QED BY <1>1, <1>6, <1>7
\* The staged table is that of the only request, and is appended to like the
\* committed one.
LEMMA StagedSerial ==
    ASSUME SerialInv, NEW c \in Clients, StageDecision(c) \/ StageRejected(c)
    PROVE  CurrentAt(staged'.txns, staged'.matched)
  <1>1. lock = c /\ lock # Nobody
    BY LedgerAssumption DEF StageDecision, StageRejected
  <1>2. /\ CurrentAt(staged.txns, staged.matched)
        /\ \E S : staged.txns \in Seq(S)
        /\ staged.matched = [p \in Positions |-> staged.matched[p]]
        /\ DOMAIN staged = {"txns", "matched", "decisions", "rejected"}
    BY <1>1 DEF SerialInv, IInv, StagedOK, TableOK, MatchedOK
  <1>3. ASSUME NEW row, row.position \in Positions, NEW ds, NEW rs, StageTxn(row, ds, rs)
        PROVE  CurrentAt(staged'.txns, staged'.matched)
    <2> DEFINE u == Append(staged.txns, row)
    <2>1. /\ Covered(View(u, row.position))
          /\ staged'.txns = u
          /\ staged'.matched = [staged.matched EXCEPT
                                   ![row.position] = Basis(View(u, row.position))]
      BY <1>3 DEF StageTxn
    <2> QED BY <1>2, <1>3, <2>1, AppendCurrent
  <1>4. ASSUME NEW row, row.type = "adjustment", row.quantity = 0,
               staged'.txns = Append(staged.txns, row),
               staged'.matched = staged.matched
        PROVE  CurrentAt(staged'.txns, staged'.matched)
    <2>1. \A p : /\ Basis(View(staged'.txns, p)) = Basis(View(staged.txns, p))
                 /\ Covered(View(staged'.txns, p)) <=> Covered(View(staged.txns, p))
      BY <1>2, <1>4, AppendZero
    <2> QED BY <1>2, <1>4, <2>1 DEF CurrentAt
  <1>5. /\ request[c].payload.account \in Accounts
        /\ DOMAIN request[c].payload.holdings \subseteq Instruments
        /\ staged.decisions \in Decisions
        /\ staged.rejected \in Rejections(request[c].payload)
    BY <1>1, StagedBody DEF SerialInv
  <1>6. CASE StageDecision(c)
    <2> DEFINE p     == request[c].payload
               d     == Head(staged.decisions)
               rest  == Tail(staged.decisions)
               delta == Delta(c, d.instrument)
               adjustment(q) == Txn(<<p.account, d.instrument>>, "adjustment", p.date, q, 0)
    <2>1. /\ staged.decisions # <<>>
          /\ \/ staged' = [staged EXCEPT !.decisions = rest]
             \/ StageTxn(adjustment(delta), rest, staged.rejected)
             \/ staged' = [staged EXCEPT !.decisions = rest,
                                         !.txns = Append(@, adjustment(0))]
      BY <1>6 DEF StageDecision
    <2>2. d \in [instrument : Instruments, action : Actions]
      BY <1>5, <2>1, HeadTailProperties DEF Decisions
    <2>3. \A q : /\ adjustment(q).position \in Positions
                 /\ adjustment(q).type = "adjustment"
                 /\ adjustment(q).quantity = q
      BY <1>5, <2>2 DEF Txn, Positions
    <2> HIDE DEF adjustment, delta, rest
    <2>4. CASE staged' = [staged EXCEPT !.decisions = rest]
      BY <1>2, <2>4
    <2>5. CASE StageTxn(adjustment(delta), rest, staged.rejected)
      BY <1>3, <2>3, <2>5
    <2>6. CASE staged' = [staged EXCEPT !.decisions = rest,
                                        !.txns = Append(@, adjustment(0))]
      <3>1. /\ staged'.txns = Append(staged.txns, adjustment(0))
            /\ staged'.matched = staged.matched
        BY <1>2, <2>6
      <3> QED BY <1>4, <2>3, <3>1
    <2> QED BY <2>1, <2>4, <2>5, <2>6
  <1>7. CASE StageRejected(c)
    <2> DEFINE p    == request[c].payload
               r    == Head(staged.rejected)
               rest == Tail(staged.rejected)
               size == Magnitude(Delta(c, r.instrument))
               row  == Txn(<<p.account, r.instrument>>, r.type, r.date,
                           SignedQuantity(r.type, size), 0)
    <2>1. /\ staged.rejected # <<>>
          /\ \/ staged' = [staged EXCEPT !.rejected = rest]
             \/ StageTxn(row, <<>>, rest)
      BY <1>7 DEF StageRejected
    <2>2. r \in [instrument : DOMAIN p.holdings, type : RejectTypes, date : Dates]
      BY <1>5, <2>1, HeadTailProperties DEF Rejections
    <2>3. row.position \in Positions
      BY <1>5, <2>2 DEF Txn, Positions
    <2> HIDE DEF row, rest
    <2>4. CASE staged' = [staged EXCEPT !.rejected = rest]
      BY <1>2, <2>4
    <2> QED BY <1>3, <2>1, <2>3, <2>4
  <1> QED BY <1>6, <1>7

-----------------------------------------------------------------------------

LEMMA NextSerial ==
    ASSUME OneClient
    PROVE  SerialInv /\ [Next]_vars => SerialInv'
  <1> SUFFICES ASSUME SerialInv, [Next]_vars
               PROVE  SerialInv'
    OBVIOUS
  <1>1. IInv'
    BY NextKeeps DEF SerialInv
  <1>2. CASE Next
    <2>1. PICK c \in Clients :
           \/ CreateTransaction(c) \/ CreateTrade(c)
           \/ BeginUpdate(c) \/ CommitUpdate(c)
           \/ BeginDelete(c) \/ CommitDelete(c)
           \/ BeginReconcile(c) \/ StageEvent(c) \/ StageDecision(c)
           \/ StageRejected(c) \/ CommitEvent(c)
           \/ Rollback(c) \/ Abandon(c)
      BY <1>2 DEF Next
    <2>2. request = [d \in Clients |-> request[d]]
      BY DEF SerialInv, IInv, RequestsOK
    <2>3. \A d \in Clients : d = c
      BY DEF OneClient
    <2>4. CASE \/ CreateTransaction(c) \/ CreateTrade(c)
               \/ CommitUpdate(c) \/ CommitDelete(c)
      BY <1>1, <2>4, CreateTransactionSerial, CreateTradeSerial,
         CommitUpdateSerial, CommitDeleteSerial DEF SerialInv
    <2>5. CASE BeginUpdate(c) \/ BeginDelete(c) \/ BeginReconcile(c) \/ Abandon(c)
      <3>1. UNCHANGED <<txns, matched, lock, staged>>
        BY <2>5 DEF BeginUpdate, BeginDelete, BeginReconcile, Abandon
      <3>2. request'[c].kind = "update" => request'[c].seen = txns[request'[c].id]
        <4>1. CASE BeginUpdate(c)
          BY <2>2, <4>1 DEF BeginUpdate
        <4>2. CASE BeginDelete(c)
          BY <2>2, <4>2 DEF BeginDelete
        <4>3. CASE BeginReconcile(c)
          BY <2>2, <4>3 DEF BeginReconcile
        <4>4. CASE Abandon(c)
          BY <2>2, <4>4 DEF Abandon, Idle
        <4> QED BY <2>5, <4>1, <4>2, <4>3, <4>4
      <3>3. LoadedRowsCurrent'
        BY <2>3, <3>1, <3>2 DEF LoadedRowsCurrent
      <3> QED BY <1>1, <3>1, <3>3 DEF SerialInv
    <2>6. CASE StageEvent(c)
      BY <1>1, <2>6 DEF SerialInv, StageEvent, LoadedRowsCurrent
    <2>7. CASE StageDecision(c) \/ StageRejected(c)
      <3>1. UNCHANGED <<txns, matched, request, lock>>
        BY <2>7 DEF StageDecision, StageRejected
      <3> QED BY <1>1, <2>7, <3>1, StagedSerial DEF SerialInv, LoadedRowsCurrent
    <2>8. CASE CommitEvent(c)
      <3>1. /\ lock = c
            /\ txns' = staged.txns
            /\ matched' = staged.matched
            /\ lock' = Nobody
            /\ request' = [request EXCEPT ![c] = Idle]
        BY <2>8 DEF CommitEvent
      <3>2. CurrentAt(txns', matched')
        BY <3>1, LedgerAssumption DEF SerialInv
      <3>3. LoadedRowsCurrent'
        BY <3>1, NothingLoaded DEF SerialInv, IInv
      <3> QED BY <1>1, <3>1, <3>2, <3>3 DEF SerialInv
    <2>9. CASE Rollback(c)
      <3>1. /\ UNCHANGED <<txns, matched>>
            /\ lock' = Nobody
            /\ request' = [request EXCEPT ![c] = Idle]
        BY <2>9 DEF Rollback
      <3>2. LoadedRowsCurrent'
        BY <3>1, NothingLoaded DEF SerialInv, IInv
      <3> QED BY <1>1, <3>1, <3>2 DEF SerialInv
    <2> QED BY <2>1, <2>4, <2>5, <2>6, <2>7, <2>8, <2>9
  <1>3. CASE UNCHANGED vars
    BY <1>1, <1>3 DEF vars, SerialInv, LoadedRowsCurrent
  <1> QED BY <1>2, <1>3

\* With one request at a time the allocations of every position are matched
\* from its present live rows: "the alloc state is always a pure function of
\* the current live transactions" (services/fifo.py:7-8), for tables, bodies
\* and series of requests of any size.
THEOREM SerialAllocationsCurrent ==
    ASSUME OneClient
    PROVE  Spec => []AllocationsCurrent
  <1>1. SerialInv => AllocationsCurrent
    BY DEF SerialInv, CurrentAt, AllocationsCurrent
  <1>2. SerialInv /\ [Next]_vars => SerialInv'
    BY NextSerial
  <1> QED BY InitSerial, <1>1, <1>2, PTL DEF Spec

\* With one request at a time no series of edits, deletions, trades and
\* reconciliations leaves a disposal without lots: "you cannot orphan a
\* dependent sell" (routers/transactions.py:368).
THEOREM SerialDisposalsCovered ==
    ASSUME OneClient
    PROVE  Spec => []DisposalsCovered
  <1>1. SerialInv => DisposalsCovered
    BY DEF SerialInv, CurrentAt, DisposalsCovered
  <1>2. SerialInv /\ [Next]_vars => SerialInv'
    BY NextSerial
  <1> QED BY InitSerial, <1>1, <1>2, PTL DEF Spec

-----------------------------------------------------------------------------
(***************************************************************************)
(* Deletions.  The rows that edits and deletions in flight aim at are      *)
(* live, so a tombstone is written, and audited, once.                     *)
(***************************************************************************)

AimedAtLive ==
    \A c \in Clients :
        request[c].kind \in {"update", "delete"} =>
            request[c].id \in DOMAIN txns /\ ~txns[request[c].id].deleted

AuditedOnce == \A i \in TxnIds : audit[i].deletes <= 1

DeletionInv == IInv /\ AimedAtLive /\ AuditedOnce

LEMMA InitDeletions == Init => DeletionInv
  <1> SUFFICES ASSUME Init PROVE DeletionInv
    OBVIOUS
  <1>1. AimedAtLive
    BY DEF AimedAtLive, Idle, Init
  <1>2. AuditedOnce
    BY DEF AuditedOnce, Init
  <1> QED BY InitIInv, <1>1, <1>2 DEF DeletionInv

\* Where the only client's request is new or done, nothing is aimed at.
LEMMA NothingAimedAt ==
    ASSUME OneClient, RequestsOK, NEW c \in Clients,
           request' = [request EXCEPT ![c] = Idle] \/ (request' = request /\ request[c] = Idle)
    PROVE  AimedAtLive'
  <1>1. \A d \in Clients : d = c
    BY DEF OneClient
  <1>2. request'[c] = Idle
    BY DEF RequestsOK
  <1> QED BY <1>1, <1>2 DEF AimedAtLive, Idle

\* The rows that a deletion takes are live, each has its audit counter at 0.
LEMMA DeletionTakesLive ==
    ASSUME DeletionInv, NEW c \in Clients, CommitDelete(c), NEW i \in Cascade(request[c].id)
    PROVE  i \in DOMAIN txns /\ i \in TxnIds /\ ~txns[i].deleted /\ audit[i].deletes = 0
  <1>1. request[c].id \in DOMAIN txns /\ ~txns[request[c].id].deleted
    BY DEF DeletionInv, AimedAtLive, CommitDelete
  <1>2. i \in DOMAIN txns /\ ~txns[i].deleted
    BY <1>1 DEF Cascade
  <1>3. i \in TxnIds
    BY <1>2, TableIds DEF DeletionInv, IInv
  <1>4. audit[i].deletes \in Nat /\ ~(audit[i].deletes > 0)
    BY <1>2, <1>3 DEF DeletionInv, IInv, AuditOK
  <1> QED BY <1>2, <1>3, <1>4

LEMMA NextDeletions ==
    ASSUME OneClient, DeletionInv, [Next]_vars
    PROVE  DeletionInv'
  <1>1. IInv' /\ Continues(txns', txns)
    BY NextKeeps DEF DeletionInv
  <1>2. /\ request = [d \in Clients |-> request[d]]
        /\ audit = [i \in TxnIds |-> audit[i]]
        /\ \A i \in TxnIds : DOMAIN audit[i] = {"edits", "deletes", "logged"}
    BY DEF DeletionInv, IInv, RequestsOK, AuditOK
  <1>3. ASSUME NEW c \in Clients,
               \/ CreateTransaction(c) \/ CreateTrade(c) \/ CommitUpdate(c)
               \/ CommitDelete(c) \/ CommitEvent(c) \/ Rollback(c) \/ Abandon(c)
        PROVE  AimedAtLive'
    <2>1. \/ request' = [request EXCEPT ![c] = Idle]
          \/ request' = request /\ request[c] = Idle
      <3>1. CASE CreateTransaction(c) \/ CreateTrade(c)
        BY <3>1 DEF CreateTransaction, CreateTrade
      <3>2. CASE CommitUpdate(c) \/ CommitDelete(c) \/ CommitEvent(c) \/ Rollback(c) \/ Abandon(c)
        BY <3>2 DEF CommitUpdate, CommitDelete, CommitEvent, Rollback, Abandon
      <3> QED BY <1>3, <3>1, <3>2
    <2> QED BY <2>1, NothingAimedAt DEF DeletionInv, IInv
  <1>4. ASSUME NEW c \in Clients, BeginUpdate(c) \/ BeginDelete(c) \/ BeginReconcile(c)
        PROVE  AimedAtLive'
    <2>1. \A d \in Clients : d = c
      BY DEF OneClient
    <2>2. txns' = txns
      BY <1>4 DEF BeginUpdate, BeginDelete, BeginReconcile
    <2>3. request'[c].kind \in {"update", "delete"} =>
             request'[c].id \in DOMAIN txns /\ ~txns[request'[c].id].deleted
      <3>1. CASE BeginUpdate(c)
        BY <1>2, <3>1 DEF BeginUpdate
      <3>2. CASE BeginDelete(c)
        BY <1>2, <3>2 DEF BeginDelete
      <3>3. CASE BeginReconcile(c)
        BY <1>2, <3>3 DEF BeginReconcile
      <3> QED BY <1>4, <3>1, <3>2, <3>3
    <2> QED BY <2>1, <2>2, <2>3 DEF AimedAtLive
  <1>5. ASSUME NEW c \in Clients, StageEvent(c) \/ StageDecision(c) \/ StageRejected(c)
        PROVE  AimedAtLive'
    BY <1>5 DEF StageEvent, StageDecision, StageRejected, DeletionInv, AimedAtLive
  <1>6. ASSUME NEW c \in Clients, CommitDelete(c)
        PROVE  AuditedOnce'
    <2>1. audit' = [i \in TxnIds |-> IF i \in Cascade(request[c].id)
                                     THEN [audit[i] EXCEPT !.deletes = @ + 1] ELSE audit[i]]
      BY <1>6 DEF CommitDelete, DeletionsLogged
    <2>2. ASSUME NEW i \in TxnIds PROVE audit'[i].deletes <= 1
      <3>1. CASE i \in Cascade(request[c].id)
        <4>1. audit[i].deletes = 0
          BY <1>6, <3>1, DeletionTakesLive
        <4> QED BY <1>2, <2>1, <3>1, <4>1
      <3>2. CASE i \notin Cascade(request[c].id)
        BY <2>1, <3>2 DEF DeletionInv, AuditedOnce
      <3> QED BY <3>1, <3>2
    <2> QED BY <2>2 DEF AuditedOnce
  <1>7. ASSUME NEW c \in Clients, CommitUpdate(c)
        PROVE  AuditedOnce'
    <2>1. PICK diff \in PossibleDiffs(request[c]) :
             audit' = IF diff = {} THEN audit
                      ELSE [audit EXCEPT ![request[c].id].edits = @ + 1,
                                         ![request[c].id].logged = diff]
      BY <1>7, Zenon DEF CommitUpdate
    <2>2. \A i \in TxnIds : audit'[i].deletes = audit[i].deletes
      BY <1>2, <2>1
    <2> QED BY <2>2 DEF DeletionInv, AuditedOnce
  <1>8. ASSUME NEW c \in Clients,
               \/ CreateTransaction(c) \/ CreateTrade(c) \/ BeginUpdate(c) \/ BeginDelete(c)
               \/ BeginReconcile(c) \/ StageEvent(c) \/ StageDecision(c)
               \/ StageRejected(c) \/ CommitEvent(c) \/ Rollback(c) \/ Abandon(c)
        PROVE  AuditedOnce'
    <2>1. audit' = audit
      <3>1. CASE \/ CreateTransaction(c) \/ CreateTrade(c) \/ BeginUpdate(c)
                 \/ BeginDelete(c) \/ BeginReconcile(c)
        BY <3>1 DEF CreateTransaction, CreateTrade, BeginUpdate, BeginDelete, BeginReconcile
      <3>2. CASE \/ StageEvent(c) \/ StageDecision(c) \/ StageRejected(c)
                 \/ CommitEvent(c) \/ Rollback(c) \/ Abandon(c)
        BY <3>2 DEF StageEvent, StageDecision, StageRejected, CommitEvent, Rollback, Abandon
      <3> QED BY <1>8, <3>1, <3>2
    <2> QED BY <2>1 DEF DeletionInv, AuditedOnce
  <1>9. CASE UNCHANGED vars
    BY <1>1, <1>9 DEF vars, DeletionInv, AimedAtLive, AuditedOnce
  <1>10. CASE Next
    <2>1. PICK c \in Clients :
           \/ CreateTransaction(c) \/ CreateTrade(c)
           \/ BeginUpdate(c) \/ CommitUpdate(c)
           \/ BeginDelete(c) \/ CommitDelete(c)
           \/ BeginReconcile(c) \/ StageEvent(c) \/ StageDecision(c)
           \/ StageRejected(c) \/ CommitEvent(c)
           \/ Rollback(c) \/ Abandon(c)
      BY <1>10 DEF Next
    <2>2. AimedAtLive' /\ AuditedOnce'
      BY <1>3, <1>4, <1>5, <1>6, <1>7, <1>8, <2>1
    <2> QED BY <1>1, <2>2 DEF DeletionInv
  <1> QED BY <1>9, <1>10

\* With one request at a time the audit trail holds one deletion of every
\* deleted row, the cascaded legs of trades too, and none of the others:
\* "second delete is invalid" (routers/transactions.py:349).
THEOREM SerialDeletionsAuditedOnce ==
    ASSUME OneClient
    PROVE  Spec => []DeletionsAuditedOnce
  <1>1. DeletionInv => DeletionsAuditedOnce
    <2> SUFFICES ASSUME DeletionInv, NEW i \in DOMAIN txns
                 PROVE  audit[i].deletes = IF txns[i].deleted THEN 1 ELSE 0
      BY DEF DeletionsAuditedOnce
    <2>1. i \in TxnIds
      BY TableIds DEF DeletionInv, IInv
    <2>2. /\ audit[i].deletes \in Nat
          /\ audit[i].deletes <= 1
          /\ audit[i].deletes > 0 <=> txns[i].deleted
      BY <2>1 DEF DeletionInv, IInv, AuditOK, AuditedOnce
    <2>3. CASE txns[i].deleted
      BY <2>2, <2>3
    <2>4. CASE ~txns[i].deleted
      BY <2>2, <2>4
    <2> QED BY <2>3, <2>4
  <1>2. DeletionInv /\ [Next]_vars => DeletionInv'
    BY NextDeletions
  <1> QED BY InitDeletions, <1>1, <1>2, PTL DEF Spec

\* Creating rows leaves the others as they are.
LEMMA OnlyAdded ==
    ASSUME IInv, NEW c \in Clients, CreateTransaction(c) \/ CreateTrade(c), NEW i \in DOMAIN txns
    PROVE  txns'[i] = txns[i]
  <1>1. \E S : txns \in Seq(S)
    BY DEF IInv, TableOK
  <1>2. CASE CreateTransaction(c)
    <2>1. PICK row : txns' = Append(txns, row)
      BY <1>2 DEF CreateTransaction
    <2> QED BY <1>1, <2>1, Appended
  <1>3. CASE CreateTrade(c)
    <2>1. PICK sold \in Positions, received \in Positions,
               d \in Dates, q \in Quantities, r \in Quantities :
             LET pair == Len(txns) + 1
                 t == Append(Append(txns,
                          Txn(sold, "sell", d, SignedQuantity("sell", q), pair)),
                          Txn(received, "buy", d, SignedQuantity("buy", r), pair))
             IN  /\ sold[2] # received[2]
                 /\ Covered(View(t, sold))
                 /\ Covered(View(t, received))
                 /\ txns' = t
                 /\ matched' = [matched EXCEPT ![sold] = Basis(View(t, sold)),
                                               ![received] = Basis(View(t, received))]
      BY <1>3, Zenon DEF CreateTrade
    <2>2. PICK row, other : txns' = Append(Append(txns, row), other)
      BY <2>1
    <2> DEFINE t == Append(txns, row)
    <2>3. (\E S : t \in Seq(S)) /\ i \in DOMAIN t /\ t[i] = txns[i]
      <3>1. /\ \E S : t \in Seq(S)
            /\ Len(txns) \in Nat
            /\ DOMAIN txns = 1..Len(txns)
            /\ DOMAIN t = 1..(Len(txns) + 1)
            /\ \A j \in DOMAIN txns : t[j] = txns[j]
        BY <1>1, Appended, SMTT(30)
      <3> QED BY <3>1
    <2>4. txns' = Append(t, other)
      BY <2>2
    <2> HIDE DEF t
    <2> QED BY <2>3, <2>4, Appended
  <1> QED BY <1>2, <1>3

\* What a step leaves of the rows that are deleted before it.
LEMMA DeadRowsStand ==
    ASSUME DeletionInv, [Next]_vars, NEW i \in DOMAIN txns, txns[i].deleted
    PROVE  txns'[i] = txns[i]
  <1>1. ASSUME NEW c \in Clients, CommitUpdate(c) PROVE txns'[i] = txns[i]
    <2>1. i # request[c].id
      BY <1>1 DEF CommitUpdate, DeletionInv, AimedAtLive
    <2> QED BY <1>1, <2>1 DEF CommitUpdate
  <1>2. ASSUME NEW c \in Clients, CommitDelete(c) PROVE txns'[i] = txns[i]
    <2>1. i \notin Cascade(request[c].id)
      BY <1>2, DeletionTakesLive
    <2> QED BY <1>2, <2>1 DEF CommitDelete, Tombstoned
  <1>3. ASSUME NEW c \in Clients, CreateTransaction(c) \/ CreateTrade(c)
        PROVE  txns'[i] = txns[i]
    BY <1>3, OnlyAdded DEF DeletionInv
  <1>4. ASSUME NEW c \in Clients, CommitEvent(c) PROVE txns'[i] = txns[i]
    BY <1>4, LedgerAssumption DEF CommitEvent, DeletionInv, IInv, StagedOK, Extends
  <1>5. ASSUME NEW c \in Clients,
               \/ BeginUpdate(c) \/ BeginDelete(c) \/ BeginReconcile(c) \/ StageEvent(c)
               \/ StageDecision(c) \/ StageRejected(c) \/ Rollback(c) \/ Abandon(c)
        PROVE  txns' = txns
    BY <1>5 DEF BeginUpdate, BeginDelete, BeginReconcile, StageEvent, StageDecision,
                StageRejected, Rollback, Abandon
  <1>6. CASE UNCHANGED vars
    BY <1>6 DEF vars
  <1> QED BY <1>1, <1>2, <1>3, <1>4, <1>5, <1>6 DEF Next

\* With one request at a time no step touches a deleted row: "Cannot edit a
\* tombstoned row" (routers/transactions.py:236).
THEOREM SerialTombstonesFrozen ==
    ASSUME OneClient
    PROVE  Spec => TombstonesFrozen
  <1>1. DeletionInv /\ [Next]_vars =>
           [\A i \in DOMAIN txns : txns[i].deleted => txns'[i] = txns[i]]_vars
    BY DeadRowsStand
  <1>2. DeletionInv /\ [Next]_vars => DeletionInv'
    BY NextDeletions
  <1> QED BY InitDeletions, <1>1, <1>2, PTL DEF Spec, TombstonesFrozen

-----------------------------------------------------------------------------
(***************************************************************************)
(* Reconciliation.  What an event writes for an accepted drift is the      *)
(* difference to a holding read before the lock was taken, so it closes    *)
(* the gap if nothing else moves the holding: no other request, and no     *)
(* other entry of the same body.                                           *)
(***************************************************************************)

\* The holdings an event compares with are those of the table.
HoldingsRead ==
    \A c \in Clients : request[c].kind = "reconcile" =>
        \A i \in Instruments :
            request[c].held[i] = Held(txns, <<request[c].payload.account, i>>)

\* In the staged table an accepted drift is closed as soon as its decision has
\* been worked off, and untouched before.
DriftsWritten ==
    \A c \in Clients : lock = c /\ CleanBody(request[c].payload) =>
        /\ AcceptedOnce(staged.decisions)
        /\ \A k \in DOMAIN staged.rejected :
              ~Accepts(request[c].payload.decisions, staged.rejected[k].instrument)
        /\ \A i \in Instruments : Accepts(request[c].payload.decisions, i) =>
              Held(staged.txns, <<request[c].payload.account, i>>) =
                  IF Accepts(staged.decisions, i) THEN request[c].held[i]
                  ELSE SnapshotQuantity(request[c].payload, i)

GapInv == TypeInv /\ HoldingsRead /\ DriftsWritten

LEMMA InitGaps == Init => GapInv
  <1> SUFFICES ASSUME Init PROVE HoldingsRead /\ DriftsWritten
    BY InitTypes DEF GapInv
  <1>1. HoldingsRead
    BY DEF Init, HoldingsRead, Idle
  <1>2. DriftsWritten
    BY LedgerAssumption DEF Init, DriftsWritten
  <1> QED BY <1>1, <1>2

\* What the rest of a queue of decisions accepts.
LEMMA AcceptsOfRest ==
    ASSUME NEW S, NEW ds \in Seq(S), ds # <<>>
    PROVE  /\ \A i : Accepts(ds, i) <=>
                        \/ Head(ds).action = "accept" /\ Head(ds).instrument = i
                        \/ Accepts(Tail(ds), i)
           /\ AcceptedOnce(ds) =>
                /\ AcceptedOnce(Tail(ds))
                /\ Head(ds).action = "accept" => ~Accepts(Tail(ds), Head(ds).instrument)
  <1> DEFINE rest == Tail(ds)
  <1>1. /\ Len(ds) \in Nat \ {0} /\ DOMAIN ds = 1..Len(ds)
        /\ rest \in Seq(S) /\ Len(rest) = Len(ds) - 1
        /\ \A k \in 1..Len(rest) : rest[k] = ds[k + 1]
        /\ Head(ds) = ds[1]
    BY HeadTailProperties, LenProperties, EmptySeq
  <1>2. DOMAIN rest = 1..(Len(ds) - 1) /\ \A k \in DOMAIN rest : k + 1 \in DOMAIN ds /\ rest[k] = ds[k + 1]
    BY <1>1, LenProperties
  <1>3. \A k \in DOMAIN ds : k = 1 \/ (k - 1 \in DOMAIN rest /\ rest[k - 1] = ds[k])
    BY <1>1, <1>2
  <1>4. 1 \in DOMAIN ds /\ \A k \in DOMAIN rest : k \in Nat /\ k + 1 # 1
    BY <1>1, <1>2
  <1> HIDE DEF rest
  <1>5. ASSUME NEW i
        PROVE  Accepts(ds, i) <=> \/ Head(ds).action = "accept" /\ Head(ds).instrument = i
                                  \/ Accepts(rest, i)
    <2>1. ASSUME Accepts(ds, i)
          PROVE  (Head(ds).action = "accept" /\ Head(ds).instrument = i) \/ Accepts(rest, i)
      <3>1. PICK k \in DOMAIN ds : ds[k].action = "accept" /\ ds[k].instrument = i
        BY <2>1 DEF Accepts
      <3> QED BY <1>1, <1>3, <3>1 DEF Accepts
    <2>2. ASSUME Head(ds).action = "accept" /\ Head(ds).instrument = i PROVE Accepts(ds, i)
      BY <1>1, <1>4, <2>2 DEF Accepts
    <2>3. ASSUME Accepts(rest, i) PROVE Accepts(ds, i)
      <3>1. PICK k \in DOMAIN rest : rest[k].action = "accept" /\ rest[k].instrument = i
        BY <2>3 DEF Accepts
      <3> QED BY <1>2, <3>1 DEF Accepts
    <2> QED BY <2>1, <2>2, <2>3
  <1>6. ASSUME AcceptedOnce(ds)
        PROVE  /\ AcceptedOnce(rest)
               /\ Head(ds).action = "accept" => ~Accepts(rest, Head(ds).instrument)
    <2>1. ASSUME NEW j \in DOMAIN rest, NEW k \in DOMAIN rest,
                 rest[j].action = "accept", rest[k].action = "accept",
                 rest[j].instrument = rest[k].instrument
          PROVE  j = k
      <3>1. j + 1 = k + 1
        BY <1>2, <1>6, <2>1 DEF AcceptedOnce
      <3> QED BY <1>4, <3>1
    <2>2. ASSUME Head(ds).action = "accept", NEW k \in DOMAIN rest,
                 rest[k].action = "accept", rest[k].instrument = Head(ds).instrument
          PROVE  FALSE
      <3>1. k + 1 = 1
        BY <1>1, <1>2, <1>4, <1>6, <2>2 DEF AcceptedOnce
      <3> QED BY <1>4, <3>1
    <2> QED BY <2>1, <2>2 DEF AcceptedOnce, Accepts
  <1> QED BY <1>5, <1>6 DEF rest

\* A decision moves the holding of its own instrument only, and by the drift
\* if it accepts it.
LEMMA DecisionMoves ==
    ASSUME TypeInv, NEW c \in Clients, StageDecision(c)
    PROVE  LET p == request[c].payload
               d == Head(staged.decisions)
           IN  /\ staged'.decisions = Tail(staged.decisions)
               /\ staged'.rejected = staged.rejected
               /\ \A i \in Instruments :
                     Held(staged'.txns, <<p.account, i>>) = Held(staged.txns, <<p.account, i>>)
                         + (IF d.action = "accept" /\ d.instrument = i THEN Delta(c, i) ELSE 0)
  <1> DEFINE p     == request[c].payload
             d     == Head(staged.decisions)
             rest  == Tail(staged.decisions)
             delta == Delta(c, d.instrument)
             place == <<p.account, d.instrument>>
             row(q) == Txn(place, "adjustment", p.date, q, 0)
             moved(i) == IF d.action = "accept" /\ d.instrument = i THEN Delta(c, i) ELSE 0
             before(i) == Held(staged.txns, <<p.account, i>>)
             after(i) == Held(staged'.txns, <<p.account, i>>)
  <1>1. /\ lock = c
        /\ staged.decisions # <<>>
        /\ \/ /\ d.action \in {"matched", "reject"} \/ (d.action = "accept" /\ delta = 0)
              /\ staged' = [staged EXCEPT !.decisions = rest]
           \/ /\ d.action = "accept"
              /\ StageTxn(row(delta), rest, staged.rejected)
           \/ /\ d.action = "dismiss"
              /\ staged' = [staged EXCEPT !.decisions = rest, !.txns = Append(@, row(0))]
    BY DEF StageDecision
  <1>2. /\ p \in Payloads /\ p.account \in Accounts
        /\ staged.decisions \in Decisions
        /\ DOMAIN staged = {"txns", "matched", "decisions", "rejected"}
        /\ staged.txns \in Seq(Txns)
    BY <1>1, StagedBody DEF TypeInv, TypeOK, IInv, StagedOK
  <1>3. d.instrument \in Instruments
    <2>1. d \in [instrument : Instruments, action : Actions]
      BY <1>1, <1>2, HeadTailProperties DEF Decisions
    <2> QED BY <2>1
  <1>4. \A q \in Int : row(q) \in Txns /\ ~row(q).deleted /\ row(q).quantity = q /\ row(q).position = place
    <2>1. \A q \in Payloads : q.date \in Dates
      BY PayloadAssumption
    <2>2. /\ place \in Positions /\ p.date \in Dates
          /\ "adjustment" \in TxnTypes /\ 0 \in 0..MaxTxns
      BY <1>2, <1>3, <2>1, LedgerAssumption DEF Positions, TxnTypes
    <2>3. \A q \in Int : row(q) \in Txns
      BY <2>2, TxnTyped
    <2> QED BY <2>3 DEF Txn
  <1>5. delta \in Int /\ 0 \in Int
    BY <1>1, <1>3, DriftTyped
  <1>6. \A i \in Instruments : before(i) \in Int
    BY <1>2, HeldIsSum
  <1>7. \A q \in Int : \A i \in Instruments :
            Held(Append(staged.txns, row(q)), <<p.account, i>>)
                = before(i) + IF d.instrument = i THEN q ELSE 0
    <2> SUFFICES ASSUME NEW q \in Int, NEW i \in Instruments
                 PROVE  Held(Append(staged.txns, row(q)), <<p.account, i>>)
                            = before(i) + IF d.instrument = i THEN q ELSE 0
      OBVIOUS
    <2> DEFINE new == row(q)
    <2>1. new \in Txns /\ ~new.deleted /\ new.quantity = q /\ new.position = place
      BY <1>4
    <2>2. <<p.account, i>> = place <=> d.instrument = i
      OBVIOUS
    <2> DEFINE t == staged.txns
               there == <<p.account, i>>
    <2> HIDE DEF new, place, t, there
    <2>3. t \in Seq(Txns)
      BY <1>2 DEF t
    <2>4. Held(Append(t, new), there) = Held(t, there) + IF new.position = there THEN new.quantity ELSE 0
      BY <2>1, <2>3, HeldAppend
    <2>5. new.position = there <=> d.instrument = i
      BY <2>1, <2>2 DEF there
    <2> QED BY <2>1, <2>4, <2>5 DEF new, t, there
  <1>8. /\ staged'.decisions = rest /\ staged'.rejected = staged.rejected
        /\ \A i \in Instruments : after(i) = before(i) + moved(i)
    <2>1. CASE /\ d.action \in {"matched", "reject"} \/ (d.action = "accept" /\ delta = 0)
               /\ staged' = [staged EXCEPT !.decisions = rest]
      <3>1. staged'.decisions = rest /\ staged'.rejected = staged.rejected /\ staged'.txns = staged.txns
        BY <1>2, <2>1
      <3>2. \A i \in Instruments : moved(i) = 0
        BY <2>1
      <3> QED BY <1>6, <3>1, <3>2
    <2>2. CASE /\ d.action = "accept"
               /\ StageTxn(row(delta), rest, staged.rejected)
      <3>1. /\ staged'.decisions = rest /\ staged'.rejected = staged.rejected
            /\ staged'.txns = Append(staged.txns, row(delta))
        BY <2>2 DEF StageTxn
      <3>2. \A i \in Instruments : moved(i) = IF d.instrument = i THEN delta ELSE 0
        BY <2>2
      <3> HIDE DEF moved, delta, row, d, rest
      <3>3. \A i \in Instruments : after(i) = before(i) + IF d.instrument = i THEN delta ELSE 0
        BY <1>5, <1>7, <3>1
      <3> QED BY <3>1, <3>2, <3>3
    <2>3. CASE /\ d.action = "dismiss"
               /\ staged' = [staged EXCEPT !.decisions = rest, !.txns = Append(@, row(0))]
      <3>1. \A i \in Instruments : moved(i) = 0
        BY <2>3
      <3> HIDE DEF moved, row, d, rest
      <3>2. /\ staged'.decisions = rest /\ staged'.rejected = staged.rejected
            /\ staged'.txns = Append(staged.txns, row(0))
        BY <1>2, <2>3
      <3>3. \A i \in Instruments : after(i) = before(i) + IF d.instrument = i THEN 0 ELSE 0
        BY <1>5, <1>7, <3>2
      <3> QED BY <1>6, <3>1, <3>2, <3>3
    <2> QED BY <1>1, <2>1, <2>2, <2>3
  <1> QED BY <1>8

\* A transaction entered for a rejected drift moves the holding of its own
\* instrument only.
LEMMA RejectionMoves ==
    ASSUME TypeInv, NEW c \in Clients, StageRejected(c)
    PROVE  LET p == request[c].payload
               r == Head(staged.rejected)
           IN  /\ staged'.decisions = staged.decisions
               /\ staged'.rejected = Tail(staged.rejected)
               /\ \A i \in Instruments : i # r.instrument =>
                     Held(staged'.txns, <<p.account, i>>) = Held(staged.txns, <<p.account, i>>)
  <1> DEFINE p    == request[c].payload
             r    == Head(staged.rejected)
             rest == Tail(staged.rejected)
             size == Magnitude(Delta(c, r.instrument))
             place == <<p.account, r.instrument>>
             row  == Txn(place, r.type, r.date, SignedQuantity(r.type, size), 0)
  <1>1. /\ lock = c
        /\ staged.rejected # <<>>
        /\ staged.decisions = <<>>
        /\ \/ staged' = [staged EXCEPT !.rejected = rest]
           \/ StageTxn(row, <<>>, rest)
    BY DEF StageRejected
  <1>2. /\ lock # Nobody /\ p.account \in Accounts
        /\ DOMAIN p.holdings \subseteq Instruments
        /\ staged.rejected \in Rejections(p)
        /\ DOMAIN staged = {"txns", "matched", "decisions", "rejected"}
        /\ staged.txns \in Seq(Txns)
    BY <1>1, StagedBody DEF TypeInv, TypeOK, IInv, StagedOK
  <1>3. r.instrument \in Instruments /\ r.type \in TxnTypes /\ r.date \in Dates
    <2>1. r \in [instrument : DOMAIN p.holdings, type : RejectTypes, date : Dates]
      BY <1>1, <1>2, HeadTailProperties DEF Rejections
    <2> QED BY <1>2, <2>1 DEF RejectTypes, TxnTypes
  <1>4. row \in Txns /\ ~row.deleted /\ row.position = place
    <2>1. Delta(c, r.instrument) \in Int
      BY <1>1, <1>3, DriftTyped
    <2>2. SignedQuantity(r.type, size) \in Int
      <3> HIDE DEF r
      <3>1. size \in Int
        BY <2>1 DEF Magnitude
      <3> QED BY <3>1, SignedInt
    <2>3. place \in Positions /\ 0 \in 0..MaxTxns
      BY <1>2, <1>3, LedgerAssumption DEF Positions
    <2>4. row \in Txns
      BY <1>3, <2>2, <2>3, TxnTyped
    <2> QED BY <2>4 DEF Txn
  <1> HIDE DEF row, rest
  <1>5. CASE staged' = [staged EXCEPT !.rejected = rest]
    BY <1>2, <1>5 DEF rest
  <1>6. CASE StageTxn(row, <<>>, rest)
    <2>1. /\ staged'.decisions = <<>> /\ staged'.rejected = rest
          /\ staged'.txns = Append(staged.txns, row)
      BY <1>6 DEF StageTxn
    <2>2. ASSUME NEW i \in Instruments, i # r.instrument
          PROVE  Held(staged'.txns, <<p.account, i>>) = Held(staged.txns, <<p.account, i>>)
      <3> DEFINE t == staged.txns
                 there == <<p.account, i>>
      <3>1. row.position # there
        BY <1>4, <2>2
      <3>2. t \in Seq(Txns)
        BY <1>2
      <3> HIDE DEF t, there
      <3>3. Held(Append(t, row), there) = Held(t, there) + 0 /\ Held(t, there) \in Int
        BY <1>4, <3>1, <3>2, HeldAppend, HeldIsSum
      <3> QED BY <2>1, <3>3 DEF t, there
    <2> QED BY <1>1, <2>1, <2>2 DEF rest
  <1> QED BY <1>1, <1>5, <1>6

LEMMA DecisionGaps ==
    ASSUME GapInv, NEW c \in Clients, StageDecision(c)
    PROVE  DriftsWritten'
  <1>1. lock = c /\ staged.decisions # <<>> /\ UNCHANGED <<txns, request, lock>>
    BY DEF StageDecision
  <1> SUFFICES ASSUME CleanBody(request[c].payload)
               PROVE  /\ AcceptedOnce(staged'.decisions)
                      /\ \A k \in DOMAIN staged'.rejected :
                            ~Accepts(request[c].payload.decisions, staged'.rejected[k].instrument)
                      /\ \A i \in Instruments : Accepts(request[c].payload.decisions, i) =>
                            Held(staged'.txns, <<request[c].payload.account, i>>) =
                                IF Accepts(staged'.decisions, i) THEN request[c].held[i]
                                ELSE SnapshotQuantity(request[c].payload, i)
    BY <1>1 DEF DriftsWritten
  <1> DEFINE p == request[c].payload
             d == Head(staged.decisions)
             before(i) == Held(staged.txns, <<p.account, i>>)
             after(i) == Held(staged'.txns, <<p.account, i>>)
  <1>2. /\ staged'.decisions = Tail(staged.decisions)
        /\ staged'.rejected = staged.rejected
        /\ \A i \in Instruments :
              after(i) = before(i) + (IF d.action = "accept" /\ d.instrument = i THEN Delta(c, i) ELSE 0)
    BY DecisionMoves DEF GapInv
  <1>3. /\ AcceptedOnce(staged.decisions)
        /\ \A k \in DOMAIN staged.rejected :
              ~Accepts(p.decisions, staged.rejected[k].instrument)
        /\ \A i \in Instruments : Accepts(p.decisions, i) =>
              before(i) = IF Accepts(staged.decisions, i) THEN request[c].held[i]
                          ELSE SnapshotQuantity(p, i)
    BY <1>1 DEF GapInv, DriftsWritten
  <1>4. staged.decisions \in Decisions
    BY <1>1, StagedBody DEF GapInv, TypeInv
  <1>5. /\ AcceptedOnce(Tail(staged.decisions))
        /\ d.action = "accept" => ~Accepts(Tail(staged.decisions), d.instrument)
        /\ \A i : Accepts(staged.decisions, i) <=>
                     \/ d.action = "accept" /\ d.instrument = i
                     \/ Accepts(Tail(staged.decisions), i)
    BY <1>1, <1>3, <1>4, AcceptsOfRest DEF Decisions
  <1>6. \A i \in Instruments :
            /\ SnapshotQuantity(p, i) \in Int /\ request[c].held[i] \in Int
            /\ Delta(c, i) = SnapshotQuantity(p, i) - request[c].held[i]
    BY <1>1, DriftTyped DEF GapInv
  <1>7. ASSUME NEW i \in Instruments, Accepts(p.decisions, i)
        PROVE  after(i) = IF Accepts(staged'.decisions, i) THEN request[c].held[i]
                          ELSE SnapshotQuantity(p, i)
    <2> HIDE DEF p, d, before, after
    <2>1. CASE d.action = "accept" /\ d.instrument = i
      <3>1. /\ before(i) = request[c].held[i]
            /\ after(i) = before(i) + Delta(c, i)
            /\ ~Accepts(staged'.decisions, i)
        BY <1>2, <1>3, <1>5, <1>7, <2>1
      <3> QED BY <1>6, <3>1
    <2>2. CASE ~(d.action = "accept" /\ d.instrument = i)
      <3>1. after(i) = before(i) + 0
        BY <1>2, <2>2
      <3>2. before(i) = IF Accepts(staged'.decisions, i) THEN request[c].held[i]
                        ELSE SnapshotQuantity(p, i)
        BY <1>2, <1>3, <1>5, <1>7, <2>2
      <3> QED BY <1>6, <3>1, <3>2
    <2> QED BY <2>1, <2>2
  <1> QED BY <1>2, <1>3, <1>5, <1>7

LEMMA RejectionGaps ==
    ASSUME GapInv, NEW c \in Clients, StageRejected(c)
    PROVE  DriftsWritten'
  <1>1. lock = c /\ staged.rejected # <<>> /\ UNCHANGED <<txns, request, lock>>
    BY DEF StageRejected
  <1> SUFFICES ASSUME CleanBody(request[c].payload)
               PROVE  /\ AcceptedOnce(staged'.decisions)
                      /\ \A k \in DOMAIN staged'.rejected :
                            ~Accepts(request[c].payload.decisions, staged'.rejected[k].instrument)
                      /\ \A i \in Instruments : Accepts(request[c].payload.decisions, i) =>
                            Held(staged'.txns, <<request[c].payload.account, i>>) =
                                IF Accepts(staged'.decisions, i) THEN request[c].held[i]
                                ELSE SnapshotQuantity(request[c].payload, i)
    BY <1>1 DEF DriftsWritten
  <1> DEFINE p == request[c].payload
             r == Head(staged.rejected)
             rest == Tail(staged.rejected)
             before(i) == Held(staged.txns, <<p.account, i>>)
             after(i) == Held(staged'.txns, <<p.account, i>>)
  <1>2. /\ staged'.decisions = staged.decisions
        /\ staged'.rejected = rest
        /\ \A i \in Instruments : i # r.instrument => after(i) = before(i)
    BY RejectionMoves DEF GapInv
  <1>3. /\ AcceptedOnce(staged.decisions)
        /\ \A k \in DOMAIN staged.rejected :
              ~Accepts(p.decisions, staged.rejected[k].instrument)
        /\ \A i \in Instruments : Accepts(p.decisions, i) =>
              before(i) = IF Accepts(staged.decisions, i) THEN request[c].held[i]
                          ELSE SnapshotQuantity(p, i)
    BY <1>1 DEF GapInv, DriftsWritten
  <1>4. staged.rejected \in Rejections(p)
    BY <1>1, StagedBody DEF GapInv, TypeInv
  <1>5. /\ r = staged.rejected[1] /\ 1 \in DOMAIN staged.rejected
        /\ \A k \in DOMAIN rest : k + 1 \in DOMAIN staged.rejected /\ rest[k] = staged.rejected[k + 1]
    <2>1. /\ Len(staged.rejected) \in Nat \ {0} /\ DOMAIN staged.rejected = 1..Len(staged.rejected)
          /\ \E S : rest \in Seq(S)
          /\ Len(rest) = Len(staged.rejected) - 1
          /\ \A k \in 1..Len(rest) : rest[k] = staged.rejected[k + 1]
          /\ r = staged.rejected[1]
      BY <1>1, <1>4, HeadTailProperties, LenProperties, EmptySeq DEF Rejections
    <2>2. DOMAIN rest = 1..(Len(staged.rejected) - 1)
      BY <2>1, LenProperties
    <2> QED BY <2>1, <2>2
  <1>6. \A k \in DOMAIN rest : ~Accepts(p.decisions, rest[k].instrument)
    BY <1>3, <1>5
  <1>7. \A i \in Instruments : Accepts(p.decisions, i) => i # r.instrument
    BY <1>3, <1>5
  <1> QED BY <1>2, <1>3, <1>6, <1>7

\* One request at a time: nothing moves the table between the reading of the
\* holdings and the event's own rows.
LEMMA NextGaps ==
    ASSUME OneClient, GapInv, [Next]_vars
    PROVE  GapInv'
  <1>1. TypeInv'
    BY NextTypes DEF GapInv
  <1>2. /\ request = [d \in Clients |-> request[d]]
        /\ \A d \in Clients : lock = d => request[d].kind = "reconcile"
        /\ lock \in Clients \cup {Nobody}
    BY DEF GapInv, TypeInv, TypeOK, IInv, RequestsOK
  <1>3. ASSUME NEW c \in Clients,
               \/ CreateTransaction(c) \/ CreateTrade(c) \/ CommitUpdate(c)
               \/ CommitDelete(c) \/ CommitEvent(c) \/ Rollback(c) \/ Abandon(c)
        PROVE  HoldingsRead' /\ DriftsWritten'
    <2>1. \A d \in Clients : d = c
      BY DEF OneClient
    <2>2. request'[c] = Idle
      <3>1. CASE CreateTransaction(c) \/ CreateTrade(c)
        BY <3>1 DEF CreateTransaction, CreateTrade
      <3>2. CASE CommitUpdate(c) \/ CommitDelete(c) \/ CommitEvent(c) \/ Rollback(c) \/ Abandon(c)
        BY <1>2, <3>2 DEF CommitUpdate, CommitDelete, CommitEvent, Rollback, Abandon
      <3> QED BY <1>3, <3>1, <3>2
    <2>3. lock' # c
      BY <1>1, <2>2 DEF TypeInv, IInv, RequestsOK, Idle
    <2> QED BY <2>1, <2>2, <2>3 DEF HoldingsRead, DriftsWritten, Idle
  <1>4. ASSUME NEW c \in Clients, BeginUpdate(c) \/ BeginDelete(c) \/ BeginReconcile(c)
        PROVE  HoldingsRead' /\ DriftsWritten'
    <2>1. \A d \in Clients : d = c
      BY DEF OneClient
    <2>2. request[c] = Idle /\ lock' = lock /\ txns' = txns
      BY <1>4 DEF BeginUpdate, BeginDelete, BeginReconcile
    <2>3. lock # c
      BY <1>2, <2>2 DEF Idle
    <2>4. request'[c].kind = "reconcile" =>
              \A i \in Instruments :
                  request'[c].held[i] = Held(txns, <<request'[c].payload.account, i>>)
      <3>1. CASE BeginUpdate(c)
        BY <1>2, <3>1 DEF BeginUpdate
      <3>2. CASE BeginDelete(c)
        BY <1>2, <3>2 DEF BeginDelete
      <3>3. CASE BeginReconcile(c)
        BY <1>2, <3>3 DEF BeginReconcile
      <3> QED BY <1>4, <3>1, <3>2, <3>3
    <2> QED BY <2>1, <2>2, <2>3, <2>4 DEF HoldingsRead, DriftsWritten
  <1>5. ASSUME NEW c \in Clients, StageEvent(c)
        PROVE  HoldingsRead' /\ DriftsWritten'
    <2>1. \A d \in Clients : d = c
      BY DEF OneClient
    <2>2. /\ request[c].kind = "reconcile" /\ lock' = c /\ UNCHANGED <<txns, request>>
          /\ staged'.txns = txns
          /\ staged'.decisions = request[c].payload.decisions
          /\ staged'.rejected = request[c].payload.rejected
      BY <1>5 DEF StageEvent
    <2>3. HoldingsRead'
      BY <2>2 DEF GapInv, HoldingsRead
    <2>4. \A i \in Instruments :
              Held(txns, <<request[c].payload.account, i>>) = request[c].held[i]
      BY <2>2 DEF GapInv, HoldingsRead
    <2> QED BY <2>1, <2>2, <2>3, <2>4 DEF DriftsWritten, CleanBody
  <1>6. ASSUME NEW c \in Clients, StageDecision(c) \/ StageRejected(c)
        PROVE  HoldingsRead' /\ DriftsWritten'
    <2>1. UNCHANGED <<txns, request>>
      BY <1>6 DEF StageDecision, StageRejected
    <2>2. HoldingsRead'
      BY <2>1 DEF GapInv, HoldingsRead
    <2> QED BY <1>6, <2>2, DecisionGaps, RejectionGaps
  <1>7. CASE UNCHANGED vars
    BY <1>1, <1>7 DEF vars, GapInv, HoldingsRead, DriftsWritten
  <1> QED BY <1>1, <1>3, <1>4, <1>5, <1>6, <1>7 DEF Next, GapInv

\* Only the commit of an event adds one to the events.
LEMMA EventsGrow ==
    ASSUME GapInv, [Next]_vars, Len(events') > Len(events)
    PROVE  \E c \in Clients : CommitEvent(c)
  <1>1. Len(events) \in Nat
    BY LenProperties DEF GapInv, TypeInv, TypeOK
  <1>2. events' # events
    BY <1>1
  <1>3. ASSUME NEW c \in Clients,
               \/ CreateTransaction(c) \/ CreateTrade(c) \/ BeginUpdate(c) \/ CommitUpdate(c)
               \/ BeginDelete(c) \/ CommitDelete(c) \/ BeginReconcile(c) \/ StageEvent(c)
               \/ StageDecision(c) \/ StageRejected(c) \/ Rollback(c) \/ Abandon(c)
        PROVE  events' = events
    <2>1. CASE \/ CreateTransaction(c) \/ CreateTrade(c) \/ BeginUpdate(c) \/ CommitUpdate(c)
               \/ BeginDelete(c) \/ CommitDelete(c)
      BY <2>1 DEF CreateTransaction, CreateTrade, BeginUpdate, CommitUpdate, BeginDelete, CommitDelete
    <2>2. CASE \/ BeginReconcile(c) \/ StageEvent(c)
               \/ StageDecision(c) \/ StageRejected(c) \/ Rollback(c) \/ Abandon(c)
      BY <2>2 DEF BeginReconcile, StageEvent, StageDecision, StageRejected, Rollback, Abandon
    <2> QED BY <1>3, <2>1, <2>2
  <1> QED BY <1>2, <1>3 DEF Next, vars

LEMMA CommitClosesGaps ==
    ASSUME GapInv, [Next]_vars, Len(events') > Len(events), CleanBody(Last(events')),
           NEW i \in Instruments, Accepts(Last(events').decisions, i)
    PROVE  Held(txns', <<Last(events').account, i>>) = SnapshotQuantity(Last(events'), i)
  <1>1. PICK c \in Clients : CommitEvent(c)
    BY EventsGrow
  <1>2. /\ lock = c /\ staged.decisions = <<>> /\ txns' = staged.txns
        /\ events' = Append(events, request[c].payload)
    BY <1>1 DEF CommitEvent
  <1>3. Last(events') = request[c].payload
    <2>1. \E S : events \in Seq(S)
      BY DEF GapInv, TypeInv, TypeOK
    <2> QED BY <1>2, <2>1, Appended DEF Last
  <1>4. ~Accepts(staged.decisions, i)
    BY <1>2 DEF Accepts
  <1> QED BY <1>2, <1>3, <1>4 DEF GapInv, DriftsWritten

\* With one request at a time, an event that accepts no drift twice and enters
\* no transaction for a drift it accepts closes every gap it accepts: "an
\* accept-drift correctly closes the gap between the broker's reported qty and
\* the user's current app-state" (services/reconciliation.py:215-217).
THEOREM SerialCleanEventsClose ==
    ASSUME OneClient
    PROVE  Spec => AcceptClosesGap
  <1>1. GapInv /\ [Next]_vars =>
            [Len(events') > Len(events) /\ CleanBody(Last(events')) =>
               LET p == Last(events')
               IN  \A i \in Instruments :
                       Accepts(p.decisions, i) =>
                           Held(txns', <<p.account, i>>) = SnapshotQuantity(p, i)]_vars
    BY CommitClosesGaps
  <1>2. GapInv /\ [Next]_vars => GapInv'
    BY NextGaps
  <1> QED BY InitGaps, <1>1, <1>2, PTL DEF Spec, AcceptClosesGap
=============================================================================
