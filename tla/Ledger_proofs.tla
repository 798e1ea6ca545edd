---------------------------- MODULE Ledger_proofs ----------------------------
(***************************************************************************)
(* What the ledger guarantees for any number of racing requests, accounts, *)
(* instruments and transactions: trades live and die as pairs, deletions   *)
(* are final and audited, and allocations stem from live rows.             *)
(*                                                                         *)
(* None of these depends on what a sum of quantities is, so their          *)
(* invariant says nothing of quantities, and tables are sequences over     *)
(* some set.  Types, quantities included, come last: TypeInv adds them.    *)
(***************************************************************************)
EXTENDS Ledger, SequenceTheorems, Induction_proofs

RowFields == {"position", "type", "date", "quantity", "trade", "deleted"}

RowOK(r) ==
    /\ DOMAIN r = RowFields
    /\ r.position \in Positions
    /\ r.type \in TxnTypes
    /\ r.trade \in Nat
    /\ r.deleted \in BOOLEAN

TableOK(t) ==
    /\ \E S : t \in Seq(S)
    /\ Len(t) <= MaxTxns
    /\ \A i \in DOMAIN t : RowOK(t[i]) /\ t[i].trade <= Len(t)

\* The rows rs stem from position p of table t: they are live, matchable rows
\* of it, under their present dates.
Stem(rs, t, p) ==
    \A r \in rs :
        /\ r.id \in DOMAIN t
        /\ IsMatchable(t[r.id])
        /\ t[r.id].position = p
        /\ t[r.id].date = r.date

MatchedOK(t, m) ==
    /\ m = [p \in Positions |-> m[p]]
    /\ \A p \in Positions : Stem(m[p], t, p)

\* Table u continues table t: no row is lost, moved, retyped or revived.
Continues(u, t) ==
    \A i \in DOMAIN t :
        /\ i \in DOMAIN u
        /\ u[i].position = t[i].position
        /\ u[i].type = t[i].type
        /\ u[i].trade = t[i].trade
        /\ t[i].deleted => u[i].deleted

AuditOK ==
    /\ audit = [i \in TxnIds |-> audit[i]]
    /\ \A i \in TxnIds :
        /\ DOMAIN audit[i] = {"edits", "deletes", "logged"}
        /\ audit[i].deletes \in Nat
        /\ audit[i].deletes > 0 <=> i \in DOMAIN txns /\ txns[i].deleted

\* What a request in flight remembers of a row cannot change in the table.
RequestOK(r, t) ==
    /\ r.kind = "update" =>
        /\ r.id \in DOMAIN t
        /\ r.seen.position = t[r.id].position
        /\ r.seen.type = t[r.id].type
        /\ DOMAIN r.seen = RowFields
    /\ r.kind = "delete" => r.id \in DOMAIN t
    /\ r.kind = "reconcile" => r.payload \in Payloads

RequestsOK ==
    /\ request = [c \in Clients |-> request[c]]
    /\ \A c \in Clients :
        /\ RequestOK(request[c], txns)
        /\ lock = c => request[c].kind = "reconcile"

Decisions == Seq([instrument : Instruments, action : Actions])

Rejections(p) ==
    Seq([instrument : DOMAIN p.holdings, type : RejectTypes, date : Dates])

\* A write transaction has only added unlinked, live rows to the table.
Extends(u, t) ==
    /\ \A i \in DOMAIN t : i \in DOMAIN u /\ u[i] = t[i]
    /\ \A i \in DOMAIN u \ DOMAIN t : u[i].trade = 0 /\ ~u[i].deleted

StagedOK ==
    lock # Nobody =>
        /\ lock \in Clients
        /\ DOMAIN staged = {"txns", "matched", "decisions", "rejected"}
        /\ TableOK(staged.txns)
        /\ Extends(staged.txns, txns)
        /\ MatchedOK(staged.txns, staged.matched)
        /\ staged.decisions \in Decisions
        /\ staged.rejected \in Rejections(request[lock].payload)

IInv ==
    /\ TableOK(txns)
    /\ MatchedOK(txns, matched)
    /\ AuditOK
    /\ RequestsOK
    /\ StagedOK
    /\ TradeLegsTogether

-----------------------------------------------------------------------------

LEMMA TxnOK ==
    ASSUME NEW p \in Positions, NEW type \in TxnTypes, NEW d, NEW q, NEW k \in Nat
    PROVE  /\ RowOK(Txn(p, type, d, q, k))
           /\ Txn(p, type, d, q, k).position = p
           /\ Txn(p, type, d, q, k).type = type
           /\ Txn(p, type, d, q, k).trade = k
           /\ ~Txn(p, type, d, q, k).deleted
  BY DEF Txn, RowOK, RowFields

\* Appending a row leaves the others where they are.
LEMMA Appended ==
    ASSUME NEW t, \E S : t \in Seq(S), NEW r
    PROVE  /\ \E S : Append(t, r) \in Seq(S)
           /\ Len(Append(t, r)) = Len(t) + 1
           /\ Len(t) \in Nat
           /\ DOMAIN t = 1..Len(t)
           /\ DOMAIN Append(t, r) = 1..(Len(t) + 1)
           /\ \A i \in DOMAIN t : Append(t, r)[i] = t[i]
           /\ Append(t, r)[Len(t) + 1] = r
  <1>1. PICK S : t \in Seq(S)
    OBVIOUS
  <1>2. t \in Seq(S \cup {r}) /\ r \in S \cup {r}
    BY <1>1
  <1> QED
    BY <1>2, AppendProperties, LenProperties

LEMMA AppendedTable ==
    ASSUME NEW t, TableOK(t), NEW r, RowOK(r), r.trade <= Len(t) + 1, Len(t) < MaxTxns
    PROVE  /\ TableOK(Append(t, r))
           /\ Continues(Append(t, r), t)
           /\ ~r.deleted /\ r.trade = 0 => Extends(Append(t, r), t)
  <1>1. /\ \A i \in DOMAIN t : RowOK(t[i]) /\ t[i].trade <= Len(t) /\ t[i].trade \in Nat
        /\ \E S : t \in Seq(S)
        /\ r.trade \in Nat
    BY DEF TableOK, RowOK
  <1>a. /\ \E S : Append(t, r) \in Seq(S)
        /\ Len(Append(t, r)) = Len(t) + 1
        /\ Len(t) \in Nat
        /\ DOMAIN t = 1..Len(t)
        /\ DOMAIN Append(t, r) = 1..(Len(t) + 1)
        /\ \A i \in DOMAIN t : Append(t, r)[i] = t[i]
        /\ Append(t, r)[Len(t) + 1] = r
    BY <1>1, Appended
  <1> DEFINE u == Append(t, r)
  <1> HIDE DEF u
  <1>2. \A i \in DOMAIN u : i \in DOMAIN t \/ i = Len(t) + 1
    BY <1>a DEF u
  <1>3. \A i \in DOMAIN u : RowOK(u[i]) /\ u[i].trade <= Len(t) + 1
    <2> SUFFICES ASSUME NEW i \in DOMAIN u
                 PROVE  RowOK(u[i]) /\ u[i].trade <= Len(t) + 1
      OBVIOUS
    <2>1. CASE i \in DOMAIN t
      <3>1. u[i] = t[i] /\ Len(t) \in Nat
        BY <1>a, <2>1 DEF u
      <3> QED BY <1>1, <2>1, <3>1
    <2>2. CASE i = Len(t) + 1
      BY <1>a, <2>2 DEF u
    <2> QED BY <1>2, <2>1, <2>2
  <1>4. TableOK(u)
    <2>1. \E S : u \in Seq(S)
      BY <1>a DEF u
    <2>2. Len(u) = Len(t) + 1 /\ Len(u) <= MaxTxns
      BY <1>a, LedgerAssumption DEF u
    <2> QED BY <1>3, <2>1, <2>2 DEF TableOK
  <1>5. \A i \in DOMAIN t : i \in DOMAIN u /\ u[i] = t[i]
    BY <1>a DEF u
  <1>6. \A i \in DOMAIN u \ DOMAIN t : u[i] = r
    BY <1>a, <1>2 DEF u
  <1> QED
    BY <1>4, <1>5, <1>6 DEF u, Continues, Extends

LEMMA BasisStems ==
    \A t, p : Stem(Basis(View(t, p)), t, p)
  <1> SUFFICES ASSUME NEW t, NEW p, NEW r \in View(t, p)
               PROVE  /\ r.id \in DOMAIN t
                      /\ IsMatchable(t[r.id])
                      /\ t[r.id].position = p
                      /\ t[r.id].date = r.date
    BY DEF Stem, Basis, Sources, Consumers
  <1> QED
    BY DEF View, LotRow

\* A longer table keeps what stems from a shorter one.
LEMMA StemExtends ==
    ASSUME NEW t, NEW u, \A i \in DOMAIN t : i \in DOMAIN u /\ u[i] = t[i],
           NEW rs, NEW p, Stem(rs, t, p)
    PROVE  Stem(rs, u, p)
  BY DEF Stem

LEMMA MatchedExtends ==
    ASSUME NEW t, NEW u, \A i \in DOMAIN t : i \in DOMAIN u /\ u[i] = t[i],
           NEW m, MatchedOK(t, m)
    PROVE  MatchedOK(u, m)
  BY StemExtends DEF MatchedOK

\* One recompute.
LEMMA Recomputed ==
    ASSUME NEW u, NEW m, MatchedOK(u, m), NEW p \in Positions
    PROVE  MatchedOK(u, [m EXCEPT ![p] = Basis(View(u, p))])
  <1> DEFINE n == [m EXCEPT ![p] = Basis(View(u, p))]
  <1>1. n = [q \in Positions |-> IF q = p THEN Basis(View(u, p)) ELSE m[q]]
    BY DEF MatchedOK
  <1> HIDE DEF n
  <1>2. \A q \in Positions : Stem(n[q], u, q)
    BY <1>1, BasisStems DEF MatchedOK
  <1>3. MatchedOK(u, n)
    BY <1>1, <1>2 DEF MatchedOK
  <1> QED BY <1>3 DEF n

-----------------------------------------------------------------------------
(***************************************************************************)
(* How a committed step carries over what requests and staged writes know. *)
(***************************************************************************)

LEMMA TableIds ==
    ASSUME NEW t, TableOK(t)
    PROVE  /\ DOMAIN t = 1..Len(t)
           /\ Len(t) \in Nat
           /\ DOMAIN t \subseteq TxnIds
  <1>1. PICK S : t \in Seq(S)
    BY DEF TableOK
  <1> QED
    BY <1>1, LenProperties, LedgerAssumption DEF TableOK, TxnIds

\* Requests outlive any step that continues the table, ends a request or
\* leaves the requests alone, and does not move the lock.
LEMMA RequestsSurvive ==
    ASSUME RequestsOK, Continues(txns', txns),
           \/ request' = request
           \/ \E c \in Clients : request' = [request EXCEPT ![c] = Idle],
           \A c \in Clients : lock' = c => lock = c /\ request'[c] = request[c]
    PROVE  RequestsOK'
  <1>1. \A c \in Clients : request'[c] = request[c] \/ request'[c] = Idle
    BY DEF RequestsOK
  <1>2. request' = [c \in Clients |-> request'[c]]
    BY DEF RequestsOK
  <1>3. ASSUME NEW c \in Clients
        PROVE  RequestOK(request'[c], txns')
    <2>1. CASE request'[c] = request[c]
      BY <2>1 DEF RequestsOK, RequestOK, Continues
    <2>2. CASE request'[c] = Idle
      BY <2>2 DEF RequestOK, Idle
    <2> QED BY <1>1, <2>1, <2>2
  <1>4. \A c \in Clients : lock' = c => request'[c].kind = "reconcile"
    BY DEF RequestsOK
  <1> QED BY <1>2, <1>3, <1>4 DEF RequestsOK

LEMMA InitIInv == Init => IInv
  <1> SUFFICES ASSUME Init PROVE IInv
    OBVIOUS
  <1>1. /\ Opening \in Seq(Txns)
        /\ Len(Opening) <= MaxTxns
        /\ \A i \in DOMAIN Opening : Opening[i].trade = 0 /\ ~Opening[i].deleted
    BY OpeningAssumption
  <1>2. \A i \in DOMAIN Opening : Opening[i] \in Txns
    BY <1>1
  <1>3. \A r \in Txns : RowOK(r)
    BY LedgerAssumption DEF Txns, RowOK, RowFields
  <1>4. TableOK(txns)
    <2>1. Len(txns) \in Nat
      BY <1>1, LenProperties DEF Init
    <2> QED BY <1>1, <1>2, <1>3, <2>1 DEF TableOK, Init
  <1>5. MatchedOK(txns, matched)
    BY BasisStems DEF MatchedOK, Init
  <1>6. AuditOK
    BY <1>1 DEF AuditOK, Init
  <1>7. RequestsOK
    BY LedgerAssumption DEF RequestsOK, RequestOK, Idle, Init
  <1>8. StagedOK /\ TradeLegsTogether
    BY <1>1 DEF StagedOK, TradeLegsTogether, Init
  <1> QED BY <1>4, <1>5, <1>6, <1>7, <1>8 DEF IInv

\* Steps before the first flush of a request, and the loss of one.
LEMMA BeginKeeps ==
    ASSUME IInv, NEW c \in Clients,
           \/ BeginUpdate(c) \/ BeginDelete(c) \/ BeginReconcile(c) \/ Abandon(c)
    PROVE  IInv' /\ Continues(txns', txns)
  <1>1. /\ UNCHANGED <<txns, matched, audit, lock, staged>>
        /\ lock # c
        /\ \E r : request' = [request EXCEPT ![c] = r]
    <2>1. request[c] = Idle => lock # c
      BY DEF IInv, RequestsOK, Idle
    <2>2. CASE BeginUpdate(c)
      BY <2>1, <2>2 DEF BeginUpdate
    <2>3. CASE BeginDelete(c)
      BY <2>1, <2>3 DEF BeginDelete
    <2>4. CASE BeginReconcile(c)
      BY <2>1, <2>4 DEF BeginReconcile
    <2>5. CASE Abandon(c)
      BY <2>5 DEF Abandon
    <2> QED BY <2>2, <2>3, <2>4, <2>5
  <1>2. Continues(txns', txns)
    BY <1>1 DEF Continues
  <1>3. RequestOK(request'[c], txns')
    <2>1. CASE BeginUpdate(c)
      <3>1. PICK i \in DOMAIN txns, e \in Edits :
               request' = [request EXCEPT ![c] =
                  [kind |-> "update", id |-> i, seen |-> txns[i], edit |-> e]]
        BY <2>1 DEF BeginUpdate
      <3>2. request'[c] = [kind |-> "update", id |-> i, seen |-> txns[i], edit |-> e]
        BY <3>1 DEF IInv, RequestsOK
      <3>3. DOMAIN txns[i] = RowFields
        BY DEF IInv, TableOK, RowOK
      <3> QED BY <1>1, <3>2, <3>3 DEF RequestOK
    <2>2. CASE BeginDelete(c)
      BY <2>2 DEF BeginDelete, RequestOK, IInv, RequestsOK
    <2>3. CASE BeginReconcile(c)
      BY <2>3 DEF BeginReconcile, RequestOK, IInv, RequestsOK
    <2>4. CASE Abandon(c)
      BY <2>4 DEF Abandon, RequestOK, IInv, RequestsOK, Idle
    <2> QED BY <2>1, <2>2, <2>3, <2>4
  <1>4. RequestsOK'
    <2>1. \A d \in Clients \ {c} : request'[d] = request[d]
      BY <1>1 DEF IInv, RequestsOK
    <2>2. request' = [d \in Clients |-> request'[d]]
      BY <1>1 DEF IInv, RequestsOK
    <2>3. \A d \in Clients : RequestOK(request'[d], txns')
      BY <1>1, <1>3, <2>1 DEF IInv, RequestsOK, RequestOK
    <2>4. \A d \in Clients : lock' = d => request'[d].kind = "reconcile"
      BY <1>1, <2>1 DEF IInv, RequestsOK
    <2> QED BY <2>2, <2>3, <2>4 DEF RequestsOK
  <1>5. StagedOK'
    <2>1. lock # Nobody => request'[lock] = request[lock]
      BY <1>1 DEF IInv, RequestsOK, StagedOK
    <2> QED BY <1>1, <2>1 DEF IInv, StagedOK
  <1> QED
    BY <1>1, <1>2, <1>4, <1>5 DEF IInv, AuditOK, TradeLegsTogether

LEMMA RollbackKeeps ==
    ASSUME IInv, NEW c \in Clients, Rollback(c)
    PROVE  IInv' /\ Continues(txns', txns)
  <1>1. Continues(txns', txns)
    BY DEF Rollback, Continues
  <1>2. RequestsOK'
    BY <1>1, RequestsSurvive, LedgerAssumption DEF IInv, Rollback
  <1> QED
    BY <1>1, <1>2 DEF IInv, Rollback, AuditOK, StagedOK, TradeLegsTogether
\* Unlinked live rows join no trade and need no audit row.
LEMMA ExtendsKeeps ==
    ASSUME IInv, TableOK(txns'), Extends(txns', txns), audit' = audit
    PROVE  /\ AuditOK'
           /\ TradeLegsTogether'
           /\ Continues(txns', txns)
  <1>1. AuditOK'
    BY DEF IInv, AuditOK, Extends
  <1>2. TradeLegsTogether'
    BY DEF IInv, TradeLegsTogether, Extends
  <1>3. Continues(txns', txns)
    BY DEF Continues, Extends
  <1> QED BY <1>1, <1>2, <1>3

LEMMA CreateTransactionKeeps ==
    ASSUME IInv, NEW c \in Clients, CreateTransaction(c)
    PROVE  IInv' /\ Continues(txns', txns)
  <1>1. PICK type \in {"buy", "spend", "yield"}, p \in Positions,
             d \in Dates, q \in Quantities :
           LET t == Append(txns, Txn(p, type, d, SignedQuantity(type, q), 0))
           IN  /\ txns' = t
               /\ IF type \in LotAffectingTypes
                  THEN /\ Covered(View(t, p))
                       /\ matched' = [matched EXCEPT ![p] = Basis(View(t, p))]
                  ELSE UNCHANGED matched
    BY DEF CreateTransaction
  <1> DEFINE row == Txn(p, type, d, SignedQuantity(type, q), 0)
  <1>2. /\ RowOK(row) /\ row.trade = 0 /\ ~row.deleted
        /\ txns' = Append(txns, row)
        /\ \/ matched' = matched
           \/ matched' = [matched EXCEPT ![p] = Basis(View(txns', p))]
    BY <1>1, TxnOK DEF TxnTypes
  <1>3. /\ UNCHANGED <<audit, request, lock>>
        /\ lock = Nobody
        /\ Len(txns) < MaxTxns
    BY DEF CreateTransaction
  <1> HIDE DEF row
  <1>4. 0 <= Len(txns) + 1
    BY TableIds DEF IInv
  <1>5. TableOK(txns') /\ Extends(txns', txns)
    BY <1>2, <1>3, <1>4, AppendedTable DEF IInv
  <1>6. MatchedOK(txns', matched')
    <2>1. MatchedOK(txns', matched)
      BY <1>5, MatchedExtends DEF IInv, Extends
    <2> QED BY <1>2, <2>1, Recomputed
  <1>7. AuditOK' /\ TradeLegsTogether' /\ Continues(txns', txns)
    BY <1>3, <1>5, ExtendsKeeps
  <1>8. RequestsOK'
    BY <1>3, <1>7, RequestsSurvive DEF IInv
  <1>9. StagedOK'
    BY <1>3 DEF StagedOK
  <1> QED BY <1>5, <1>6, <1>7, <1>8, <1>9 DEF IInv

\* The two legs of a trade carry a number no other row has.
LEMMA CreateTradeKeeps ==
    ASSUME IInv, NEW c \in Clients, CreateTrade(c)
    PROVE  IInv' /\ Continues(txns', txns)
  <1> DEFINE pair == Len(txns) + 1
  <1>1. PICK sold \in Positions, received \in Positions,
             d \in Dates, q \in Quantities, r \in Quantities :
           LET n == Len(txns) + 1
               t == Append(Append(txns,
                        Txn(sold, "sell", d, SignedQuantity("sell", q), n)),
                        Txn(received, "buy", d, SignedQuantity("buy", r), n))
           IN  /\ sold[2] # received[2]
               /\ Covered(View(t, sold))
               /\ Covered(View(t, received))
               /\ txns' = t
               /\ matched' = [matched EXCEPT ![sold] = Basis(View(t, sold)),
                                             ![received] = Basis(View(t, received))]
    BY Zenon DEF CreateTrade
  <1> DEFINE s == Txn(sold, "sell", d, SignedQuantity("sell", q), pair)
             b == Txn(received, "buy", d, SignedQuantity("buy", r), pair)
             t == Append(txns, s)
  <1>2. pair \in Nat /\ Len(txns) \in Nat
    BY TableIds DEF IInv
  <1>3. /\ RowOK(s) /\ s.trade = pair /\ ~s.deleted
        /\ RowOK(b) /\ b.trade = pair /\ ~b.deleted
    BY <1>2, TxnOK DEF TxnTypes, DisposalTypes
  <1>4. /\ txns' = Append(t, b)
        /\ matched' = [[matched EXCEPT ![sold] = Basis(View(txns', sold))]
                           EXCEPT ![received] = Basis(View(txns', received))]
    BY <1>1
  <1>5. /\ UNCHANGED <<audit, request, lock>>
        /\ lock = Nobody
        /\ Len(txns) + 1 < MaxTxns
    BY DEF CreateTrade
  <1>6. TableOK(txns) /\ \E S : txns \in Seq(S)
    BY DEF IInv, TableOK
  <1>7. /\ Len(t) = pair
        /\ DOMAIN t = 1..pair
        /\ \A i \in DOMAIN txns : t[i] = txns[i]
        /\ t[pair] = s
        /\ DOMAIN txns = 1..Len(txns)
    BY <1>6, Appended
  <1> HIDE DEF s, b
  <1>8. TableOK(t)
    <2>1. Len(txns) < MaxTxns /\ s.trade <= Len(txns) + 1
      BY <1>2, <1>3, <1>5, LedgerAssumption
    <2> QED BY <1>3, <1>6, <2>1, AppendedTable
  <1> HIDE DEF t
  <1>9. TableOK(txns')
    <2>1. Len(t) < MaxTxns /\ b.trade <= Len(t) + 1
      BY <1>2, <1>3, <1>5, <1>7
    <2> QED BY <1>3, <1>4, <1>8, <2>1, AppendedTable
  <1>10. /\ DOMAIN txns' = 1..(Len(txns) + 2)
         /\ \A i \in DOMAIN txns : txns'[i] = txns[i]
         /\ txns'[Len(txns) + 1] = s
         /\ txns'[Len(txns) + 2] = b
    <2>1. /\ DOMAIN Append(t, b) = 1..(Len(t) + 1)
          /\ \A i \in DOMAIN t : Append(t, b)[i] = t[i]
          /\ Append(t, b)[Len(t) + 1] = b
      BY <1>8, Appended DEF TableOK
    <2>2. DOMAIN txns \subseteq DOMAIN t /\ pair \in DOMAIN t
      BY <1>2, <1>7
    <2> QED BY <1>2, <1>4, <1>7, <2>1, <2>2
  <1>11. /\ \A i \in DOMAIN txns : i \in DOMAIN txns' /\ txns'[i] = txns[i]
         /\ \A i \in DOMAIN txns' \ DOMAIN txns :
               txns'[i].trade = pair /\ ~txns'[i].deleted
    BY <1>2, <1>3, <1>7, <1>10
  <1> HIDE DEF pair
  <1>12. MatchedOK(txns', matched')
    <2>1. MatchedOK(txns', matched)
      BY <1>11, MatchedExtends DEF IInv
    <2>2. MatchedOK(txns', [matched EXCEPT ![sold] = Basis(View(txns', sold))])
      BY <2>1, Recomputed
    <2> QED BY <1>4, <2>2, Recomputed
  <1>13. AuditOK'
    BY <1>5, <1>11 DEF IInv, AuditOK
  <1>14. TradeLegsTogether'
    <2>1. \A i \in DOMAIN txns : txns[i].trade # pair
      BY <1>2, <1>6 DEF TableOK, RowOK, pair
    <2>2. \A i \in DOMAIN txns' : txns'[i].deleted \in BOOLEAN
      BY <1>9 DEF TableOK, RowOK
    <2> QED BY <1>11, <2>1, <2>2 DEF IInv, TradeLegsTogether
  <1>15. Continues(txns', txns)
    BY <1>11 DEF Continues
  <1>16. RequestsOK' /\ StagedOK'
    BY <1>5, <1>15, RequestsSurvive DEF IInv, StagedOK
  <1> QED BY <1>9, <1>12, <1>13, <1>14, <1>15, <1>16 DEF IInv
\* Only the date and the quantity of one row change, and the date only when
\* its position is recomputed or takes no part in matching.
LEMMA CommitUpdateKeeps ==
    ASSUME IInv, NEW c \in Clients, CommitUpdate(c)
    PROVE  IInv' /\ Continues(txns', txns)
  <1> DEFINE r   == request[c]
             row == Written(r, txns[r.id])
             v   == ViewInSession(txns', r)
             recomputes == /\ r.seen.type \in LotAffectingTypes
                           /\ r.edit.fields \cap FifoRelevantFields # {}
  <1>1. /\ r.kind = "update"
        /\ lock = Nobody
        /\ txns' = [txns EXCEPT ![r.id] = row]
        /\ IF recomputes THEN matched' = [matched EXCEPT ![r.seen.position] = Basis(v)]
                         ELSE UNCHANGED matched
        /\ \E diff \in PossibleDiffs(r) :
              audit' = IF diff = {} THEN audit
                       ELSE [audit EXCEPT ![r.id].edits = @ + 1,
                                          ![r.id].logged = diff]
        /\ request' = [request EXCEPT ![c] = Idle]
        /\ UNCHANGED lock
    BY DEF CommitUpdate
  <1>2. /\ r.id \in DOMAIN txns
        /\ r.seen.position = txns[r.id].position
        /\ r.seen.type = txns[r.id].type
        /\ DOMAIN r.seen = RowFields
    BY <1>1 DEF IInv, RequestsOK, RequestOK
  <1>3. RowOK(txns[r.id])
    BY <1>2 DEF IInv, TableOK
  <1>4. /\ RowOK(row)
        /\ row.position = txns[r.id].position
        /\ row.type = txns[r.id].type
        /\ row.trade = txns[r.id].trade
        /\ row.deleted = txns[r.id].deleted
    BY <1>3 DEF Written, RowOK, RowFields
  <1>5. ~recomputes => row.date = txns[r.id].date \/ row.type \notin LotAffectingTypes
    <2> SUFFICES ASSUME r.edit.fields \cap FifoRelevantFields = {}
                 PROVE  row.date = txns[r.id].date
      BY <1>2, <1>4
    <2>1. "date" \notin r.edit.fields
      BY DEF FifoRelevantFields
    <2>2. Edited(r).date = r.seen.date
      BY <1>2, <2>1 DEF Edited, RowFields
    <2> QED BY <1>3, <2>2 DEF Written, RowOK, RowFields
  <1> HIDE DEF row, recomputes
  <1>6. /\ DOMAIN txns' = DOMAIN txns
        /\ txns'[r.id] = row
        /\ \A i \in DOMAIN txns \ {r.id} : txns'[i] = txns[i]
    BY <1>1, <1>2
  <1>7. TableOK(txns')
    <2>1. PICK S : txns \in Seq(S)
      BY DEF IInv, TableOK
    <2>2. txns' \in Seq(S \cup {row}) /\ Len(txns') = Len(txns)
      <3>1. txns \in Seq(S \cup {row})
        BY <2>1
      <3>2. /\ DOMAIN txns = 1..Len(txns)
            /\ Len(txns) \in Nat
            /\ \A i \in 1..Len(txns) : txns[i] \in S \cup {row}
        BY <3>1
      <3>3. txns' = [i \in 1..Len(txns) |-> IF i = r.id THEN row ELSE txns[i]]
        BY <1>1, <3>2
      <3> QED BY <3>2, <3>3
    <2> QED BY <1>4, <1>6, <2>2 DEF IInv, TableOK
  <1>8. Continues(txns', txns)
    BY <1>4, <1>6 DEF Continues
  <1>9. MatchedOK(txns', matched')
    <2>1. \A p \in Positions :
             txns[r.id].position # p \/ row.date = txns[r.id].date
                                     \/ row.type \notin LotAffectingTypes
                => Stem(matched[p], txns', p)
      BY <1>4, <1>6 DEF IInv, MatchedOK, Stem, IsMatchable
    <2>2. CASE recomputes
      <3>1. Stem(Basis(v), txns', r.seen.position)
        <4>1. \A x \in View(txns', r.seen.position) :
                 /\ x.id \in DOMAIN txns'
                 /\ IsMatchable(txns'[x.id])
                 /\ txns'[x.id].position = r.seen.position
                 /\ txns'[x.id].date = x.date
                 /\ [x EXCEPT !.quantity = Edited(r).quantity].id = x.id
                 /\ [x EXCEPT !.quantity = Edited(r).quantity].date = x.date
          BY DEF View, LotRow
        <4>2. \A y \in v : \E x \in View(txns', r.seen.position) :
                 y.id = x.id /\ y.date = x.date
          BY <4>1 DEF ViewInSession
        <4>3. Basis(v) \subseteq v
          BY DEF Basis, Sources, Consumers
        <4> HIDE DEF v, r
        <4> SUFFICES ASSUME NEW y \in Basis(v)
                     PROVE  /\ y.id \in DOMAIN txns'
                            /\ IsMatchable(txns'[y.id])
                            /\ txns'[y.id].position = r.seen.position
                            /\ txns'[y.id].date = y.date
          BY DEF Stem
        <4>4. PICK x \in View(txns', r.seen.position) : y.id = x.id /\ y.date = x.date
          BY <4>2, <4>3
        <4> QED BY <4>1, <4>4
      <3>2. /\ r.seen.position \in Positions
            /\ matched' = [p \in Positions |->
                  IF p = r.seen.position THEN Basis(v) ELSE matched[p]]
        BY <1>1, <1>2, <1>3, <2>2 DEF IInv, MatchedOK, RowOK
      <3>3. \A p \in Positions : Stem(matched'[p], txns', p)
        BY <1>2, <2>1, <3>1, <3>2
      <3> QED BY <3>2, <3>3 DEF MatchedOK
    <2>3. CASE ~recomputes
      BY <1>1, <1>5, <2>1, <2>3 DEF IInv, MatchedOK
    <2> QED BY <2>2, <2>3
  <1>10. AuditOK'
    <2>1. r.id \in TxnIds
      BY <1>2, TableIds DEF IInv
    <2>2. /\ audit' = [i \in TxnIds |-> audit'[i]]
          /\ \A i \in TxnIds : /\ DOMAIN audit'[i] = DOMAIN audit[i]
                               /\ audit'[i].deletes = audit[i].deletes
      <3>1. PICK diff : audit' = IF diff = {} THEN audit
                                 ELSE [audit EXCEPT ![r.id].edits = @ + 1,
                                                    ![r.id].logged = diff]
        BY <1>1
      <3> HIDE DEF r
      <3> QED BY <2>1, <3>1 DEF IInv, AuditOK
    <2> QED BY <1>2, <1>4, <1>6, <2>2 DEF IInv, AuditOK
  <1>11. RequestsOK'
    BY <1>1, <1>8, RequestsSurvive, LedgerAssumption DEF IInv
  <1>12. StagedOK'
    BY <1>1 DEF StagedOK
  <1>13. TradeLegsTogether'
    <2>1. \A i \in DOMAIN txns' : /\ i \in DOMAIN txns
                                  /\ txns'[i].trade = txns[i].trade
                                  /\ txns'[i].deleted = txns[i].deleted
      BY <1>4, <1>6
    <2> QED BY <2>1 DEF IInv, TradeLegsTogether
  <1> QED BY <1>7, <1>8, <1>9, <1>10, <1>11, <1>12, <1>13 DEF IInv

\* The cascade closes over the legs of a trade, and every deleted row that
\* took part in matching has its position recomputed.
LEMMA CommitDeleteKeeps ==
    ASSUME IInv, NEW c \in Clients, CommitDelete(c)
    PROVE  IInv' /\ Continues(txns', txns)
  <1> DEFINE id   == request[c].id
             gone == Cascade(id)
             hit  == {txns[i].position :
                         i \in {j \in gone : txns[j].type \in LotAffectingTypes}}
  <1>1. /\ request[c].kind = "delete"
        /\ lock = Nobody
        /\ txns' = Tombstoned(txns, gone)
        /\ matched' = [p \in Positions |->
                          IF p \in hit THEN Basis(View(txns', p)) ELSE matched[p]]
        /\ audit' = [i \in TxnIds |->
                        IF i \in gone THEN [audit[i] EXCEPT !.deletes = @ + 1]
                        ELSE audit[i]]
        /\ request' = [request EXCEPT ![c] = Idle]
        /\ UNCHANGED lock
    BY DEF CommitDelete, DeletionsLogged
  <1>2. id \in DOMAIN txns /\ gone \subseteq DOMAIN txns
    BY <1>1 DEF IInv, RequestsOK, RequestOK, Cascade
  <1>3. \A i \in DOMAIN txns : RowOK(txns[i])
    BY DEF IInv, TableOK
  <1>4. \A i, j \in DOMAIN txns :
           txns[i].trade # 0 /\ txns[i].trade = txns[j].trade
              => (i \in gone \/ txns[i].deleted) = (j \in gone \/ txns[j].deleted)
    BY <1>2, <1>3 DEF Cascade, RowOK, IInv, TradeLegsTogether
  <1>5. \A i \in gone : txns[i].type \in LotAffectingTypes => txns[i].position \in hit
    OBVIOUS
  <1> HIDE DEF gone, hit
  <1>6. /\ DOMAIN txns' = DOMAIN txns
        /\ \A i \in DOMAIN txns \ gone : txns'[i] = txns[i]
        /\ \A i \in gone : /\ RowOK(txns'[i])
                           /\ txns'[i].position = txns[i].position
                           /\ txns'[i].type = txns[i].type
                           /\ txns'[i].trade = txns[i].trade
                           /\ txns'[i].deleted
    BY <1>1, <1>2, <1>3 DEF Tombstoned, RowOK, RowFields
  <1>7. TableOK(txns')
    <2>1. PICK S : txns \in Seq(S)
      BY DEF IInv, TableOK
    <2>2. DOMAIN txns = 1..Len(txns) /\ Len(txns) \in Nat
      BY <2>1
    <2> DEFINE R == {txns'[i] : i \in DOMAIN txns}
    <2>3. txns' = [i \in 1..Len(txns) |-> txns'[i]]
      BY <1>1, <2>2 DEF Tombstoned
    <2>4. \A i \in 1..Len(txns) : txns'[i] \in R
      BY <2>2
    <2> HIDE DEF R
    <2>5. txns' \in Seq(R) /\ Len(txns') = Len(txns)
      BY <2>2, <2>3, <2>4
    <2>6. \A i \in DOMAIN txns' : RowOK(txns'[i]) /\ txns'[i].trade = txns[i].trade
      BY <1>3, <1>6
    <2> QED BY <1>6, <2>5, <2>6 DEF IInv, TableOK
  <1>8. Continues(txns', txns)
    BY <1>6 DEF Continues
  <1>9. MatchedOK(txns', matched')
    <2>1. \A p \in Positions \ hit : Stem(matched[p], txns', p)
      BY <1>5, <1>6 DEF IInv, MatchedOK, Stem, IsMatchable
    <2>2. \A p \in Positions : Stem(matched'[p], txns', p)
      BY <1>1, <2>1, BasisStems
    <2> QED BY <1>1, <2>2 DEF MatchedOK
  <1>10. AuditOK'
    <2>1. gone \subseteq TxnIds
      BY <1>2, TableIds DEF IInv
    <2>2. \A i \in gone : /\ DOMAIN audit'[i] = {"edits", "deletes", "logged"}
                          /\ audit'[i].deletes = audit[i].deletes + 1
      BY <1>1, <2>1 DEF IInv, AuditOK
    <2>3. \A i \in TxnIds \ gone : audit'[i] = audit[i]
      BY <1>1
    <2>4. \A i \in TxnIds : audit'[i].deletes > 0
              <=> i \in DOMAIN txns' /\ txns'[i].deleted
      BY <1>2, <1>6, <2>1, <2>2, <2>3 DEF IInv, AuditOK
    <2> QED BY <1>1, <2>2, <2>3, <2>4 DEF IInv, AuditOK
  <1>11. RequestsOK'
    BY <1>1, <1>8, RequestsSurvive, LedgerAssumption DEF IInv
  <1>12. StagedOK'
    BY <1>1 DEF StagedOK
  <1>13. TradeLegsTogether'
    <2>1. \A i \in DOMAIN txns : /\ txns'[i].trade = txns[i].trade
                                 /\ txns'[i].deleted \in BOOLEAN
                                 /\ txns'[i].deleted = (i \in gone \/ txns[i].deleted)
      BY <1>3, <1>6 DEF RowOK
    <2> QED BY <1>4, <1>6, <2>1 DEF TradeLegsTogether
  <1> QED BY <1>7, <1>8, <1>9, <1>10, <1>11, <1>12, <1>13 DEF IInv
-----------------------------------------------------------------------------
(***************************************************************************)
(* The staged write of a reconciliation event.                             *)
(***************************************************************************)

LEMMA StageEventKeeps ==
    ASSUME IInv, NEW c \in Clients, StageEvent(c)
    PROVE  IInv' /\ Continues(txns', txns)
  <1>1. /\ request[c].kind = "reconcile"
        /\ lock' = c
        /\ staged' = [txns |-> txns, matched |-> matched,
                      decisions |-> request[c].payload.decisions,
                      rejected |-> request[c].payload.rejected]
        /\ UNCHANGED <<txns, matched, audit, request>>
    BY DEF StageEvent
  <1>2. request[c].payload \in Payloads
    BY <1>1 DEF IInv, RequestsOK, RequestOK
  <1>3. /\ request[c].payload.decisions \in Decisions
        /\ request[c].payload.rejected \in Rejections(request[c].payload)
    BY <1>2, PayloadAssumption DEF Decisions, Rejections
  <1>4. StagedOK'
    BY <1>1, <1>3 DEF IInv, StagedOK, Extends
  <1>5. RequestsOK' /\ Continues(txns', txns)
    BY <1>1 DEF IInv, RequestsOK, RequestOK, Continues
  <1> QED BY <1>1, <1>4, <1>5 DEF IInv, AuditOK, TradeLegsTogether

\* A staged step that leaves the tables alone need only keep StagedOK.
LEMMA StagedKeeps ==
    ASSUME IInv, StagedOK', UNCHANGED <<txns, matched, audit, events, request, lock>>
    PROVE  IInv' /\ Continues(txns', txns)
  BY DEF IInv, RequestsOK, RequestOK, AuditOK, TradeLegsTogether, Continues

\* Appending an unlinked live row to the staged table.
LEMMA StagedAppend ==
    ASSUME IInv, lock # Nobody, Len(staged.txns) < MaxTxns,
           NEW row, RowOK(row), row.trade = 0, ~row.deleted
    PROVE  /\ TableOK(Append(staged.txns, row))
           /\ Extends(Append(staged.txns, row), txns)
           /\ MatchedOK(Append(staged.txns, row), staged.matched)
  <1> DEFINE t == staged.txns
             u == Append(t, row)
  <1>1. TableOK(t) /\ Extends(t, txns) /\ MatchedOK(t, staged.matched)
    BY DEF IInv, StagedOK
  <1>2. row.trade <= Len(t) + 1 /\ Len(t) < MaxTxns
    BY <1>1, TableIds
  <1> HIDE DEF t
  <1>3. TableOK(u) /\ Extends(u, t)
    BY <1>1, <1>2, AppendedTable
  <1> HIDE DEF u
  <1>4. Extends(u, txns)
    BY <1>1, <1>3 DEF Extends
  <1>5. MatchedOK(u, staged.matched)
    BY <1>1, <1>3, MatchedExtends DEF Extends
  <1> QED BY <1>3, <1>4, <1>5 DEF u, t

LEMMA StageTxnKeeps ==
    ASSUME IInv, lock # Nobody, UNCHANGED <<txns, request, lock>>,
           NEW row, RowOK(row), row.trade = 0, ~row.deleted,
           NEW ds \in Decisions, NEW rs \in Rejections(request[lock].payload),
           StageTxn(row, ds, rs)
    PROVE  StagedOK'
  <1> DEFINE u == Append(staged.txns, row)
  <1>1. /\ Len(staged.txns) < MaxTxns
        /\ staged' = [txns |-> u,
                      matched |-> [staged.matched EXCEPT
                                      ![row.position] = Basis(View(u, row.position))],
                      decisions |-> ds, rejected |-> rs]
    BY DEF StageTxn
  <1>2. TableOK(u) /\ Extends(u, txns) /\ MatchedOK(u, staged.matched)
    BY <1>1, StagedAppend
  <1> HIDE DEF u
  <1>3. row.position \in Positions
    BY DEF RowOK
  <1>4. MatchedOK(u, [staged.matched EXCEPT
                         ![row.position] = Basis(View(u, row.position))])
    BY <1>2, <1>3, Recomputed
  <1>5. lock \in Clients
    BY DEF IInv, StagedOK
  <1> QED BY <1>1, <1>2, <1>4, <1>5 DEF StagedOK

\* The instruments a write transaction touches are those of the body.
LEMMA StagedBody ==
    ASSUME IInv, NEW c \in Clients, lock = c
    PROVE  /\ lock # Nobody
           /\ request[c].payload \in Payloads
           /\ request[c].payload.account \in Accounts
           /\ DOMAIN request[c].payload.holdings \subseteq Instruments
           /\ staged.decisions \in Decisions
           /\ staged.rejected \in Rejections(request[c].payload)
  <1>1. lock # Nobody
    BY LedgerAssumption
  <1>2. request[c].payload \in Payloads
    BY DEF IInv, RequestsOK, RequestOK
  <1> QED
    BY <1>1, <1>2, PayloadAssumption DEF IInv, StagedOK

LEMMA StageDecisionKeeps ==
    ASSUME IInv, NEW c \in Clients, StageDecision(c)
    PROVE  IInv' /\ Continues(txns', txns)
  <1> DEFINE p     == request[c].payload
             d     == Head(staged.decisions)
             rest  == Tail(staged.decisions)
             delta == Delta(c, d.instrument)
             adjustment(q) == Txn(<<p.account, d.instrument>>, "adjustment", p.date, q, 0)
  <1>1. /\ lock = c
        /\ staged.decisions # <<>>
        /\ UNCHANGED <<txns, matched, audit, events, request, lock>>
        /\ \/ staged' = [staged EXCEPT !.decisions = rest]
           \/ StageTxn(adjustment(delta), rest, staged.rejected)
           \/ /\ Len(staged.txns) < MaxTxns
              /\ staged' = [staged EXCEPT !.decisions = rest,
                                          !.txns = Append(@, adjustment(0))]
    BY DEF StageDecision
  <1>2. /\ lock # Nobody
        /\ p.account \in Accounts
        /\ staged.decisions \in Decisions
        /\ staged.rejected \in Rejections(p)
    BY <1>1, StagedBody
  <1>3. d.instrument \in Instruments /\ rest \in Decisions
    <2>1. d \in [instrument : Instruments, action : Actions] /\ rest \in Decisions
      BY <1>1, <1>2, HeadTailProperties DEF Decisions
    <2> QED BY <2>1
  <1>4. \A q : RowOK(adjustment(q)) /\ adjustment(q).trade = 0 /\ ~adjustment(q).deleted
    BY <1>2, <1>3, TxnOK DEF TxnTypes, Positions
  <1> HIDE DEF d, rest, delta, adjustment
  <1>5. CASE staged' = [staged EXCEPT !.decisions = rest]
    <2>1. StagedOK'
      BY <1>1, <1>2, <1>3, <1>5 DEF IInv, StagedOK
    <2> QED BY <1>1, <2>1, StagedKeeps
  <1>6. CASE StageTxn(adjustment(delta), rest, staged.rejected)
    <2>1. StagedOK'
      BY <1>1, <1>2, <1>3, <1>4, <1>6, StageTxnKeeps
    <2> QED BY <1>1, <2>1, StagedKeeps
  <1>7. CASE /\ Len(staged.txns) < MaxTxns
             /\ staged' = [staged EXCEPT !.decisions = rest,
                                         !.txns = Append(@, adjustment(0))]
    <2> DEFINE u == Append(staged.txns, adjustment(0))
    <2>1. TableOK(u) /\ Extends(u, txns) /\ MatchedOK(u, staged.matched)
      BY <1>2, <1>4, <1>7, StagedAppend
    <2> HIDE DEF u
    <2>2. /\ DOMAIN staged' = {"txns", "matched", "decisions", "rejected"}
          /\ staged'.txns = u
          /\ staged'.matched = staged.matched
          /\ staged'.decisions = rest
          /\ staged'.rejected = staged.rejected
      BY <1>2, <1>7 DEF u, IInv, StagedOK
    <2>3. StagedOK'
      BY <1>1, <1>2, <1>3, <2>1, <2>2 DEF IInv, StagedOK
    <2> QED BY <1>1, <2>3, StagedKeeps
  <1> QED BY <1>1, <1>5, <1>6, <1>7

LEMMA StageRejectedKeeps ==
    ASSUME IInv, NEW c \in Clients, StageRejected(c)
    PROVE  IInv' /\ Continues(txns', txns)
  <1> DEFINE p    == request[c].payload
             r    == Head(staged.rejected)
             rest == Tail(staged.rejected)
             size == Magnitude(Delta(c, r.instrument))
             row  == Txn(<<p.account, r.instrument>>, r.type, r.date,
                         SignedQuantity(r.type, size), 0)
  <1>1. /\ lock = c
        /\ staged.rejected # <<>>
        /\ staged.decisions = <<>>
        /\ UNCHANGED <<txns, matched, audit, events, request, lock>>
        /\ \/ staged' = [staged EXCEPT !.rejected = rest]
           \/ StageTxn(row, <<>>, rest)
    BY DEF StageRejected
  <1>2. /\ lock # Nobody
        /\ p.account \in Accounts
        /\ DOMAIN p.holdings \subseteq Instruments
        /\ staged.decisions \in Decisions
        /\ staged.rejected \in Rejections(p)
    BY <1>1, StagedBody
  <1>3. /\ r.instrument \in Instruments
        /\ r.type \in TxnTypes
        /\ rest \in Rejections(p)
    <2>1. /\ r \in [instrument : DOMAIN p.holdings, type : RejectTypes, date : Dates]
          /\ rest \in Rejections(p)
      BY <1>1, <1>2, HeadTailProperties DEF Rejections
    <2> QED BY <1>2, <2>1 DEF RejectTypes, TxnTypes
  <1>4. RowOK(row) /\ row.trade = 0 /\ ~row.deleted
    BY <1>2, <1>3, TxnOK DEF Positions
  <1> HIDE DEF r, rest, row
  <1>5. CASE staged' = [staged EXCEPT !.rejected = rest]
    <2>1. StagedOK'
      BY <1>1, <1>2, <1>3, <1>5 DEF IInv, StagedOK
    <2> QED BY <1>1, <2>1, StagedKeeps
  <1>6. CASE StageTxn(row, <<>>, rest)
    <2>1. StagedOK'
      BY <1>1, <1>2, <1>3, <1>4, <1>6, StageTxnKeeps
    <2> QED BY <1>1, <2>1, StagedKeeps
  <1> QED BY <1>1, <1>5, <1>6

LEMMA CommitEventKeeps ==
    ASSUME IInv, NEW c \in Clients, CommitEvent(c)
    PROVE  IInv' /\ Continues(txns', txns)
  <1>1. /\ lock = c
        /\ txns' = staged.txns
        /\ matched' = staged.matched
        /\ audit' = audit
        /\ lock' = Nobody
        /\ request' = [request EXCEPT ![c] = Idle]
    BY DEF CommitEvent
  <1>2. TableOK(txns') /\ Extends(txns', txns) /\ MatchedOK(txns', matched')
    BY <1>1, LedgerAssumption DEF IInv, StagedOK
  <1>3. AuditOK' /\ TradeLegsTogether' /\ Continues(txns', txns)
    BY <1>1, <1>2, ExtendsKeeps
  <1>4. RequestsOK'
    BY <1>1, <1>3, RequestsSurvive, LedgerAssumption DEF IInv
  <1>5. StagedOK'
    BY <1>1 DEF StagedOK
  <1> QED BY <1>2, <1>3, <1>4, <1>5 DEF IInv

-----------------------------------------------------------------------------

LEMMA NextKeeps ==
    IInv /\ [Next]_vars => IInv' /\ Continues(txns', txns)
  <1> SUFFICES ASSUME IInv, [Next]_vars
               PROVE  IInv' /\ Continues(txns', txns)
    OBVIOUS
  <1>1. CASE Next
    <2> PICK c \in Clients :
           \/ CreateTransaction(c) \/ CreateTrade(c)
           \/ BeginUpdate(c) \/ CommitUpdate(c)
           \/ BeginDelete(c) \/ CommitDelete(c)
           \/ BeginReconcile(c) \/ StageEvent(c) \/ StageDecision(c)
           \/ StageRejected(c) \/ CommitEvent(c)
           \/ Rollback(c) \/ Abandon(c)
      BY <1>1 DEF Next
    <2> QED
      BY CreateTransactionKeeps, CreateTradeKeeps, BeginKeeps, CommitUpdateKeeps,
         CommitDeleteKeeps, StageEventKeeps, StageDecisionKeeps,
         StageRejectedKeeps, CommitEventKeeps, RollbackKeeps
  <1>2. CASE UNCHANGED vars
    BY <1>2 DEF vars, IInv, RequestsOK, RequestOK, StagedOK, AuditOK,
                TradeLegsTogether, Continues
  <1> QED BY <1>1, <1>2

\* The invariant of the ledger under any interleaving of requests: tables are
\* well formed, allocations stem from live rows, the audit knows the dead
\* ones, trades are whole, and what a request in flight or a staged write
\* remembers of a row still holds of it.
THEOREM Invariance == Spec => []IInv
  BY InitIInv, NextKeeps, PTL DEF Spec

\* The legs of a linked trade are deleted together, whatever races
\* (DELETE /api/transactions/{id} and its cascade).
THEOREM TradesDieWhole == Spec => []TradeLegsTogether
  <1>1. IInv => TradeLegsTogether
    BY DEF IInv
  <1> QED BY <1>1, Invariance, PTL

\* Whatever races, the allocations of a position are matched from rows that
\* are live, of that position, and under their present dates
\* (recompute_fifo_for_pair at the end of every lot-affecting mutation).
THEOREM AllocationsStemFromLiveRows == Spec => []AllocationsOfLiveRows
  <1>1. IInv => AllocationsOfLiveRows
    BY DEF IInv, MatchedOK, Stem, IsMatchable, AllocationsOfLiveRows
  <1> QED BY <1>1, Invariance, PTL

\* A row is deleted exactly when the audit trail holds a deletion of it
\* (write_audit_event under the same commit as the tombstone).
THEOREM EveryDeletionAudited == Spec => []DeletionsAudited
  <1>1. IInv => DeletionsAudited
    BY TableIds DEF IInv, AuditOK, DeletionsAudited
  <1> QED BY <1>1, Invariance, PTL

\* No step loses a row or brings a deleted one back: a stale session writes
\* the columns it changed and no other.
THEOREM NothingComesBack == Spec => DeletionIsFinal
  <1>1. IInv /\ [Next]_vars =>
           [\A i \in DOMAIN txns :
               /\ i \in DOMAIN txns'
               /\ txns[i].deleted => txns'[i].deleted]_vars
    BY NextKeeps DEF Continues
  <1> QED BY <1>1, Invariance, PTL DEF Spec, DeletionIsFinal

-----------------------------------------------------------------------------
(***************************************************************************)
(* Trades are pairs.                                                       *)
(***************************************************************************)

PairsOK(t) ==
    \A i \in DOMAIN t : t[i].trade # 0 =>
        \E j \in DOMAIN t : /\ j # i
                            /\ {t[i].type, t[j].type} = {"sell", "buy"}
                            /\ {k \in DOMAIN t : t[k].trade = t[i].trade} = {i, j}

\* Table u has two rows more than t: the legs of a trade with a number of
\* their own.
Trades(u, t) ==
    \E a, b :
        /\ a # b /\ a \notin DOMAIN t /\ b \notin DOMAIN t
        /\ DOMAIN u = DOMAIN t \cup {a, b}
        /\ u[a].type = "sell" /\ u[b].type = "buy"
        /\ u[a].trade = u[b].trade /\ u[a].trade # 0
        /\ \A i \in DOMAIN t : t[i].trade # u[a].trade

\* A step changes rows, adds rows of no trade, or adds the legs of a trade.
LEMMA HowTablesGrow ==
    ASSUME IInv, [Next]_vars
    PROVE  DOMAIN txns' = DOMAIN txns \/ Extends(txns', txns) \/ Trades(txns', txns)
  <1>1. ASSUME NEW c \in Clients, CreateTransaction(c) PROVE Extends(txns', txns)
    <2>1. PICK type \in {"buy", "spend", "yield"}, p \in Positions, d \in Dates, q \in Quantities :
            txns' = Append(txns, Txn(p, type, d, SignedQuantity(type, q), 0))
      BY <1>1 DEF CreateTransaction
    <2> DEFINE row == Txn(p, type, d, SignedQuantity(type, q), 0)
    <2>2. /\ RowOK(row) /\ row.trade = 0 /\ ~row.deleted
          /\ txns' = Append(txns, row)
      BY <2>1, TxnOK DEF TxnTypes
    <2> HIDE DEF row
    <2>3. 0 <= Len(txns) + 1 /\ Len(txns) < MaxTxns
      BY <1>1, TableIds DEF IInv, CreateTransaction
    <2> QED BY <2>2, <2>3, AppendedTable DEF IInv
  <1>2. ASSUME NEW c \in Clients, CreateTrade(c) PROVE Trades(txns', txns)
    <2> DEFINE n == Len(txns) + 1
    <2>1. PICK sold \in Positions, received \in Positions,
               d \in Dates, q \in Quantities, r \in Quantities :
             LET pair == Len(txns) + 1
                 t == Append(Append(txns,
                          Txn(sold, "sell", d, SignedQuantity("sell", q), pair)),
                          Txn(received, "buy", d, SignedQuantity("buy", r), pair))
             IN  /\ sold[2] # received[2]
                 /\ Covered(View(t, sold))
                 /\ Covered(View(t, received))
                 /\ txns' = t
                 /\ matched' = [matched EXCEPT ![sold] = Basis(View(t, sold)),
                                               ![received] = Basis(View(t, received))]
      BY <1>2, Zenon DEF CreateTrade
    <2> DEFINE s == Txn(sold, "sell", d, SignedQuantity("sell", q), n)
               b == Txn(received, "buy", d, SignedQuantity("buy", r), n)
               t == Append(txns, s)
    <2>2. s.type = "sell" /\ b.type = "buy" /\ s.trade = n /\ b.trade = n
      BY DEF Txn
    <2>3. txns' = Append(t, b)
      BY <2>1
    <2> HIDE DEF s, b
    <2>4. /\ \E S : txns \in Seq(S)
          /\ Len(txns) \in Nat
          /\ \A i \in DOMAIN txns : txns[i].trade <= Len(txns) /\ txns[i].trade \in Nat
      BY TableIds DEF IInv, TableOK, RowOK
    <2>5. /\ \E S : t \in Seq(S)
          /\ Len(t) = n /\ DOMAIN t = 1..n /\ t[n] = s /\ DOMAIN txns = 1..Len(txns)
      BY <2>4, Appended
    <2> HIDE DEF t
    <2>6. /\ DOMAIN txns' = 1..(n + 1) /\ txns'[n + 1] = b /\ txns'[n] = s
      <3>1. /\ DOMAIN Append(t, b) = 1..(Len(t) + 1)
            /\ \A i \in DOMAIN t : Append(t, b)[i] = t[i]
            /\ Append(t, b)[Len(t) + 1] = b
        BY <2>5, Appended
      <3>2. n \in DOMAIN t
        BY <2>4, <2>5
      <3> QED BY <2>3, <2>5, <3>1, <3>2
    <2>7. /\ n # n + 1 /\ n \notin DOMAIN txns /\ n + 1 \notin DOMAIN txns
          /\ DOMAIN txns' = DOMAIN txns \cup {n, n + 1} /\ n # 0
      BY <2>4, <2>5, <2>6
    <2>8. \A i \in DOMAIN txns : txns[i].trade # n
      BY <2>4
    <2> HIDE DEF n
    <2> QED BY <2>2, <2>6, <2>7, <2>8 DEF Trades
  <1>3. ASSUME NEW c \in Clients, CommitUpdate(c) PROVE DOMAIN txns' = DOMAIN txns
    BY <1>3 DEF CommitUpdate
  <1>4. ASSUME NEW c \in Clients, CommitDelete(c) PROVE DOMAIN txns' = DOMAIN txns
    BY <1>4 DEF CommitDelete, Tombstoned
  <1>5. ASSUME NEW c \in Clients, CommitEvent(c) PROVE Extends(txns', txns)
    BY <1>5, LedgerAssumption DEF CommitEvent, IInv, StagedOK
  <1>6. ASSUME NEW c \in Clients,
               \/ BeginUpdate(c) \/ BeginDelete(c) \/ BeginReconcile(c) \/ StageEvent(c)
               \/ StageDecision(c) \/ StageRejected(c) \/ Rollback(c) \/ Abandon(c)
        PROVE  txns' = txns
    BY <1>6 DEF BeginUpdate, BeginDelete, BeginReconcile, StageEvent, StageDecision,
                StageRejected, Rollback, Abandon
  <1>7. CASE UNCHANGED vars
    BY <1>7 DEF vars
  <1> QED BY <1>1, <1>2, <1>3, <1>4, <1>5, <1>6, <1>7 DEF Next

LEMMA PairsKept ==
    ASSUME NEW t, NEW u, PairsOK(t), Continues(u, t),
           DOMAIN u = DOMAIN t \/ Extends(u, t) \/ Trades(u, t)
    PROVE  PairsOK(u)
  <1>1. \A i \in DOMAIN t : i \in DOMAIN u /\ u[i].type = t[i].type /\ u[i].trade = t[i].trade
    BY DEF Continues
  <1>2. ASSUME \A k \in DOMAIN u \ DOMAIN t : \A i \in DOMAIN t :
                  t[i].trade # 0 => u[k].trade # t[i].trade,
               NEW i \in DOMAIN t, u[i].trade # 0
        PROVE  \E j \in DOMAIN u : /\ j # i
                                   /\ {u[i].type, u[j].type} = {"sell", "buy"}
                                   /\ {k \in DOMAIN u : u[k].trade = u[i].trade} = {i, j}
    <2>1. PICK j \in DOMAIN t : /\ j # i
                                /\ {t[i].type, t[j].type} = {"sell", "buy"}
                                /\ {k \in DOMAIN t : t[k].trade = t[i].trade} = {i, j}
      BY <1>1, <1>2 DEF PairsOK
    <2>2. {k \in DOMAIN u : u[k].trade = u[i].trade} = {k \in DOMAIN t : t[k].trade = t[i].trade}
      BY <1>1, <1>2
    <2> QED BY <1>1, <2>1, <2>2
  <1>3. CASE DOMAIN u = DOMAIN t
    BY <1>2, <1>3 DEF PairsOK
  <1>4. CASE Extends(u, t)
    BY <1>1, <1>2, <1>4 DEF PairsOK, Extends
  <1>5. CASE Trades(u, t)
    <2>1. PICK a, b :
            /\ a # b /\ a \notin DOMAIN t /\ b \notin DOMAIN t
            /\ DOMAIN u = DOMAIN t \cup {a, b}
            /\ u[a].type = "sell" /\ u[b].type = "buy"
            /\ u[a].trade = u[b].trade /\ u[a].trade # 0
            /\ \A i \in DOMAIN t : t[i].trade # u[a].trade
      BY <1>5 DEF Trades
    <2>2. \A i \in DOMAIN t : u[i].trade # 0 =>
             \E j \in DOMAIN u : /\ j # i
                                 /\ {u[i].type, u[j].type} = {"sell", "buy"}
                                 /\ {k \in DOMAIN u : u[k].trade = u[i].trade} = {i, j}
      BY <1>2, <2>1
    <2>3. {k \in DOMAIN u : u[k].trade = u[a].trade} = {a, b}
      BY <1>1, <2>1
    <2>4. {k \in DOMAIN u : u[k].trade = u[b].trade} = {b, a}
      BY <2>1, <2>3
    <2>5. {u[a].type, u[b].type} = {"sell", "buy"} /\ {u[b].type, u[a].type} = {"sell", "buy"}
      BY <2>1
    <2>6. a \in DOMAIN u /\ b \in DOMAIN u
      BY <2>1
    <2> QED BY <2>1, <2>2, <2>3, <2>4, <2>5, <2>6 DEF PairsOK
  <1> QED BY <1>3, <1>4, <1>5

\* A linked trade is one sell and one buy, for any number of racing requests:
\* nothing joins it, and neither leg leaves it (services/trades.py).
THEOREM TradesStayPairs == Spec => []TradesArePairs
  <1>1. Init => PairsOK(txns)
    BY OpeningAssumption DEF Init, PairsOK
  <1>2. IInv /\ PairsOK(txns) /\ [Next]_vars => PairsOK(txns)'
    <2> SUFFICES ASSUME IInv, PairsOK(txns), [Next]_vars PROVE PairsOK(txns')
      BY DEF PairsOK
    <2>1. Continues(txns', txns)
      BY NextKeeps
    <2> QED BY <2>1, HowTablesGrow, PairsKept
  <1>3. PairsOK(txns) => TradesArePairs
    BY DEF PairsOK, TradesArePairs
  <1> QED BY <1>1, <1>2, <1>3, Invariance, PTL DEF Spec

-----------------------------------------------------------------------------
(***************************************************************************)
(* Types, quantities included.                                             *)
(***************************************************************************)

TypeInv == IInv /\ TypeOK

LEMMA SignedInt ==
    ASSUME NEW type, NEW q \in Int
    PROVE  SignedQuantity(type, q) \in Int
  BY DEF SignedQuantity, Magnitude

LEMMA TxnTyped ==
    ASSUME NEW p \in Positions, NEW type \in TxnTypes, NEW d \in Dates,
           NEW q \in Int, NEW k \in 0..MaxTxns
    PROVE  Txn(p, type, d, q, k) \in Txns
  BY DEF Txn, Txns

LEMMA AppendTyped ==
    ASSUME NEW t \in Seq(Txns), Len(t) < MaxTxns, NEW row \in Txns
    PROVE  Append(t, row) \in Seq(Txns) /\ Len(Append(t, row)) <= MaxTxns
  <1>1. Append(t, row) \in Seq(Txns) /\ Len(Append(t, row)) = Len(t) + 1 /\ Len(t) \in Nat
    BY AppendProperties, LenProperties
  <1> QED BY <1>1, LedgerAssumption

LEMMA RowsTyped ==
    ASSUME NEW t \in Seq(Txns), Len(t) <= MaxTxns
    PROVE  DOMAIN t \subseteq TxnIds /\ \A i \in DOMAIN t : t[i] \in Txns
  <1>1. DOMAIN t = 1..Len(t) /\ Len(t) \in Nat
    BY LenProperties
  <1> QED BY <1>1, LedgerAssumption, ElementOfSeq DEF TxnIds

LEMMA ViewTyped ==
    ASSUME NEW t \in Seq(Txns), Len(t) <= MaxTxns, NEW p
    PROVE  View(t, p) \in Views /\ Basis(View(t, p)) \in Views
  <1>1. ASSUME NEW r \in View(t, p)
        PROVE  r \in [id : TxnIds, type : TxnTypes, date : Dates, quantity : Int]
    <2>1. PICK i \in DOMAIN t : r = LotRow(i, t[i])
      BY DEF View
    <2>2. i \in TxnIds /\ t[i] \in Txns
      BY RowsTyped
    <2> QED BY <2>1, <2>2 DEF LotRow, Txns
  <1> QED BY <1>1 DEF Views, Basis, Sources, Consumers

LiveOf(t, p) == {i \in DOMAIN t : t[i].position = p /\ ~t[i].deleted}

QuantityOf(t) == [i \in DOMAIN t |-> t[i].quantity]

\* The holding of a position is the sum of its live quantities, a number.
LEMMA HeldIsSum ==
    ASSUME NEW t \in Seq(Txns), NEW p
    PROVE  /\ IsFiniteSet(LiveOf(t, p))
           /\ \A i \in LiveOf(t, p) : QuantityOf(t)[i] \in Int
           /\ Held(t, p) = SumOf(QuantityOf(t), LiveOf(t, p))
           /\ Held(t, p) \in Int
  <1> DEFINE S == LiveOf(t, p)
             f == QuantityOf(t)
             sum[s \in SUBSET S] ==
                 IF s = {} THEN 0
                 ELSE LET x == CHOOSE x \in s : TRUE IN t[x].quantity + sum[s \ {x}]
  <1>1. Held(t, p) = sum[S]
    BY DEF Held, MapThenSumSet, MapThenFoldSet, LiveOf
  <1>2. DOMAIN t = 1..Len(t) /\ Len(t) \in Nat /\ \A i \in DOMAIN t : t[i] \in Txns
    BY LenProperties, ElementOfSeq
  <1>3. IsFiniteSet(S)
    <2>1. IsFiniteSet(DOMAIN t)
      BY <1>2, FS_Interval
    <2> QED BY <2>1, FS_Subset DEF LiveOf
  <1>4. \A i \in S : f[i] = t[i].quantity /\ f[i] \in Int
    BY <1>2 DEF Txns, LiveOf, QuantityOf
  <1> HIDE DEF S, f
  <1>5. \A h : \A s \in SUBSET S :
            AddUp(f, h, s) = IF s = {} THEN 0
                ELSE LET x == CHOOSE x \in s : TRUE IN t[x].quantity + h[s \ {x}]
    <2> TAKE h
    <2> TAKE s \in SUBSET S
    <2>1. CASE s = {}
      BY <2>1 DEF AddUp
    <2>2. CASE s # {}
      <3>1. AnyOf(s) \in S
        BY <2>2 DEF AnyOf
      <3>2. AddUp(f, h, s) = t[AnyOf(s)].quantity + h[s \ {AnyOf(s)}]
        <4>1. f[AnyOf(s)] = t[AnyOf(s)].quantity
          BY <1>4, <3>1
        <4> QED BY <2>2, <4>1 DEF AddUp
      <3> QED BY <2>2, <3>2 DEF AnyOf
    <2> QED BY <2>1, <2>2
  <1>6. PICK h : IsSum(h, f, S)
    BY <1>3, <1>4, SumExists
  <1>7. h = [s \in SUBSET S |->
                IF s = {} THEN 0
                ELSE LET x == CHOOSE x \in s : TRUE IN t[x].quantity + h[s \ {x}]]
    BY <1>5, <1>6 DEF IsSum
  <1>8. sum = [s \in SUBSET S |->
                  IF s = {} THEN 0
                  ELSE LET x == CHOOSE x \in s : TRUE IN t[x].quantity + sum[s \ {x}]]
    BY <1>7
  <1> HIDE DEF sum
  <1>9. IsSum(sum, f, S)
    BY <1>5, <1>8 DEF IsSum
  <1>10. PICK k : IsSum(k, f, S) /\ SumOf(f, S) = k[S]
    BY <1>3, <1>4, SumOfSum
  <1>11. sum[S] = k[S] /\ sum[S] \in Int
    BY <1>3, <1>4, <1>9, <1>10, SumUnique, SumFacts
  <1> QED BY <1>1, <1>3, <1>4, <1>10, <1>11 DEF S, f

\* One more row counts for its own position, and for no other.
LEMMA HeldAppend ==
    ASSUME NEW t \in Seq(Txns), NEW row \in Txns, ~row.deleted, NEW p
    PROVE  Held(Append(t, row), p) =
               Held(t, p) + (IF row.position = p THEN row.quantity ELSE 0)
  <1> DEFINE u == Append(t, row)
             n == Len(t) + 1
  <1>1. /\ u \in Seq(Txns) /\ Len(t) \in Nat
        /\ DOMAIN t = 1..Len(t) /\ DOMAIN u = 1..n
        /\ \A i \in DOMAIN t : u[i] = t[i]
        /\ u[n] = row
    BY Appended, AppendProperties, LenProperties
  <1>2. row.quantity \in Int /\ n \notin DOMAIN t /\ DOMAIN u = DOMAIN t \cup {n}
    BY <1>1 DEF Txns
  <1> HIDE DEF u, n
  <1>3. /\ Held(u, p) = SumOf(QuantityOf(u), LiveOf(u, p))
        /\ Held(t, p) = SumOf(QuantityOf(t), LiveOf(t, p))
        /\ IsFiniteSet(LiveOf(t, p)) /\ Held(t, p) \in Int
        /\ \A i \in LiveOf(t, p) : QuantityOf(t)[i] \in Int
    BY <1>1, HeldIsSum
  <1>4. \A i \in LiveOf(t, p) : QuantityOf(u)[i] = QuantityOf(t)[i]
    BY <1>1, <1>2 DEF LiveOf, QuantityOf
  <1>5. SumOf(QuantityOf(u), LiveOf(t, p)) = Held(t, p)
    BY <1>3, <1>4, SumOfSame
  <1>6. CASE row.position = p
    <2>1. /\ LiveOf(u, p) = LiveOf(t, p) \cup {n} /\ n \notin LiveOf(t, p)
          /\ QuantityOf(u)[n] = row.quantity
      BY <1>1, <1>2, <1>6 DEF LiveOf, QuantityOf
    <2>2. SumOf(QuantityOf(u), LiveOf(t, p) \cup {n})
              = QuantityOf(u)[n] + SumOf(QuantityOf(u), LiveOf(t, p))
      <3>1. \A i \in LiveOf(t, p) : QuantityOf(u)[i] \in Int
        BY <1>3, <1>4
      <3> QED BY <1>2, <1>3, <2>1, <3>1, SumOfAdd
    <2> QED BY <1>2, <1>3, <1>5, <1>6, <2>1, <2>2 DEF u
  <1>7. CASE row.position # p
    <2>1. LiveOf(u, p) = LiveOf(t, p)
      BY <1>1, <1>2, <1>7 DEF LiveOf
    <2> QED BY <1>3, <1>5, <1>7, <2>1 DEF u
  <1> QED BY <1>6, <1>7

LEMMA InitTypes == Init => TypeInv
  <1> SUFFICES ASSUME Init PROVE TypeOK
    BY InitIInv DEF TypeInv
  <1>1. Opening \in Seq(Txns) /\ Len(Opening) <= MaxTxns
    BY OpeningAssumption
  <1>2. \A p \in Positions : Basis(View(Opening, p)) \in Views
    BY <1>1, ViewTyped
  <1>3. /\ staged.txns = <<>> /\ staged.matched = [p \in Positions |-> {}]
        /\ <<>> \in Seq(Txns) /\ Len(<<>>) = 0 /\ {} \in Views /\ 0 <= MaxTxns
    BY LedgerAssumption, EmptySeq DEF Init, NothingStaged, Views
  <1>4. /\ <<>> \in Seq(Payloads)
        /\ [edits |-> 0, deletes |-> 0, logged |-> {}]
               \in [edits : Nat, deletes : Nat, logged : SUBSET Fields]
    BY EmptySeq
  <1> QED BY <1>1, <1>2, <1>3, <1>4 DEF Init, TypeOK, Requests

\* A step that begins or ends a request without touching a table.
LEMMA BeginTypes ==
    ASSUME TypeInv, NEW c \in Clients,
           BeginUpdate(c) \/ BeginDelete(c) \/ BeginReconcile(c) \/ Abandon(c)
    PROVE  TypeOK'
  <1>1. UNCHANGED <<txns, matched, audit, events, lock, staged>>
    BY DEF BeginUpdate, BeginDelete, BeginReconcile, Abandon
  <1>2. DOMAIN txns \subseteq TxnIds /\ \A i \in DOMAIN txns : txns[i] \in Txns
    BY RowsTyped DEF TypeInv, TypeOK
  <1>3. \E r \in Requests : request' = [request EXCEPT ![c] = r]
    <2>1. CASE BeginUpdate(c)
      <3>1. PICK i \in DOMAIN txns, e \in Edits :
                request' = [request EXCEPT ![c] =
                    [kind |-> "update", id |-> i, seen |-> txns[i], edit |-> e]]
        BY <2>1 DEF BeginUpdate
      <3>2. [kind |-> "update", id |-> i, seen |-> txns[i], edit |-> e] \in Requests
        BY <1>2 DEF Requests
      <3> QED BY <3>1, <3>2
    <2>2. CASE BeginDelete(c)
      <3>1. PICK i \in DOMAIN txns :
                request' = [request EXCEPT ![c] = [kind |-> "delete", id |-> i]]
        BY <2>2 DEF BeginDelete
      <3>2. [kind |-> "delete", id |-> i] \in Requests
        BY <1>2 DEF Requests
      <3> QED BY <3>1, <3>2
    <2>3. CASE BeginReconcile(c)
      <3>1. PICK p \in Payloads :
                request' = [request EXCEPT ![c] =
                    [kind |-> "reconcile", payload |-> p,
                     held |-> [i \in Instruments |-> Held(txns, <<p.account, i>>)]]]
        BY <2>3 DEF BeginReconcile
      <3>2. \A i \in Instruments : Held(txns, <<p.account, i>>) \in Int
        BY HeldIsSum DEF TypeInv, TypeOK
      <3>3. [kind |-> "reconcile", payload |-> p,
             held |-> [i \in Instruments |-> Held(txns, <<p.account, i>>)]] \in Requests
        BY <3>2 DEF Requests
      <3> QED BY <3>1, <3>3
    <2>4. CASE Abandon(c)
      BY <2>4 DEF Abandon, Requests
    <2> QED BY <2>1, <2>2, <2>3, <2>4
  <1>4. request' \in [Clients -> Requests]
    BY <1>3 DEF TypeInv, TypeOK
  <1> QED BY <1>1, <1>4 DEF TypeInv, TypeOK

LEMMA CreateTransactionTypes ==
    ASSUME TypeInv, NEW c \in Clients, CreateTransaction(c)
    PROVE  TypeOK'
  <1>1. PICK type \in {"buy", "spend", "yield"}, p \in Positions,
             d \in Dates, q \in Quantities :
           LET t == Append(txns, Txn(p, type, d, SignedQuantity(type, q), 0))
           IN  /\ txns' = t
               /\ IF type \in LotAffectingTypes
                  THEN /\ Covered(View(t, p))
                       /\ matched' = [matched EXCEPT ![p] = Basis(View(t, p))]
                  ELSE UNCHANGED matched
    BY DEF CreateTransaction
  <1> DEFINE row == Txn(p, type, d, SignedQuantity(type, q), 0)
  <1>2. /\ txns' = Append(txns, row)
        /\ matched' = matched \/ matched' = [matched EXCEPT ![p] = Basis(View(txns', p))]
    BY <1>1
  <1>3. row \in Txns
    <2>1. q \in Int /\ type \in TxnTypes /\ 0 \in 0..MaxTxns
      BY LedgerAssumption DEF TxnTypes
    <2> QED BY <2>1, SignedInt, TxnTyped
  <1> HIDE DEF row
  <1>4. Len(txns) < MaxTxns /\ UNCHANGED <<audit, events, request, lock, staged>>
    BY DEF CreateTransaction
  <1>5. txns' \in Seq(Txns) /\ Len(txns') <= MaxTxns
    BY <1>2, <1>3, <1>4, AppendTyped DEF TypeInv, TypeOK
  <1>6. Basis(View(txns', p)) \in Views
    BY <1>5, ViewTyped
  <1>7. matched' \in [Positions -> Views]
    BY <1>2, <1>6 DEF TypeInv, TypeOK
  <1> QED BY <1>4, <1>5, <1>7 DEF TypeInv, TypeOK

LEMMA CreateTradeTypes ==
    ASSUME TypeInv, NEW c \in Clients, CreateTrade(c)
    PROVE  TypeOK'
  <1>1. PICK sold \in Positions, received \in Positions,
             d \in Dates, q \in Quantities, r \in Quantities :
           LET n == Len(txns) + 1
               t == Append(Append(txns,
                        Txn(sold, "sell", d, SignedQuantity("sell", q), n)),
                        Txn(received, "buy", d, SignedQuantity("buy", r), n))
           IN  /\ sold[2] # received[2]
               /\ Covered(View(t, sold))
               /\ Covered(View(t, received))
               /\ txns' = t
               /\ matched' = [matched EXCEPT ![sold] = Basis(View(t, sold)),
                                             ![received] = Basis(View(t, received))]
    BY Zenon DEF CreateTrade
  <1> DEFINE n == Len(txns) + 1
             s == Txn(sold, "sell", d, SignedQuantity("sell", q), n)
             b == Txn(received, "buy", d, SignedQuantity("buy", r), n)
             t == Append(txns, s)
  <1>2. /\ txns' = Append(t, b)
        /\ matched' = [[matched EXCEPT ![sold] = Basis(View(txns', sold))]
                           EXCEPT ![received] = Basis(View(txns', received))]
    BY <1>1
  <1>3. /\ Len(txns) + 1 < MaxTxns
        /\ UNCHANGED <<audit, events, request, lock, staged>>
    BY DEF CreateTrade
  <1>4. txns \in Seq(Txns) /\ Len(txns) \in Nat
    BY LenProperties DEF TypeInv, TypeOK
  <1>5. n \in 0..MaxTxns /\ Len(txns) < MaxTxns
    BY <1>3, <1>4, LedgerAssumption
  <1> HIDE DEF n
  <1>6. s \in Txns /\ b \in Txns
    <2>1. /\ SignedQuantity("sell", q) \in Int /\ SignedQuantity("buy", r) \in Int
          /\ "sell" \in TxnTypes /\ "buy" \in TxnTypes
      BY LedgerAssumption, SignedInt DEF TxnTypes
    <2> QED BY <1>5, <2>1, TxnTyped
  <1> HIDE DEF s, b
  <1>7. t \in Seq(Txns) /\ Len(t) < MaxTxns
    <2>1. t \in Seq(Txns) /\ Len(t) = Len(txns) + 1
      BY <1>4, <1>6, AppendProperties
    <2> QED BY <1>3, <2>1
  <1> HIDE DEF t
  <1>8. txns' \in Seq(Txns) /\ Len(txns') <= MaxTxns
    BY <1>2, <1>6, <1>7, AppendTyped
  <1>9. Basis(View(txns', sold)) \in Views /\ Basis(View(txns', received)) \in Views
    BY <1>8, ViewTyped
  <1>10. matched' \in [Positions -> Views]
    BY <1>2, <1>9 DEF TypeInv, TypeOK
  <1> QED BY <1>3, <1>8, <1>10 DEF TypeInv, TypeOK

\* The session's copy of a row, and the row as UPDATE writes it, are rows.
LEMMA EditedTyped ==
    ASSUME NEW r, r.seen \in Txns, r.edit \in Edits, NEW row \in Txns
    PROVE  Edited(r) \in Txns /\ Written(r, row) \in Txns
  <1>1. r.edit.date \in Dates /\ r.edit.quantity \in Int
    BY LedgerAssumption
  <1>2. SignedQuantity(r.seen.type, r.edit.quantity) \in Int
    BY <1>1, SignedInt
  <1>3. Edited(r) \in Txns
    BY <1>1, <1>2 DEF Edited, Txns
  <1>4. Edited(r).date \in Dates /\ Edited(r).quantity \in Int
    BY <1>3 DEF Txns
  <1>5. Written(r, row) \in Txns
    BY <1>4 DEF Written, Txns
  <1> QED BY <1>3, <1>5

LEMMA CommitUpdateTypes ==
    ASSUME TypeInv, NEW c \in Clients, CommitUpdate(c)
    PROVE  TypeOK'
  <1> DEFINE r == request[c]
             v == ViewInSession(txns', r)
  <1>1. /\ r.kind = "update"
        /\ txns' = [txns EXCEPT ![r.id] = Written(r, txns[r.id])]
        /\ matched' = matched \/ matched' = [matched EXCEPT ![r.seen.position] = Basis(v)]
        /\ request' = [request EXCEPT ![c] = Idle]
        /\ UNCHANGED <<events, lock, staged>>
    BY DEF CommitUpdate
  <1>2. PICK diff \in PossibleDiffs(r) :
            audit' = IF diff = {} THEN audit
                     ELSE [audit EXCEPT ![r.id].edits = @ + 1,
                                        ![r.id].logged = diff]
    BY DEF CommitUpdate
  <1>3. r \in [kind : {"update"}, id : TxnIds, seen : Txns, edit : Edits]
    <2>1. r \in Requests
      BY DEF TypeInv, TypeOK
    <2> QED BY <1>1, <2>1 DEF Requests, Idle
  <1>4. r.id \in TxnIds /\ r.seen \in Txns /\ r.edit \in Edits
    BY <1>3
  <1>5. r.id \in DOMAIN txns
    BY <1>1 DEF TypeInv, IInv, RequestsOK, RequestOK
  <1> HIDE DEF r
  <1>6. txns[r.id] \in Txns
    BY <1>5, RowsTyped DEF TypeInv, TypeOK
  <1>7. Edited(r) \in Txns /\ Written(r, txns[r.id]) \in Txns
    BY <1>4, <1>6, EditedTyped
  <1>8. txns' \in Seq(Txns) /\ Len(txns') = Len(txns)
    BY <1>1, <1>5, <1>7, ExceptSeq DEF TypeInv, TypeOK
  <1>9. Len(txns') <= MaxTxns
    BY <1>8 DEF TypeInv, TypeOK
  <1>10. Basis(v) \in Views
    <2>1. View(txns', r.seen.position) \in Views
      BY <1>8, <1>9, ViewTyped
    <2>2. Edited(r).quantity \in Int
      BY <1>7 DEF Txns
    <2>3. v \in Views
      BY <2>1, <2>2 DEF ViewInSession, Views
    <2> QED BY <2>3 DEF Views, Basis, Sources, Consumers
  <1> HIDE DEF v
  <1>11. matched' \in [Positions -> Views]
    BY <1>1, <1>10 DEF TypeInv, TypeOK
  <1>12. audit' \in [TxnIds -> [edits : Nat, deletes : Nat, logged : SUBSET Fields]]
    <2>1. diff \in SUBSET Fields
      BY <1>4, LedgerAssumption DEF PossibleDiffs
    <2>2. audit \in [TxnIds -> [edits : Nat, deletes : Nat, logged : SUBSET Fields]]
      BY DEF TypeInv, TypeOK
    <2> QED BY <1>2, <1>4, <2>1, <2>2
  <1>13. request' \in [Clients -> Requests]
    BY <1>1 DEF TypeInv, TypeOK, Requests
  <1> QED BY <1>1, <1>8, <1>9, <1>11, <1>12, <1>13 DEF TypeInv, TypeOK

LEMMA CommitDeleteTypes ==
    ASSUME TypeInv, NEW c \in Clients, CommitDelete(c)
    PROVE  TypeOK'
  <1> DEFINE gone == Cascade(request[c].id)
             hit  == {txns[i].position :
                         i \in {j \in gone : txns[j].type \in LotAffectingTypes}}
  <1>1. /\ txns' = Tombstoned(txns, gone)
        /\ matched' = [p \in Positions |->
                          IF p \in hit THEN Basis(View(txns', p)) ELSE matched[p]]
        /\ audit' = DeletionsLogged(request[c].id, gone)
        /\ request' = [request EXCEPT ![c] = Idle]
        /\ UNCHANGED <<events, lock, staged>>
    BY DEF CommitDelete
  <1> HIDE DEF gone, hit
  <1>2. /\ txns \in Seq(Txns) /\ Len(txns) \in Nat /\ DOMAIN txns = 1..Len(txns)
        /\ Len(txns) <= MaxTxns
        /\ \A i \in DOMAIN txns : txns[i] \in Txns
    BY LenProperties, RowsTyped DEF TypeInv, TypeOK
  <1>3. txns' \in Seq(Txns) /\ Len(txns') <= MaxTxns
    <2>1. txns' = [i \in 1..Len(txns) |->
                      IF i \in gone THEN [txns[i] EXCEPT !.deleted = TRUE] ELSE txns[i]]
      BY <1>1, <1>2 DEF Tombstoned
    <2>2. \A i \in 1..Len(txns) : txns'[i] \in Txns
      BY <1>2, <2>1 DEF Txns
    <2>3. txns' \in [1..Len(txns) -> Txns]
      BY <2>1, <2>2
    <2>4. txns' \in Seq(Txns)
      BY <1>2, <2>3, SeqDef
    <2>5. Len(txns') = Len(txns)
      BY <1>2, <2>3, <2>4, LenProperties
    <2> QED BY <1>2, <2>4, <2>5
  <1>4. \A p \in Positions : Basis(View(txns', p)) \in Views
    BY <1>3, ViewTyped
  <1>5. matched' \in [Positions -> Views]
    BY <1>1, <1>4 DEF TypeInv, TypeOK
  <1>6. audit' \in [TxnIds -> [edits : Nat, deletes : Nat, logged : SUBSET Fields]]
    <2>1. audit \in [TxnIds -> [edits : Nat, deletes : Nat, logged : SUBSET Fields]]
      BY DEF TypeInv, TypeOK
    <2>2. \A i \in TxnIds : [audit[i] EXCEPT !.deletes = @ + 1]
                                \in [edits : Nat, deletes : Nat, logged : SUBSET Fields]
      BY <2>1
    <2> QED BY <1>1, <2>1, <2>2 DEF DeletionsLogged
  <1>7. request' \in [Clients -> Requests]
    BY <1>1 DEF TypeInv, TypeOK, Requests
  <1> QED BY <1>1, <1>3, <1>5, <1>6, <1>7 DEF TypeInv, TypeOK

LEMMA StageTxnTypes ==
    ASSUME TypeInv, UNCHANGED <<txns, matched, audit, events, request, lock>>,
           NEW row \in Txns, NEW ds, NEW rs, StageTxn(row, ds, rs)
    PROVE  TypeOK'
  <1> DEFINE u == Append(staged.txns, row)
  <1>1. /\ Len(staged.txns) < MaxTxns
        /\ staged' = [txns |-> u,
                      matched |-> [staged.matched EXCEPT
                                      ![row.position] = Basis(View(u, row.position))],
                      decisions |-> ds, rejected |-> rs]
    BY DEF StageTxn
  <1>2. u \in Seq(Txns) /\ Len(u) <= MaxTxns
    BY <1>1, AppendTyped DEF TypeInv, TypeOK
  <1> HIDE DEF u
  <1>3. Basis(View(u, row.position)) \in Views
    BY <1>2, ViewTyped
  <1>4. /\ staged'.txns = u
        /\ staged'.matched \in [Positions -> Views]
    BY <1>1, <1>3 DEF TypeInv, TypeOK
  <1> QED BY <1>2, <1>4 DEF TypeInv, TypeOK

\* What a body says of an instrument, what the request found held and the
\* drift between the two are numbers.
LEMMA DriftTyped ==
    ASSUME TypeInv, NEW c \in Clients, lock = c, NEW i \in Instruments
    PROVE  /\ SnapshotQuantity(request[c].payload, i) \in Int
           /\ request[c].held[i] \in Int
           /\ Delta(c, i) = SnapshotQuantity(request[c].payload, i) - request[c].held[i]
           /\ Delta(c, i) \in Int
  <1>1. request[c].payload \in Payloads
    BY StagedBody DEF TypeInv
  <1>2. SnapshotQuantity(request[c].payload, i) \in Int
    <2>1. \A p \in Payloads : \A j \in DOMAIN p.holdings : p.holdings[j] \in Int
      BY PayloadAssumption
    <2> QED BY <1>1, <2>1 DEF SnapshotQuantity
  <1>3. request[c].held[i] \in Int
    <2>1. request[c].kind = "reconcile"
      BY DEF TypeInv, IInv, RequestsOK
    <2>2. request[c] \in Requests
      BY DEF TypeInv, TypeOK
    <2>3. request[c] \in [kind : {"reconcile"}, payload : Payloads, held : [Instruments -> Int]]
      BY <2>1, <2>2 DEF Requests, Idle
    <2> QED BY <2>3
  <1> QED BY <1>2, <1>3 DEF Delta

LEMMA StageDecisionTypes ==
    ASSUME TypeInv, NEW c \in Clients, StageDecision(c)
    PROVE  TypeOK'
  <1> DEFINE p     == request[c].payload
             d     == Head(staged.decisions)
             rest  == Tail(staged.decisions)
             delta == Delta(c, d.instrument)
             adjustment(q) == Txn(<<p.account, d.instrument>>, "adjustment", p.date, q, 0)
  <1>1. /\ lock = c
        /\ staged.decisions # <<>>
        /\ UNCHANGED <<txns, matched, audit, events, request, lock>>
        /\ \/ staged' = [staged EXCEPT !.decisions = rest]
           \/ StageTxn(adjustment(delta), rest, staged.rejected)
           \/ /\ Len(staged.txns) < MaxTxns
              /\ staged' = [staged EXCEPT !.decisions = rest,
                                          !.txns = Append(@, adjustment(0))]
    BY DEF StageDecision
  <1>2. /\ lock # Nobody /\ p \in Payloads /\ p.account \in Accounts
        /\ staged.decisions \in Decisions
        /\ DOMAIN staged = {"txns", "matched", "decisions", "rejected"}
    BY <1>1, StagedBody DEF TypeInv, IInv, StagedOK
  <1>3. d.instrument \in Instruments
    <2>1. d \in [instrument : Instruments, action : Actions]
      BY <1>1, <1>2, HeadTailProperties DEF Decisions
    <2> QED BY <2>1
  <1>4. /\ <<p.account, d.instrument>> \in Positions /\ p.date \in Dates
        /\ "adjustment" \in TxnTypes /\ 0 \in 0..MaxTxns
    <2>1. \A q \in Payloads : q.date \in Dates
      BY PayloadAssumption
    <2>2. <<p.account, d.instrument>> \in Positions
      BY <1>2, <1>3 DEF Positions
    <2>3. "adjustment" \in TxnTypes /\ 0 \in 0..MaxTxns
      BY LedgerAssumption DEF TxnTypes
    <2> QED BY <1>2, <2>1, <2>2, <2>3
  <1>5. \A q \in Int : adjustment(q) \in Txns
    BY <1>4, TxnTyped
  <1>6. delta \in Int /\ 0 \in Int
    BY <1>1, <1>3, DriftTyped
  <1> HIDE DEF d, rest, delta, adjustment
  <1>7. CASE staged' = [staged EXCEPT !.decisions = rest]
    <2>1. staged'.txns = staged.txns /\ staged'.matched = staged.matched
      BY <1>2, <1>7
    <2> QED BY <1>1, <2>1 DEF TypeInv, TypeOK
  <1>8. CASE StageTxn(adjustment(delta), rest, staged.rejected)
    BY <1>1, <1>5, <1>6, <1>8, StageTxnTypes
  <1>9. CASE /\ Len(staged.txns) < MaxTxns
             /\ staged' = [staged EXCEPT !.decisions = rest,
                                         !.txns = Append(@, adjustment(0))]
    <2> DEFINE u == Append(staged.txns, adjustment(0))
    <2>1. u \in Seq(Txns) /\ Len(u) <= MaxTxns
      BY <1>5, <1>6, <1>9, AppendTyped DEF TypeInv, TypeOK
    <2> HIDE DEF u
    <2>2. staged'.txns = u /\ staged'.matched = staged.matched
      BY <1>2, <1>9 DEF u
    <2> QED BY <1>1, <2>1, <2>2 DEF TypeInv, TypeOK
  <1> QED BY <1>1, <1>7, <1>8, <1>9

LEMMA StageRejectedTypes ==
    ASSUME TypeInv, NEW c \in Clients, StageRejected(c)
    PROVE  TypeOK'
  <1> DEFINE p    == request[c].payload
             r    == Head(staged.rejected)
             rest == Tail(staged.rejected)
             size == Magnitude(Delta(c, r.instrument))
             row  == Txn(<<p.account, r.instrument>>, r.type, r.date,
                         SignedQuantity(r.type, size), 0)
  <1>1. /\ lock = c
        /\ staged.rejected # <<>>
        /\ UNCHANGED <<txns, matched, audit, events, request, lock>>
        /\ \/ staged' = [staged EXCEPT !.rejected = rest]
           \/ StageTxn(row, <<>>, rest)
    BY DEF StageRejected
  <1>2. /\ lock # Nobody /\ p.account \in Accounts
        /\ DOMAIN p.holdings \subseteq Instruments
        /\ staged.rejected \in Rejections(p)
        /\ DOMAIN staged = {"txns", "matched", "decisions", "rejected"}
    BY <1>1, StagedBody DEF TypeInv, IInv, StagedOK
  <1>3. r.instrument \in Instruments /\ r.type \in TxnTypes /\ r.date \in Dates
    <2>1. r \in [instrument : DOMAIN p.holdings, type : RejectTypes, date : Dates]
      BY <1>1, <1>2, HeadTailProperties DEF Rejections
    <2> QED BY <1>2, <2>1 DEF RejectTypes, TxnTypes
  <1>4. row \in Txns
    <2>1. Delta(c, r.instrument) \in Int
      BY <1>1, <1>3, DriftTyped
    <2>2. SignedQuantity(r.type, size) \in Int
      <3> HIDE DEF r
      <3>1. size \in Int
        BY <2>1 DEF Magnitude
      <3> QED BY <3>1, SignedInt
    <2>3. <<p.account, r.instrument>> \in Positions /\ 0 \in 0..MaxTxns
      BY <1>2, <1>3, LedgerAssumption DEF Positions
    <2> QED BY <1>3, <2>2, <2>3, TxnTyped
  <1> HIDE DEF row, rest
  <1>5. CASE staged' = [staged EXCEPT !.rejected = rest]
    <2>1. staged'.txns = staged.txns /\ staged'.matched = staged.matched
      BY <1>2, <1>5
    <2> QED BY <1>1, <2>1 DEF TypeInv, TypeOK
  <1>6. CASE StageTxn(row, <<>>, rest)
    BY <1>1, <1>4, <1>6, StageTxnTypes
  <1> QED BY <1>1, <1>5, <1>6

LEMMA EventTypes ==
    ASSUME TypeInv, NEW c \in Clients, StageEvent(c) \/ CommitEvent(c) \/ Rollback(c)
    PROVE  TypeOK'
  <1>1. NothingStaged.txns = <<>> /\ NothingStaged.matched \in [Positions -> Views]
    BY DEF NothingStaged, Views
  <1>2. <<>> \in Seq(Txns) /\ Len(<<>>) <= MaxTxns
    BY LedgerAssumption, EmptySeq
  <1>3. CASE StageEvent(c)
    <2>1. /\ staged'.txns = txns /\ staged'.matched = matched /\ lock' = c
          /\ UNCHANGED <<txns, matched, audit, events, request>>
      BY <1>3 DEF StageEvent
    <2> QED BY <2>1 DEF TypeInv, TypeOK
  <1>4. CASE CommitEvent(c)
    <2>1. /\ lock = c /\ txns' = staged.txns /\ matched' = staged.matched
          /\ events' = Append(events, request[c].payload)
          /\ lock' = Nobody /\ staged' = NothingStaged /\ audit' = audit
          /\ request' = [request EXCEPT ![c] = Idle]
      BY <1>4 DEF CommitEvent
    <2>2. events' \in Seq(Payloads)
      BY <2>1, StagedBody, AppendProperties DEF TypeInv, TypeOK
    <2>3. request' \in [Clients -> Requests]
      BY <2>1 DEF TypeInv, TypeOK, Requests
    <2> QED BY <1>1, <1>2, <2>1, <2>2, <2>3 DEF TypeInv, TypeOK
  <1>5. CASE Rollback(c)
    <2>1. /\ lock' = Nobody /\ staged' = NothingStaged
          /\ request' = [request EXCEPT ![c] = Idle]
          /\ UNCHANGED <<txns, matched, audit, events>>
      BY <1>5 DEF Rollback
    <2>2. request' \in [Clients -> Requests]
      BY <2>1 DEF TypeInv, TypeOK, Requests
    <2> QED BY <1>1, <1>2, <2>1, <2>2 DEF TypeInv, TypeOK
  <1> QED BY <1>3, <1>4, <1>5

LEMMA NextTypes == TypeInv /\ [Next]_vars => TypeInv'
  <1> SUFFICES ASSUME TypeInv, [Next]_vars PROVE TypeOK'
    BY NextKeeps DEF TypeInv
  <1>1. CASE UNCHANGED vars
    BY <1>1 DEF vars, TypeInv, TypeOK
  <1>2. CASE Next
    <2> PICK c \in Clients :
           \/ CreateTransaction(c) \/ CreateTrade(c)
           \/ BeginUpdate(c) \/ CommitUpdate(c)
           \/ BeginDelete(c) \/ CommitDelete(c)
           \/ BeginReconcile(c) \/ StageEvent(c) \/ StageDecision(c)
           \/ StageRejected(c) \/ CommitEvent(c)
           \/ Rollback(c) \/ Abandon(c)
      BY <1>2 DEF Next
    <2> QED BY CreateTransactionTypes, CreateTradeTypes, BeginTypes, CommitUpdateTypes,
               CommitDeleteTypes, StageDecisionTypes, StageRejectedTypes, EventTypes
  <1> QED BY <1>1, <1>2

\* Every row, allocation basis, audit entry and request in flight has its type,
\* whatever races: no step writes a quantity that is not a number, a row out of
\* bounds, or an audit entry of a field no row has.
THEOREM TypeCorrect == Spec => []TypeOK
  <1>1. TypeInv => TypeOK
    BY DEF TypeInv
  <1> QED BY InitTypes, NextTypes, <1>1, PTL DEF Spec
=============================================================================
