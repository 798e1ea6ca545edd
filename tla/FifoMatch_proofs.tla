-------------------------- MODULE FifoMatch_proofs --------------------------
(***************************************************************************)
(* What the matching loops guarantee for any number of rows, any dates and *)
(* any quantities: the first-in-first-out discipline of lots and of        *)
(* disposals, and that no lot is overdrawn.                                *)
(***************************************************************************)
EXTENDS FifoMatch, Induction_proofs

\* The consumers the outer loop has reached.
Reached == Consumers(View) \ todo

\* The inner loop has exhausted every lot it left behind, as long as it still
\* looks for units.
VisitedLotsExhausted ==
    phase = "match" /\ remaining > 0 =>
        \A b \in Sources(View) \ queue : consumed[b.id] = b.quantity

NothingConsumedYet ==
    phase = "wipe" => \A i \in Ids : consumed[i] = 0

\* An allocation belongs to a consumer already reached and takes part of what
\* is consumed of its lot.
AllocationsReached ==
    phase # "wipe" =>
    \A i, j \in Ids : alloc[<<i, j>>] > 0 =>
        /\ \E c \in Reached : c.id = i
        /\ \E b \in Sources(View) : b.id = j
        /\ alloc[<<i, j>>] <= consumed[j]

\* The outer loop goes through the consumers in order.
ReachedInOrder ==
    phase # "wipe" => \A c \in Reached, d \in todo : Precedes(c, d)

CurrentIsLast ==
    phase = "match" =>
    \E c \in Reached : c.id = current /\ \A d \in Reached : d = c \/ Precedes(d, c)

IInv ==
    /\ TypeOK
    /\ NoLotOverdrawn
    /\ OldestLotsFirst
    /\ NoCrossing
    /\ VisitedLotsExhausted
    /\ NothingConsumedYet
    /\ AllocationsReached
    /\ ReachedInOrder
    /\ CurrentIsLast

-----------------------------------------------------------------------------

\* Each row of a view is identified by its id.
LEMMA ViewRows ==
    ASSUME TypeOK
    PROVE  /\ \A r \in View : r \in LotRows
           /\ \A r, s \in View : r.id = s.id => r = s
  BY DEF TypeOK, View, LotRow, LotRows

\* Sources open a positive amount; consumers and sources are rows of the view.
LEMMA RolesInView ==
    ASSUME TypeOK
    PROVE  /\ \A b \in Sources(View) : b \in View /\ b.quantity > 0
           /\ \A c \in Consumers(View) : c \in View
  BY DEF Sources, Consumers, IsLotSource

\* ORDER BY date, created_at is a strict total order of the rows.
LEMMA OrderOfRows ==
    ASSUME TypeOK
    PROVE  /\ \A r, s \in View : ~(Precedes(r, s) /\ Precedes(s, r))
           /\ \A r, s, t \in View : Precedes(r, s) /\ Precedes(s, t) => Precedes(r, t)
           /\ \A r, s \in View : r = s \/ Precedes(r, s) \/ Precedes(s, r)
  <1> /\ \A r \in View : r.id \in Nat /\ r.date \in Nat
      /\ \A r, s \in View : r.id = s.id => r = s
    BY ViewRows, IdsAssumption DEF LotRows
  <1> QED BY DEF Precedes

LEMMA MagnitudeNat == \A q \in Int : Magnitude(q) \in Nat
  BY DEF Magnitude

LEMMA InitInv == Init => IInv
  <1> SUFFICES ASSUME Init PROVE IInv
    OBVIOUS
  <1>1. rows \in [Ids -> [type : TxnTypes, date : Nat,
                          quantity : Int, deleted : BOOLEAN]]
    BY RowChoicesAssumption DEF Init
  <1>2. alloc \in [Ids \X Ids -> Nat]
    BY DEF Init, Leftover
  <1>3. TypeOK
    BY <1>1, <1>2 DEF Init, TypeOK
  <1>4. \A b \in Sources(View) : b.id \in Ids /\ b.quantity \in Int /\ b.quantity > 0
    BY <1>3, ViewRows, RolesInView DEF LotRows
  <1>5. NoLotOverdrawn /\ OldestLotsFirst
    BY <1>4 DEF Init, NoLotOverdrawn, OldestLotsFirst
  <1> QED
    BY <1>3, <1>5 DEF Init, IInv, NoCrossing, VisitedLotsExhausted,
        NothingConsumedYet, AllocationsReached, ReachedInOrder, CurrentIsLast

\* The rows do not change under the lock, so neither does the view.
LEMMA ViewFixed == rows' = rows => View' = View
  BY DEF View

-----------------------------------------------------------------------------

LEMMA WipeInv == IInv /\ Wipe => IInv'
  <1> SUFFICES ASSUME IInv, Wipe PROVE IInv'
    OBVIOUS
  <1>1. View' = View
    BY ViewFixed DEF Wipe
  <1>2. \A i, j \in Ids : alloc'[<<i, j>>] = 0
    BY DEF Wipe, NoAllocations
  <1>3. \A b \in Sources(View) : b.id \in Ids /\ b.quantity \in Int /\ b.quantity > 0
    BY ViewRows, RolesInView DEF LotRows, IInv
  <1>4. \A c \in Consumers(View) : c.id \in Ids
    BY ViewRows, RolesInView DEF LotRows, IInv
  <1>5. TypeOK'
    BY <1>1 DEF IInv, TypeOK, Wipe, NoAllocations
  <1>6. NoLotOverdrawn' /\ OldestLotsFirst'
    BY <1>1, <1>3 DEF Wipe, NoLotOverdrawn, OldestLotsFirst
  <1>7. NoCrossing' /\ AllocationsReached'
    BY <1>1, <1>2, <1>3, <1>4 DEF NoCrossing, AllocationsReached, Reached
  <1>8. ReachedInOrder'
    BY <1>1 DEF Wipe, ReachedInOrder, Reached
  <1> QED
    BY <1>5, <1>6, <1>7, <1>8
    DEF IInv, Wipe, VisitedLotsExhausted, NothingConsumedYet, CurrentIsLast

LEMMA NextConsumerInv == IInv /\ NextConsumer => IInv'
  <1> SUFFICES ASSUME IInv, NextConsumer PROVE IInv'
    OBVIOUS
  <1>1. View' = View
    BY ViewFixed DEF NextConsumer
  <1>2. PICK c \in todo : /\ IsFirst(c, todo)
                          /\ todo' = todo \ {c}
                          /\ current' = c.id
                          /\ remaining' = Magnitude(c.quantity)
    BY DEF NextConsumer
  <1>3. c \in Consumers(View) /\ c \in View /\ c.id \in Ids /\ c.quantity \in Int
    BY ViewRows, RolesInView DEF LotRows, IInv, TypeOK
  <1>4. TypeOK'
    BY <1>1, <1>2, <1>3, MagnitudeNat DEF IInv, TypeOK, NextConsumer
  <1>5. Reached' = Reached \cup {c}
    BY <1>1, <1>2, <1>3 DEF Reached
  <1>6. NoLotOverdrawn' /\ OldestLotsFirst' /\ NoCrossing'
    BY <1>1 DEF IInv, NextConsumer, NoLotOverdrawn, OldestLotsFirst, NoCrossing
  <1>7. VisitedLotsExhausted' /\ NothingConsumedYet'
    BY <1>1 DEF NextConsumer, VisitedLotsExhausted, NothingConsumedYet
  <1>8. AllocationsReached'
    BY <1>1, <1>5 DEF IInv, NextConsumer, AllocationsReached
  <1>9. \A d \in Reached : Precedes(d, c)
    BY DEF IInv, NextConsumer, ReachedInOrder
  <1>10. ReachedInOrder'
    BY <1>2, <1>5 DEF IInv, NextConsumer, ReachedInOrder, IsFirst
  <1>11. CurrentIsLast'
    BY <1>2, <1>5, <1>9 DEF CurrentIsLast
  <1> QED
    BY <1>4, <1>6, <1>7, <1>8, <1>10, <1>11 DEF IInv

LEMMA VisitLotInv == IInv /\ VisitLot => IInv'
  <1> SUFFICES ASSUME IInv, VisitLot PROVE IInv'
    OBVIOUS
  <1> USE DEF VisitLot, FirstInQueue, Available, Draw
  <1>1. View' = View /\ Reached' = Reached
    BY ViewFixed DEF Reached
  <1>2. PICK b \in queue :
          /\ IsFirst(b, queue)
          /\ queue' = queue \ {b}
          /\ LET available == b.quantity - consumed[b.id]
                 matched   == IF remaining < available THEN remaining ELSE available
             IN  IF available <= 0
                 THEN UNCHANGED <<alloc, consumed, remaining>>
                 ELSE /\ alloc' = [alloc EXCEPT ![<<current, b.id>>] = matched]
                      /\ consumed' = [consumed EXCEPT ![b.id] = @ + matched]
                      /\ remaining' = remaining - matched
    OBVIOUS
  <1>3. TypeOK /\ alloc \in [Ids \X Ids -> Nat] /\ consumed \in [Ids -> Nat]
        /\ remaining \in Nat /\ remaining > 0 /\ queue \subseteq Sources(View)
    BY DEF IInv, TypeOK
  <1>4. \A s \in Sources(View) : /\ s \in View /\ s.id \in Ids
                                 /\ s.quantity \in Int /\ s.quantity > 0
                                 /\ (s.id = b.id => s = b)
    BY <1>3, ViewRows, RolesInView DEF LotRows
  <1>5. b \in Sources(View) /\ b.id \in Ids /\ consumed[b.id] <= b.quantity
    BY <1>3, <1>4 DEF IInv, NoLotOverdrawn
  <1>6. PICK c \in Reached : c.id = current /\ \A d \in Reached : d = c \/ Precedes(d, c)
    BY DEF IInv, CurrentIsLast
  <1>7. /\ c \in Consumers(View) /\ c \in View /\ current \in Ids
        /\ \A d \in Consumers(View) : d \in View /\ d.id \in Ids /\ (d.id = c.id => d = c)
    BY <1>3, <1>6, ViewRows, RolesInView DEF LotRows, Reached
  \* Every older lot has been visited, hence exhausted.
  <1>8. \A s \in Sources(View) : Precedes(s, b) => consumed[s.id] = s.quantity
    <2> SUFFICES ASSUME NEW s \in Sources(View), Precedes(s, b)
                 PROVE  consumed[s.id] = s.quantity
      OBVIOUS
    <2>1. s \notin queue
      <3>1. ~Precedes(b, s) /\ s # b
        BY <1>3, <1>4, <1>5, OrderOfRows
      <3> QED BY <1>2, <3>1 DEF IsFirst
    <2> QED BY <1>3, <2>1 DEF IInv, VisitedLotsExhausted
  <1>9. CASE b.quantity - consumed[b.id] <= 0
    <2>1. UNCHANGED <<alloc, consumed, remaining, rows, todo, current, phase>>
      BY <1>2, <1>9
    <2>2. TypeOK'
      BY <1>1, <1>2, <1>3, <2>1 DEF TypeOK
    <2>3. consumed[b.id] = b.quantity
      BY <1>3, <1>4, <1>5, <1>9
    <2>4. VisitedLotsExhausted'
      BY <1>1, <1>2, <2>1, <2>3 DEF IInv, VisitedLotsExhausted
    <2> QED
      BY <1>1, <2>1, <2>2, <2>4
      DEF IInv, NoLotOverdrawn, OldestLotsFirst, NoCrossing, NothingConsumedYet,
          AllocationsReached, ReachedInOrder, CurrentIsLast
  <1>10. CASE b.quantity - consumed[b.id] > 0
    <2> DEFINE available == b.quantity - consumed[b.id]
               matched   == IF remaining < available THEN remaining ELSE available
    <2>1. /\ alloc' = [alloc EXCEPT ![<<current, b.id>>] = matched]
          /\ consumed' = [consumed EXCEPT ![b.id] = @ + matched]
          /\ remaining' = remaining - matched
          /\ UNCHANGED <<rows, todo, current, phase>>
      BY <1>2, <1>3, <1>4, <1>5, <1>10
    <2>2. matched \in Nat /\ matched > 0 /\ matched <= available /\ matched <= remaining
          /\ (matched < remaining => matched = available)
      BY <1>3, <1>4, <1>5, <1>10
    <2> HIDE DEF matched
    <2>3. /\ \A i \in Ids : consumed'[i] = IF i = b.id THEN consumed[i] + matched
                                                      ELSE consumed[i]
          /\ \A i, j \in Ids : alloc'[<<i, j>>] =
                IF i = current /\ j = b.id THEN matched ELSE alloc[<<i, j>>]
      BY <1>3, <1>5, <1>7, <2>1
    <2>4. TypeOK'
      <3>1. alloc' \in [Ids \X Ids -> Nat] /\ consumed' \in [Ids -> Nat] /\ remaining' \in Nat
        BY <1>3, <1>5, <1>7, <2>1, <2>2
      <3> QED BY <1>1, <1>2, <2>1, <3>1 DEF IInv, TypeOK
    <2>5. NoLotOverdrawn'
      BY <1>1, <1>3, <1>4, <2>2, <2>3 DEF IInv, NoLotOverdrawn
    <2>6. OldestLotsFirst'
      <3> SUFFICES ASSUME NEW s \in Sources(View), NEW t \in Sources(View),
                          Precedes(s, t), consumed'[t.id] > 0
                   PROVE  consumed'[s.id] = s.quantity
        BY <1>1 DEF OldestLotsFirst
      <3>1. consumed[s.id] = s.quantity
        <4>1. CASE t = b
          BY <1>8, <4>1
        <4>2. CASE t # b
          <5>1. consumed'[t.id] = consumed[t.id]
            BY <1>4, <2>3, <4>2
          <5> QED BY <5>1 DEF IInv, OldestLotsFirst
        <4> QED BY <4>1, <4>2
      <3>2. s # b
        BY <1>4, <1>3, <1>10, <3>1
      <3> QED BY <1>4, <2>3, <3>1, <3>2
    <2>7. VisitedLotsExhausted'
      <3> SUFFICES ASSUME remaining' > 0, NEW s \in Sources(View) \ queue', phase = "match"
                   PROVE  consumed'[s.id] = s.quantity
        BY <1>1, <2>1 DEF VisitedLotsExhausted
      <3>1. CASE s = b
        BY <1>3, <1>4, <2>1, <2>2, <2>3, <3>1
      <3>2. CASE s # b
        <4>1. consumed[s.id] = s.quantity
          BY <1>2, <1>3, <3>2 DEF IInv, VisitedLotsExhausted
        <4> QED BY <1>4, <2>3, <3>2, <4>1
      <3> QED BY <3>1, <3>2
    <2>8. AllocationsReached'
      <3> SUFFICES ASSUME NEW i \in Ids, NEW j \in Ids, alloc'[<<i, j>>] > 0
                   PROVE  /\ \E d \in Reached : d.id = i
                          /\ \E s \in Sources(View) : s.id = j
                          /\ alloc'[<<i, j>>] <= consumed'[j]
        BY <1>1 DEF AllocationsReached
      <3>1. CASE i = current /\ j = b.id
        BY <1>3, <1>5, <1>6, <2>2, <2>3, <3>1
      <3>2. CASE ~(i = current /\ j = b.id)
        <4>1. alloc'[<<i, j>>] = alloc[<<i, j>>]
          BY <2>3, <3>2
        <4>2. alloc[<<i, j>>] \in Nat /\ consumed[j] \in Nat /\ consumed[j] <= consumed'[j]
          BY <1>3, <2>2, <2>3
        <4>3. /\ \E d \in Reached : d.id = i
              /\ \E s \in Sources(View) : s.id = j
              /\ alloc[<<i, j>>] <= consumed[j]
          BY <4>1 DEF IInv, AllocationsReached
        <4>4. consumed'[j] \in Nat
          BY <2>4 DEF TypeOK
        <4> QED BY <4>1, <4>2, <4>3, <4>4
      <3> QED BY <3>1, <3>2
    <2>9. NoCrossing'
      <3> SUFFICES ASSUME NEW d \in Consumers(View), NEW e \in Consumers(View),
                          NEW s \in Sources(View), NEW t \in Sources(View),
                          Precedes(d, e), Precedes(s, t),
                          alloc'[<<d.id, t.id>>] > 0, alloc'[<<e.id, s.id>>] > 0
                   PROVE  FALSE
        BY <1>1 DEF NoCrossing
      <3>1. d.id \in Ids /\ e.id \in Ids /\ s.id \in Ids /\ t.id \in Ids
        BY <1>4, <1>7
      \* Nothing was drawn from a lot after one that still has units.
      <3>2. ASSUME NEW i \in Ids, NEW u \in Sources(View), Precedes(b, u),
                   alloc[<<i, u.id>>] > 0
            PROVE  FALSE
        <4>1. consumed[u.id] > 0
          <5>1. alloc[<<i, u.id>>] <= consumed[u.id]
            BY <1>4, <3>2 DEF IInv, AllocationsReached
          <5>2. alloc[<<i, u.id>>] \in Nat /\ consumed[u.id] \in Nat
            BY <1>3, <1>4, <3>2
          <5> QED BY <3>2, <5>1, <5>2
        <4>2. consumed[b.id] = b.quantity
          BY <1>5, <3>2, <4>1 DEF IInv, OldestLotsFirst
        <4> QED BY <1>3, <1>4, <1>5, <1>10, <4>2
      <3>3. CASE e = c /\ s = b
        <4>1. d # c /\ d.id # c.id
          BY <1>7, <1>3, <3>3, OrderOfRows
        <4>2. alloc[<<d.id, t.id>>] > 0
          BY <1>6, <2>3, <3>1, <4>1
        <4> QED BY <3>1, <3>2, <3>3, <4>2
      <3>4. CASE d = c /\ t = b /\ ~(e = c /\ s = b)
        <4>1. alloc[<<e.id, s.id>>] > 0
          BY <1>4, <1>6, <1>7, <2>3, <3>1, <3>4
        <4>2. e \in Reached
          <5>1. \E f \in Reached : f.id = e.id
            BY <3>1, <4>1 DEF IInv, AllocationsReached
          <5>2. PICK f \in Reached : f.id = e.id
            BY <5>1
          <5>3. f \in View /\ e \in View
            BY <1>7 DEF Reached
          <5> QED BY <1>3, <5>2, <5>3, ViewRows
        <4>3. e = c \/ Precedes(e, c)
          BY <1>6, <4>2
        <4> QED BY <1>3, <1>7, <3>4, <4>3, OrderOfRows
      <3>5. CASE ~(e = c /\ s = b) /\ ~(d = c /\ t = b)
        <4>1. alloc[<<e.id, s.id>>] > 0 /\ alloc[<<d.id, t.id>>] > 0
          BY <1>4, <1>6, <1>7, <2>3, <3>1, <3>5
        <4> QED BY <4>1 DEF IInv, NoCrossing
      <3> QED BY <3>3, <3>4, <3>5
    <2>10. NothingConsumedYet' /\ ReachedInOrder' /\ CurrentIsLast'
      BY <1>1, <2>1 DEF IInv, NothingConsumedYet, ReachedInOrder, CurrentIsLast
    <2> QED
      BY <2>4, <2>5, <2>6, <2>7, <2>8, <2>9, <2>10 DEF IInv
  <1> QED
    BY <1>3, <1>4, <1>5, <1>9, <1>10

\* The steps that only move control.
LEMMA ControlInv == IInv /\ (ConsumerCovered \/ Refuse \/ Finish \/ UNCHANGED vars) => IInv'
  <1> SUFFICES ASSUME IInv, ConsumerCovered \/ Refuse \/ Finish \/ UNCHANGED vars
               PROVE  IInv'
    OBVIOUS
  <1>1. UNCHANGED <<rows, alloc, consumed, todo, current, remaining, queue>>
    BY DEF ConsumerCovered, Refuse, Finish, vars
  <1>2. View' = View /\ Reached' = Reached
    BY <1>1, ViewFixed DEF Reached
  <1>3. \/ phase' = phase
        \/ phase # "wipe" /\ phase' \in {"next", "refused", "done"}
    BY DEF ConsumerCovered, Refuse, Finish, vars
  <1>4. TypeOK'
    BY <1>1, <1>2, <1>3 DEF IInv, TypeOK
  <1>5. NoLotOverdrawn' /\ OldestLotsFirst'
    BY <1>1, <1>2 DEF IInv, NoLotOverdrawn, OldestLotsFirst
  <1>6. NoCrossing' /\ AllocationsReached' /\ ReachedInOrder'
    BY <1>1, <1>2, <1>3 DEF IInv, NoCrossing, AllocationsReached, ReachedInOrder
  <1>7. VisitedLotsExhausted' /\ NothingConsumedYet' /\ CurrentIsLast'
    BY <1>1, <1>2, <1>3 DEF IInv, VisitedLotsExhausted, NothingConsumedYet, CurrentIsLast
  <1> QED
    BY <1>4, <1>5, <1>6, <1>7 DEF IInv

-----------------------------------------------------------------------------

\* The inductive invariant of the matching loops.
THEOREM Invariance == Spec => []IInv
  <1>1. IInv /\ [Next]_vars => IInv'
    BY WipeInv, NextConsumerInv, VisitLotInv, ControlInv DEF Next
  <1> QED
    BY InitInv, <1>1, PTL DEF Spec

\* The loop variables of recompute_fifo_for_pair keep their types; in
\* particular what remains to be matched never turns negative.
THEOREM TypeCorrect == Spec => []TypeOK
  BY Invariance, PTL DEF IInv

\* match_lots_for_sell never allocates more of a lot than the lot holds.
THEOREM NoLotIsOverdrawn == Spec => []NoLotOverdrawn
  BY Invariance, PTL DEF IInv

\* First in, first out over the lots: match_lots_for_sell draws nothing from a
\* lot while an older one has units.
THEOREM FirstInFirstOut == Spec => []OldestLotsFirst
  BY Invariance, PTL DEF IInv

\* First in, first out over the disposals: a later disposal never draws on an
\* older lot than an earlier one does.
THEOREM NothingCrosses == Spec => []NoCrossing
  BY Invariance, PTL DEF IInv

\* After the wipe of recompute_fifo_for_pair no allocation is left that does
\* not join a live disposal to a live lot.
THEOREM OnlyLiveRowsAreJoined == Spec => []AllocationsJoinLiveRows
  <1>1. IInv => AllocationsJoinLiveRows
    BY DEF IInv, AllocationsReached, AllocationsJoinLiveRows, Reached
  <1> QED
    BY <1>1, Invariance, PTL

-----------------------------------------------------------------------------
(***************************************************************************)
(* Totals of rows, and where a row starts when the rows of a set are laid  *)
(* end to end in their order.                                              *)
(***************************************************************************)

\* A finite set of rows under distinct ids.
IsRows(S) ==
    /\ S \subseteq LotRows
    /\ IsFiniteSet(S)
    /\ \A r, s \in S : r.id = s.id => r = s

Size == [r \in LotRows |-> Magnitude(r.quantity)]

LEMMA SizeNat == \A r \in LotRows : Size[r] = Magnitude(r.quantity) /\ Size[r] \in Nat
  BY MagnitudeNat DEF Size, LotRows

LEMMA TotalIsSum ==
    ASSUME NEW S, S \subseteq LotRows, IsFiniteSet(S)
    PROVE  Total(S) = SumOf(Size, S)
  <1> DEFINE sum[s \in SUBSET S] ==
                 IF s = {} THEN 0
                 ELSE LET x == CHOOSE x \in s : TRUE
                      IN  Magnitude(x.quantity) + sum[s \ {x}]
  <1>1. Total(S) = sum[S]
    BY DEF Total, MapThenSumSet, MapThenFoldSet
  <1>2. \A r \in S : Size[r] = Magnitude(r.quantity) /\ Size[r] \in Int
    BY SizeNat
  <1>3. \A h : \A s \in SUBSET S :
            AddUp(Size, h, s) = IF s = {} THEN 0
                                ELSE LET x == CHOOSE x \in s : TRUE
                                     IN  Magnitude(x.quantity) + h[s \ {x}]
    <2> TAKE h
    <2> TAKE s \in SUBSET S
    <2>1. CASE s = {}
      BY <2>1 DEF AddUp
    <2>2. CASE s # {}
      <3>1. AnyOf(s) \in S
        BY <2>2 DEF AnyOf
      <3>2. Size[AnyOf(s)] = Magnitude(AnyOf(s).quantity)
        BY <1>2, <3>1
      <3>3. AddUp(Size, h, s) = Magnitude(AnyOf(s).quantity) + h[s \ {AnyOf(s)}]
        BY <2>2, <3>2 DEF AddUp
      <3> QED BY <2>2, <3>3 DEF AnyOf
    <2> QED BY <2>1, <2>2
  <1>4. PICK h : IsSum(h, Size, S)
    BY <1>2, SumExists
  <1>5. h = [s \in SUBSET S |->
                IF s = {} THEN 0
                ELSE LET x == CHOOSE x \in s : TRUE
                     IN  Magnitude(x.quantity) + h[s \ {x}]]
    BY <1>3, <1>4 DEF IsSum
  <1>6. sum = [s \in SUBSET S |->
                  IF s = {} THEN 0
                  ELSE LET x == CHOOSE x \in s : TRUE
                       IN  Magnitude(x.quantity) + sum[s \ {x}]]
    BY <1>5
  <1> HIDE DEF sum
  <1>7. IsSum(sum, Size, S)
    BY <1>3, <1>6 DEF IsSum
  <1>8. PICK k : IsSum(k, Size, S) /\ SumOf(Size, S) = k[S]
    BY <1>2, SumOfSum
  <1>9. sum[S] = k[S]
    BY <1>2, <1>7, <1>8, SumUnique
  <1> QED BY <1>1, <1>8, <1>9

LEMMA TotalEmpty == Total({}) = 0
  BY TotalIsSum, SumOfEmpty, FS_EmptySet

LEMMA TotalPart ==
    ASSUME NEW S, S \subseteq LotRows, IsFiniteSet(S), NEW T, T \subseteq S
    PROVE  Total(T) \in Nat /\ Total(S) \in Nat /\ Total(T) <= Total(S)
  <1>1. IsFiniteSet(T) /\ T \subseteq LotRows
    BY FS_Subset
  <1>2. \A r \in S : Size[r] \in Nat
    BY SizeNat
  <1>3. SumOf(Size, T) \in Nat /\ SumOf(Size, S) \in Nat /\ SumOf(Size, T) <= SumOf(Size, S)
    BY <1>2, SumOfPart
  <1> QED BY <1>1, <1>3, TotalIsSum

LEMMA TotalAdd ==
    ASSUME NEW S, S \subseteq LotRows, IsFiniteSet(S), NEW r \in LotRows, r \notin S
    PROVE  Total(S \cup {r}) = Total(S) + Magnitude(r.quantity)
  <1> DEFINE T == S \cup {r}
  <1>1. IsFiniteSet(T) /\ T \subseteq LotRows
    BY FS_AddElement
  <1>2. /\ \A x \in S : Size[x] \in Int
        /\ Size[r] = Magnitude(r.quantity) /\ Size[r] \in Int
    BY SizeNat
  <1>3. SumOf(Size, T) = Size[r] + SumOf(Size, S)
    BY <1>2, SumOfAdd
  <1>4. SumOf(Size, S) \in Int
    BY <1>2, SumOfInt
  <1> HIDE DEF T
  <1>5. Total(T) = SumOf(Size, T) /\ Total(S) = SumOf(Size, S)
    BY <1>1, TotalIsSum
  <1> QED BY <1>2, <1>3, <1>4, <1>5 DEF T

\* The order of rows is a strict total order of every such set.
LEMMA OrderOfSet ==
    ASSUME NEW S, IsRows(S)
    PROVE  /\ \A r, s \in S : ~(Precedes(r, s) /\ Precedes(s, r))
           /\ \A r, s, t \in S : Precedes(r, s) /\ Precedes(s, t) => Precedes(r, t)
           /\ \A r, s \in S : r = s \/ Precedes(r, s) \/ Precedes(s, r)
  <1> /\ \A r \in S : r.id \in Nat /\ r.date \in Nat
      /\ \A r, s \in S : r.id = s.id => r = s
    BY IdsAssumption DEF IsRows, LotRows
  <1> QED BY DEF Precedes

LEMMA StartNat ==
    ASSUME NEW S, IsRows(S), NEW r
    PROVE  Start(r, S) \in Nat
  <1> DEFINE P == {s \in S : Precedes(s, r)}
  <1>1. P \subseteq S
    OBVIOUS
  <1> HIDE DEF P
  <1>2. Total(P) \in Nat
    BY <1>1, TotalPart DEF IsRows
  <1> QED BY <1>2 DEF P, Start

\* A row ends where the next starts, or before.
LEMMA StartBefore ==
    ASSUME NEW S, IsRows(S), NEW a \in S, NEW b \in S, Precedes(a, b)
    PROVE  Start(a, S) + Magnitude(a.quantity) <= Start(b, S)
  <1> DEFINE P(r) == {s \in S : Precedes(s, r)}
             Q == P(a) \cup {a}
  <1>1. Q \subseteq P(b) /\ P(b) \subseteq S /\ P(a) \subseteq S /\ a \notin P(a)
    BY OrderOfSet
  <1>2. S \subseteq LotRows /\ IsFiniteSet(S) /\ a \in LotRows
    BY DEF IsRows
  <1> HIDE DEF P
  <1>3. /\ IsFiniteSet(P(a)) /\ IsFiniteSet(P(b))
        /\ P(a) \subseteq LotRows /\ P(b) \subseteq LotRows
    BY <1>1, <1>2, FS_Subset
  <1>4. Total(Q) = Total(P(a)) + Magnitude(a.quantity)
    BY <1>1, <1>2, <1>3, TotalAdd
  <1>5. Total(Q) <= Total(P(b))
    BY <1>1, <1>3, TotalPart
  <1> QED BY <1>4, <1>5 DEF P, Start

LEMMA StartBound ==
    ASSUME NEW S, IsRows(S), NEW a \in S
    PROVE  Start(a, S) + Magnitude(a.quantity) <= Total(S)
  <1> DEFINE P == {s \in S : Precedes(s, a)}
             Q == P \cup {a}
  <1>1. Q \subseteq S /\ P \subseteq S /\ a \notin P
    BY OrderOfSet
  <1>2. S \subseteq LotRows /\ IsFiniteSet(S) /\ a \in LotRows
    BY DEF IsRows
  <1>3. Start(a, S) = Total(P)
    BY DEF Start
  <1> HIDE DEF P
  <1>4. Total(Q) = Total(P) + Magnitude(a.quantity)
    BY <1>1, <1>2, FS_Subset, TotalAdd
  <1>5. Total(Q) <= Total(S)
    BY <1>1, <1>2, TotalPart
  <1> QED BY <1>3, <1>4, <1>5

\* A set of rows that is not empty has a last one.
LEMMA LastRow ==
    ASSUME NEW S, IsRows(S), S # {}
    PROVE  \E a \in S : \A b \in S : b = a \/ Precedes(b, a)
  <1> DEFINE Last(s) == s = {} \/ \E a \in s : \A b \in s : b = a \/ Precedes(b, a)
             G == {s \in SUBSET S : Last(s)}
  <1>1. {} \in G
    OBVIOUS
  <1>2. ASSUME NEW s \in G, NEW x \in S \ s PROVE s \cup {x} \in G
    <2>1. CASE s = {}
      BY <2>1
    <2>2. CASE s # {}
      <3>1. PICK a \in s : \A b \in s : b = a \/ Precedes(b, a)
        BY <2>2
      <3>2. CASE Precedes(a, x)
        <4>1. \A b \in s \cup {x} : b = x \/ Precedes(b, x)
          BY <3>1, <3>2, OrderOfSet
        <4> QED BY <4>1
      <3>3. CASE Precedes(x, a)
        <4>1. \A b \in s \cup {x} : b = a \/ Precedes(b, a)
          BY <3>1, <3>3
        <4> QED BY <4>1
      <3> QED BY <3>2, <3>3, OrderOfSet
    <2> QED BY <2>1, <2>2
  <1>3. G = SUBSET S
    <2> HIDE DEF G
    <2>1. G \in SUBSET (SUBSET S)
      BY DEF G
    <2> QED BY <1>1, <1>2, <2>1, SubsetsInductive DEF IsRows
  <1> QED BY <1>3

\* What reaches past every row of a downward closed part reaches its total.
LEMMA TotalReached ==
    ASSUME NEW S, IsRows(S), NEW T, T \subseteq S,
           \A a \in T : \A b \in S : Precedes(b, a) => b \in T,
           NEW n \in Nat, \A a \in T : Start(a, S) + Magnitude(a.quantity) <= n
    PROVE  Total(T) <= n
  <1>1. CASE T = {}
    BY <1>1, TotalEmpty
  <1>2. CASE T # {}
    <2>1. IsRows(T)
      BY FS_Subset DEF IsRows
    <2>2. PICK a \in T : \A b \in T : b = a \/ Precedes(b, a)
      BY <1>2, <2>1, LastRow
    <2> DEFINE P == {s \in S : Precedes(s, a)}
    <2>3. T = P \cup {a} /\ a \notin P /\ P \subseteq S
      BY <2>2, OrderOfSet
    <2>4. Start(a, S) = Total(P)
      BY DEF Start
    <2> HIDE DEF P
    <2>5. Total(P \cup {a}) = Total(P) + Magnitude(a.quantity)
      BY <2>3, FS_Subset, TotalAdd DEF IsRows
    <2> QED BY <2>3, <2>4, <2>5
  <1> QED BY <1>1, <1>2

LEMMA StartReached ==
    ASSUME NEW S, IsRows(S), NEW b \in S, NEW n \in Nat,
           \A a \in S : Precedes(a, b) => Start(a, S) + Magnitude(a.quantity) <= n
    PROVE  Start(b, S) <= n
  <1> DEFINE P == {s \in S : Precedes(s, b)}
  <1>1. /\ P \subseteq S
        /\ \A a \in P : \A c \in S : Precedes(c, a) => c \in P
        /\ \A a \in P : Start(a, S) + Magnitude(a.quantity) <= n
    BY OrderOfSet
  <1> HIDE DEF P
  <1>2. Total(P) <= n
    BY <1>1, TotalReached
  <1> QED BY <1>2 DEF P, Start

-----------------------------------------------------------------------------
(***************************************************************************)
(* The walk attributes by overlap.                                         *)
(***************************************************************************)

\* How far the walk has come on the line of disposals laid end to end: every
\* reached disposal is drawn in full, but for what remains of the current one.
Drawn == Total(Reached) - remaining

End(r, S) == Start(r, S) + Magnitude(r.quantity)

Clamp(x, n) == IF x <= 0 THEN 0 ELSE IF x >= n THEN n ELSE x

Least(x, y) == IF x <= y THEN x ELSE y

Greatest(x, y) == IF x >= y THEN x ELSE y

\* The length that the segments from a to b and from c to d share.
Overlap(a, b, c, d) == Greatest(0, Least(b, d) - Greatest(a, c))

NothingRemains ==
    /\ phase \in {"wipe", "next", "done"} => remaining = 0
    /\ phase = "match" =>
        \A c \in Consumers(View) : c.id = current => remaining <= Magnitude(c.quantity)

\* The lots are filled from the first on, up to what is drawn.
FilledInOrder ==
    phase # "wipe" =>
    /\ Drawn <= Total(Sources(View))
    /\ \A b \in Sources(View) :
        consumed[b.id] = Clamp(Drawn - Start(b, Sources(View)), b.quantity)

\* Each reached disposal has drawn from each lot what their segments share, as
\* far as the walk has come.
OverlapsAllocated ==
    phase # "wipe" =>
    \A c \in Reached, b \in Sources(View) :
        alloc[<<c.id, b.id>>] =
            Overlap(Start(c, Consumers(View)), Least(End(c, Consumers(View)), Drawn),
                    Start(b, Sources(View)), End(b, Sources(View)))

QueueUntouched ==
    phase = "match" => \A b \in queue : alloc[<<current, b.id>>] = 0

Outcome ==
    /\ phase = "done" => todo = {}
    /\ phase = "refused" => ~Covered(View)

AttributionInv ==
    /\ IInv
    /\ NothingRemains
    /\ FilledInOrder
    /\ OverlapsAllocated
    /\ QueueUntouched
    /\ Outcome

LEMMA ViewIsRows ==
    ASSUME TypeOK
    PROVE  /\ IsRows(View) /\ IsRows(Sources(View)) /\ IsRows(Consumers(View))
           /\ Reached \subseteq Consumers(View)
  <1> DEFINE I == {j \in Ids : IsMatchable(rows[j])}
  <1>1. IsFiniteSet(I)
    BY IdsAssumption, FS_Subset
  <1>2. IsFiniteSet(View)
    <2> DEFINE f == [i \in I |-> LotRow(i, rows[i])]
    <2>1. f \in Surjection(I, View)
      BY DEF Surjection, View
    <2> QED BY <1>1, <2>1, FS_Surjection
  <1>3. IsRows(View)
    BY <1>2, ViewRows DEF IsRows
  <1>4. \A S : S \subseteq View => IsRows(S)
    BY <1>3, FS_Subset DEF IsRows
  <1> QED BY <1>3, <1>4 DEF Sources, Consumers, Reached

\* What is drawn, in numbers.
LEMMA TotalsOfWalk ==
    ASSUME TypeOK
    PROVE  /\ Total(Sources(View)) \in Nat /\ Total(Consumers(View)) \in Nat
           /\ Total(Reached) \in Nat /\ Total(Reached) <= Total(Consumers(View))
           /\ Drawn \in Int
  <1>1. /\ Total(Sources(View)) \in Nat /\ Total(Consumers(View)) \in Nat
        /\ Total(Reached) \in Nat /\ Total(Reached) <= Total(Consumers(View))
    BY ViewIsRows, TotalPart DEF IsRows
  <1> QED BY <1>1 DEF Drawn, TypeOK

LEMMA Segments ==
    ASSUME TypeOK
    PROVE  /\ \A b \in Sources(View) :
                /\ b.id \in Ids /\ b.quantity \in Nat /\ b.quantity > 0
                /\ Start(b, Sources(View)) \in Nat
                /\ End(b, Sources(View)) = Start(b, Sources(View)) + b.quantity
                /\ End(b, Sources(View)) <= Total(Sources(View))
           /\ \A c \in Consumers(View) :
                /\ c.id \in Ids /\ Magnitude(c.quantity) \in Nat
                /\ Start(c, Consumers(View)) \in Nat
                /\ End(c, Consumers(View)) = Start(c, Consumers(View)) + Magnitude(c.quantity)
                /\ End(c, Consumers(View)) <= Total(Consumers(View))
  <1>1. \A r \in View : r.id \in Ids /\ r.quantity \in Int
    BY ViewRows DEF LotRows
  <1>2. ASSUME NEW b \in Sources(View)
        PROVE  /\ b.id \in Ids /\ b.quantity \in Nat /\ b.quantity > 0
               /\ Start(b, Sources(View)) \in Nat
               /\ End(b, Sources(View)) = Start(b, Sources(View)) + b.quantity
               /\ End(b, Sources(View)) <= Total(Sources(View))
    <2>1. b.id \in Ids /\ b.quantity \in Nat /\ b.quantity > 0
      BY <1>1, RolesInView
    <2>2. Magnitude(b.quantity) = b.quantity
      BY <2>1 DEF Magnitude
    <2>3. /\ Start(b, Sources(View)) \in Nat
          /\ Start(b, Sources(View)) + Magnitude(b.quantity) <= Total(Sources(View))
      BY ViewIsRows, StartNat, StartBound
    <2> QED BY <2>1, <2>2, <2>3 DEF End
  <1>3. ASSUME NEW c \in Consumers(View)
        PROVE  /\ c.id \in Ids /\ Magnitude(c.quantity) \in Nat
               /\ Start(c, Consumers(View)) \in Nat
               /\ End(c, Consumers(View)) = Start(c, Consumers(View)) + Magnitude(c.quantity)
               /\ End(c, Consumers(View)) <= Total(Consumers(View))
    <2>1. c.id \in Ids /\ Magnitude(c.quantity) \in Nat
      BY <1>1, RolesInView, MagnitudeNat
    <2>2. /\ Start(c, Consumers(View)) \in Nat
          /\ Start(c, Consumers(View)) + Magnitude(c.quantity) <= Total(Consumers(View))
      BY ViewIsRows, StartNat, StartBound
    <2> QED BY <2>1, <2>2 DEF End
  <1> QED BY <1>2, <1>3

\* The reached disposals end where the last of them ends.
LEMMA ReachedEnds ==
    ASSUME IInv, phase # "wipe", NEW c \in Reached, \A d \in Reached : d = c \/ Precedes(d, c)
    PROVE  Total(Reached) = End(c, Consumers(View))
  <1> DEFINE P == {d \in Consumers(View) : Precedes(d, c)}
  <1>1. /\ IsRows(Consumers(View)) /\ Reached \subseteq Consumers(View)
        /\ c \in Consumers(View)
    BY ViewIsRows DEF IInv
  <1>2. \A d \in Consumers(View) : Precedes(d, c) => d \in Reached
    <2> SUFFICES ASSUME NEW d \in Consumers(View), Precedes(d, c), d \in todo PROVE FALSE
      BY DEF Reached
    <2>1. Precedes(c, d)
      BY DEF IInv, ReachedInOrder
    <2> QED BY <1>1, <2>1, OrderOfSet
  <1>3. Reached = P \cup {c} /\ c \notin P /\ P \subseteq Consumers(View)
    BY <1>1, <1>2, OrderOfSet
  <1>4. Start(c, Consumers(View)) = Total(P)
    BY DEF Start
  <1> HIDE DEF P
  <1>5. Total(P \cup {c}) = Total(P) + Magnitude(c.quantity)
    BY <1>1, <1>3, FS_Subset, TotalAdd DEF IsRows
  <1> QED BY <1>3, <1>4, <1>5 DEF End

\* In the inner loop the walk is within the current disposal.
LEMMA WithinCurrent ==
    ASSUME IInv, NothingRemains, phase = "match"
    PROVE  \E c \in Reached :
              /\ c.id = current
              /\ \A d \in Reached : d = c \/ Precedes(d, c)
              /\ Drawn = End(c, Consumers(View)) - remaining
              /\ Start(c, Consumers(View)) <= Drawn /\ Drawn <= End(c, Consumers(View))
              /\ Drawn \in Nat
  <1>1. PICK c \in Reached : c.id = current /\ \A d \in Reached : d = c \/ Precedes(d, c)
    BY DEF IInv, CurrentIsLast
  <1>2. Total(Reached) = End(c, Consumers(View))
    BY <1>1, ReachedEnds
  <1>3. c \in Consumers(View) /\ TypeOK /\ remaining \in Nat
    BY ViewIsRows DEF IInv, TypeOK
  <1>4. /\ Start(c, Consumers(View)) \in Nat /\ Magnitude(c.quantity) \in Nat
        /\ End(c, Consumers(View)) = Start(c, Consumers(View)) + Magnitude(c.quantity)
    BY <1>3, Segments
  <1>5. remaining <= Magnitude(c.quantity)
    BY <1>1, <1>3 DEF NothingRemains
  <1> QED BY <1>1, <1>2, <1>3, <1>4, <1>5 DEF Drawn

-----------------------------------------------------------------------------

LEMMA InitAttribution == Init => AttributionInv
  <1> SUFFICES ASSUME Init PROVE AttributionInv
    OBVIOUS
  <1> QED BY InitInv DEF Init, AttributionInv, NothingRemains, FilledInOrder,
             OverlapsAllocated, QueueUntouched, Outcome

LEMMA WipeAttribution == AttributionInv /\ Wipe => AttributionInv'
  <1> SUFFICES ASSUME AttributionInv, Wipe PROVE AttributionInv'
    OBVIOUS
  <1>1. IInv' /\ TypeOK /\ View' = View /\ remaining = 0
    BY WipeInv, ViewFixed DEF AttributionInv, IInv, NothingRemains, Wipe
  <1>2. Reached' = {}
    BY <1>1 DEF Reached, Wipe
  <1>3. Total(Reached') = 0 /\ Drawn' = 0
    BY <1>1, <1>2, TotalEmpty DEF Drawn, Wipe
  <1>4. FilledInOrder'
    <2>1. 0 <= Total(Sources(View))
      BY <1>1, TotalsOfWalk
    <2>2. ASSUME NEW b \in Sources(View)
          PROVE  consumed'[b.id] = Clamp(0 - Start(b, Sources(View)), b.quantity)
      <3>1. b.id \in Ids /\ Start(b, Sources(View)) \in Nat
        BY <1>1, Segments
      <3> QED BY <3>1 DEF Clamp, Wipe
    <2> QED BY <1>1, <1>3, <2>1, <2>2 DEF FilledInOrder
  <1> QED BY <1>1, <1>2, <1>4 DEF AttributionInv, NothingRemains, OverlapsAllocated,
             QueueUntouched, Outcome, Wipe

\* Reaching a disposal draws nothing: all of it remains.
LEMMA NextConsumerDraws ==
    ASSUME AttributionInv, NextConsumer
    PROVE  Drawn' = Drawn
  <1>1. TypeOK /\ View' = View /\ remaining = 0
    BY ViewFixed DEF AttributionInv, IInv, NothingRemains, NextConsumer
  <1>2. PICK c \in todo : todo' = todo \ {c} /\ remaining' = Magnitude(c.quantity)
    BY DEF NextConsumer
  <1>3. /\ c \in Consumers(View) /\ c \notin Reached
        /\ Reached' = Reached \cup {c}
    BY <1>1, <1>2 DEF Reached, TypeOK
  <1>4. IsRows(Consumers(View)) /\ Reached \subseteq Consumers(View)
    BY <1>1, ViewIsRows
  <1>5. Total(Reached \cup {c}) = Total(Reached) + Magnitude(c.quantity)
    BY <1>3, <1>4, FS_Subset, TotalAdd DEF IsRows
  <1>6. Total(Reached) \in Nat /\ Magnitude(c.quantity) \in Nat
    BY <1>1, <1>3, TotalsOfWalk, Segments
  <1> QED BY <1>1, <1>2, <1>3, <1>5, <1>6 DEF Drawn

LEMMA NextConsumerAttribution == AttributionInv /\ NextConsumer => AttributionInv'
  <1> SUFFICES ASSUME AttributionInv, NextConsumer PROVE AttributionInv'
    OBVIOUS
  <1>1. IInv /\ IInv' /\ TypeOK /\ TypeOK' /\ View' = View /\ remaining = 0
    BY NextConsumerInv, ViewFixed DEF AttributionInv, IInv, NothingRemains, NextConsumer
  <1>2. PICK c \in todo : /\ IsFirst(c, todo)
                          /\ todo' = todo \ {c}
                          /\ current' = c.id
                          /\ remaining' = Magnitude(c.quantity)
    BY DEF NextConsumer
  <1>3. /\ phase = "next" /\ phase' = "match" /\ queue' = Sources(View)
        /\ UNCHANGED <<rows, alloc, consumed>>
    BY DEF NextConsumer
  <1>4. /\ c \in Consumers(View) /\ c \notin Reached
        /\ Reached' = Reached \cup {c}
    BY <1>1, <1>2 DEF Reached, TypeOK
  <1>5. /\ IsRows(Consumers(View)) /\ Reached \subseteq Consumers(View)
        /\ \A d \in Consumers(View) : d.id = c.id => d = c
    BY <1>1, <1>4, ViewIsRows DEF IsRows
  <1>6. Drawn' = Drawn
    BY NextConsumerDraws
  <1>7. Drawn = Start(c, Consumers(View))
    <2> DEFINE P == {d \in Consumers(View) : Precedes(d, c)}
    <2>1. \A d \in Reached : Precedes(d, c)
      BY <1>2, <1>3 DEF IInv, ReachedInOrder, AttributionInv
    <2>2. \A d \in todo : d = c \/ Precedes(c, d)
      BY <1>2 DEF IsFirst
    <2>3. P = Reached
      BY <1>4, <1>5, <2>1, <2>2, OrderOfSet DEF Reached
    <2>4. Total(Reached) \in Nat
      BY <1>1, TotalsOfWalk
    <2> QED BY <1>1, <2>3, <2>4 DEF Start, Drawn
  <1>8. \A b \in Sources(View) : alloc[<<c.id, b.id>>] = 0
    <2> SUFFICES ASSUME NEW b \in Sources(View), alloc[<<c.id, b.id>>] # 0 PROVE FALSE
      OBVIOUS
    <2>1. b.id \in Ids /\ c.id \in Ids
      BY <1>1, <1>4, Segments
    <2>2. alloc[<<c.id, b.id>>] > 0
      BY <1>1, <2>1 DEF TypeOK
    <2>3. \E d \in Reached : d.id = c.id
      BY <1>3, <2>1, <2>2 DEF IInv, AllocationsReached, AttributionInv
    <2> QED BY <1>4, <1>5, <2>3
  <1>9. OverlapsAllocated'
    <2> SUFFICES ASSUME NEW d \in Reached \cup {c}, NEW b \in Sources(View)
                 PROVE  alloc[<<d.id, b.id>>] =
                            Overlap(Start(d, Consumers(View)),
                                    Least(End(d, Consumers(View)), Drawn),
                                    Start(b, Sources(View)), End(b, Sources(View)))
      BY <1>1, <1>3, <1>4, <1>6 DEF OverlapsAllocated
    <2>1. CASE d \in Reached
      BY <1>3, <2>1 DEF AttributionInv, OverlapsAllocated
    <2>2. CASE d = c
      <3>1. /\ Start(c, Consumers(View)) \in Nat /\ End(c, Consumers(View)) \in Nat
            /\ Start(b, Sources(View)) \in Nat /\ End(b, Sources(View)) \in Nat
        BY <1>1, <1>4, Segments
      <3>2. Overlap(Start(c, Consumers(View)),
                    Least(End(c, Consumers(View)), Start(c, Consumers(View))),
                    Start(b, Sources(View)), End(b, Sources(View))) = 0
        BY <3>1 DEF Overlap, Least, Greatest
      <3> QED BY <1>7, <1>8, <2>2, <3>2
    <2> QED BY <2>1, <2>2
  <1>10. FilledInOrder'
    BY <1>1, <1>3, <1>6 DEF AttributionInv, FilledInOrder
  <1>11. NothingRemains'
    <2>1. Magnitude(c.quantity) <= Magnitude(c.quantity)
      BY <1>1, <1>4, Segments
    <2> QED BY <1>1, <1>2, <1>3, <1>5, <2>1 DEF NothingRemains
  <1>12. QueueUntouched' /\ Outcome'
    BY <1>1, <1>2, <1>3, <1>8 DEF QueueUntouched, Outcome
  <1> QED BY <1>1, <1>9, <1>10, <1>11, <1>12 DEF AttributionInv

\* The numbers of a draw.
LEMMA ClampWithin ==
    ASSUME NEW n \in Nat, NEW x \in Int, 0 <= x, x <= n \/ Clamp(x, n) < n
    PROVE  Clamp(x, n) = x
  BY DEF Clamp

LEMMA ClampOutside ==
    ASSUME NEW n \in Nat, NEW x \in Int, NEW y \in Int,
           (n <= x /\ n <= y) \/ (x <= 0 /\ y <= 0)
    PROVE  Clamp(x, n) = Clamp(y, n)
  BY DEF Clamp

LEMMA OverlapStays ==
    ASSUME NEW a \in Nat, NEW b \in Nat, NEW x \in Nat, NEW y \in Nat,
           NEW d \in Nat, NEW e \in Nat, d <= e, x <= y,
           b <= d \/ y <= d \/ e <= x
    PROVE  Overlap(a, Least(b, e), x, y) = Overlap(a, Least(b, d), x, y)
  BY DEF Overlap, Least, Greatest

LEMMA VisitLotAttribution == AttributionInv /\ VisitLot => AttributionInv'
  <1> SUFFICES ASSUME AttributionInv, VisitLot PROVE AttributionInv'
    OBVIOUS
  <1>1. IInv /\ IInv' /\ TypeOK /\ TypeOK' /\ View' = View /\ Reached' = Reached
    BY VisitLotInv, ViewFixed DEF AttributionInv, IInv, Reached, VisitLot
  <1>2. PICK b \in queue :
          /\ IsFirst(b, queue)
          /\ queue' = queue \ {b}
          /\ LET available == b.quantity - consumed[b.id]
                 matched   == IF remaining < available THEN remaining ELSE available
             IN  IF available <= 0
                 THEN UNCHANGED <<alloc, consumed, remaining>>
                 ELSE /\ alloc' = [alloc EXCEPT ![<<current, b.id>>] = matched]
                      /\ consumed' = [consumed EXCEPT ![b.id] = @ + matched]
                      /\ remaining' = remaining - matched
    BY DEF VisitLot, FirstInQueue, Available, Draw
  <1>3. /\ phase = "match" /\ phase' = "match" /\ remaining > 0
        /\ UNCHANGED <<rows, todo, current>>
    BY DEF VisitLot
  <1>4. /\ alloc \in [Ids \X Ids -> Nat] /\ consumed \in [Ids -> Nat]
        /\ remaining \in Nat /\ queue \subseteq Sources(View)
    BY <1>1 DEF TypeOK
  <1>5. PICK c \in Reached :
          /\ c.id = current
          /\ \A d \in Reached : d = c \/ Precedes(d, c)
          /\ Drawn = End(c, Consumers(View)) - remaining
          /\ Start(c, Consumers(View)) <= Drawn /\ Drawn <= End(c, Consumers(View))
          /\ Drawn \in Nat
    BY <1>1, <1>3, WithinCurrent DEF AttributionInv
  <1>6. /\ b \in Sources(View) /\ c \in Consumers(View)
        /\ \A s \in Sources(View) : s.id = b.id => s = b
        /\ \A d \in Consumers(View) : d.id = c.id => d = c
        /\ IsRows(Sources(View)) /\ IsRows(Consumers(View))
        /\ Reached \subseteq Consumers(View)
    BY <1>1, <1>4, ViewIsRows DEF IsRows
  <1>7. /\ b.id \in Ids /\ b.quantity \in Nat /\ b.quantity > 0
        /\ Start(b, Sources(View)) \in Nat
        /\ End(b, Sources(View)) = Start(b, Sources(View)) + b.quantity
        /\ End(b, Sources(View)) <= Total(Sources(View))
        /\ Total(Sources(View)) \in Nat
    BY <1>1, <1>6, Segments, TotalsOfWalk
  <1>8. /\ c.id \in Ids /\ Start(c, Consumers(View)) \in Nat /\ End(c, Consumers(View)) \in Nat
    BY <1>1, <1>6, Segments
  <1>9. CASE b.quantity - consumed[b.id] <= 0
    <2>1. UNCHANGED <<alloc, consumed, remaining>>
      BY <1>2, <1>9
    <2>2. Drawn' = Drawn
      BY <1>1, <2>1 DEF Drawn
    <2>3. NothingRemains' /\ FilledInOrder' /\ OverlapsAllocated' /\ Outcome'
      BY <1>1, <1>3, <2>1, <2>2
      DEF AttributionInv, NothingRemains, FilledInOrder, OverlapsAllocated, Outcome
    <2>4. QueueUntouched'
      BY <1>2, <1>3, <2>1 DEF AttributionInv, QueueUntouched
    <2> QED BY <1>1, <2>3, <2>4 DEF AttributionInv
  <1>10. CASE b.quantity - consumed[b.id] > 0
    <2> DEFINE available == b.quantity - consumed[b.id]
               m == IF remaining < available THEN remaining ELSE available
    <2>1. /\ alloc' = [alloc EXCEPT ![<<current, b.id>>] = m]
          /\ consumed' = [consumed EXCEPT ![b.id] = @ + m]
          /\ remaining' = remaining - m
      BY <1>2, <1>4, <1>7, <1>10
    <2>2. m \in Nat /\ m > 0 /\ m <= available /\ m <= remaining
      BY <1>3, <1>4, <1>7, <1>10
    <2>3. /\ \A i \in Ids : consumed'[i] = IF i = b.id THEN consumed[i] + m ELSE consumed[i]
          /\ \A i, j \in Ids : alloc'[<<i, j>>] =
                IF i = current /\ j = b.id THEN m ELSE alloc[<<i, j>>]
      BY <1>4, <1>5, <1>7, <1>8, <2>1
    <2> HIDE DEF m
    \* Every older lot is exhausted, so the walk has reached the lot.
    <2>4. Start(b, Sources(View)) <= Drawn
      <3>1. ASSUME NEW a \in Sources(View), Precedes(a, b)
            PROVE  Start(a, Sources(View)) + Magnitude(a.quantity) <= Drawn
        <4>1. a \notin queue
          <5>1. ~Precedes(b, a) /\ a # b
            BY <1>6, <3>1, OrderOfSet
          <5> QED BY <1>2, <5>1 DEF IsFirst
        <4>2. consumed[a.id] = a.quantity
          BY <1>1, <1>3, <4>1 DEF IInv, VisitedLotsExhausted
        <4>3. consumed[a.id] = Clamp(Drawn - Start(a, Sources(View)), a.quantity)
          BY <1>3 DEF AttributionInv, FilledInOrder
        <4>4. /\ a.quantity \in Nat /\ a.quantity > 0
              /\ Start(a, Sources(View)) \in Nat
          BY <1>1, Segments
        <4>5. Start(a, Sources(View)) + a.quantity <= Drawn
          BY <1>5, <4>2, <4>3, <4>4 DEF Clamp
        <4> QED BY <4>4, <4>5 DEF Magnitude
      <3> QED BY <1>5, <1>6, <3>1, StartReached
    <2>5. /\ consumed[b.id] = Drawn - Start(b, Sources(View))
          /\ available = End(b, Sources(View)) - Drawn
      <3>1. consumed[b.id] = Clamp(Drawn - Start(b, Sources(View)), b.quantity)
        BY <1>3, <1>6 DEF AttributionInv, FilledInOrder
      <3>2. consumed[b.id] \in Nat /\ consumed[b.id] < b.quantity
        BY <1>4, <1>7, <1>10
      <3>3. consumed[b.id] = Drawn - Start(b, Sources(View))
        BY <1>5, <1>7, <2>4, <3>1, <3>2, ClampWithin
      <3> QED BY <1>5, <1>7, <3>3
    <2> HIDE DEF available
    <2>6. /\ Drawn' = Drawn + m
          /\ Drawn + m <= End(b, Sources(View))
          /\ Drawn + m <= End(c, Consumers(View))
      <3>1. Total(Reached) \in Nat
        BY <1>1, TotalsOfWalk
      <3>2. Drawn' = Drawn + m
        BY <1>1, <1>4, <2>1, <2>2, <3>1 DEF Drawn
      <3> QED BY <1>4, <1>5, <1>7, <1>8, <2>2, <2>5, <3>2
    <2> DEFINE e == Drawn + m
    <2>e. e \in Nat /\ e - Drawn = m /\ Drawn <= e /\ e = Drawn + m /\ Drawn' = e
      BY <1>5, <2>2, <2>6
    <2> HIDE DEF e
    <2>7. FilledInOrder'
      <3>1. e <= Total(Sources(View))
        BY <1>5, <1>7, <2>6, <2>e
      <3>2. ASSUME NEW s \in Sources(View)
            PROVE  consumed'[s.id] = Clamp(e - Start(s, Sources(View)), s.quantity)
        <4>1. /\ s.id \in Ids /\ s.quantity \in Nat /\ s.quantity > 0
              /\ Start(s, Sources(View)) \in Nat
              /\ End(s, Sources(View)) = Start(s, Sources(View)) + s.quantity
              /\ Magnitude(s.quantity) = s.quantity
          BY <1>1, Segments DEF Magnitude
        <4>2. CASE s = b
          <5>1. consumed'[b.id] = Drawn - Start(b, Sources(View)) + m
            BY <1>7, <2>3, <2>5
          <5> DEFINE y == e - Start(b, Sources(View))
          <5>2. y \in Int /\ 0 <= y /\ y <= b.quantity /\ consumed'[b.id] = y
            BY <1>5, <1>7, <2>2, <2>4, <2>6, <2>e, <5>1
          <5> HIDE DEF y
          <5>3. consumed'[b.id] = Clamp(y, b.quantity)
            BY <1>7, <5>2, ClampWithin
          <5> QED BY <4>2, <5>3 DEF y
        <4>3. CASE s # b
          <5>1. consumed'[s.id] = consumed[s.id]
            BY <1>6, <2>3, <4>1, <4>3
          <5>2. consumed[s.id] = Clamp(Drawn - Start(s, Sources(View)), s.quantity)
            BY <1>3 DEF AttributionInv, FilledInOrder
          <5>3. CASE Precedes(s, b)
            <6>1. Start(s, Sources(View)) + s.quantity <= Start(b, Sources(View))
              BY <1>6, <4>1, <5>3, StartBefore
            <6> DEFINE x == Drawn - Start(s, Sources(View))
                       y == e - Start(s, Sources(View))
            <6>2. x \in Int /\ y \in Int /\ s.quantity <= x /\ s.quantity <= y
              BY <1>5, <1>7, <2>4, <2>e, <4>1, <6>1
            <6>3. consumed[s.id] = Clamp(x, s.quantity)
              BY <5>2
            <6> HIDE DEF x, y
            <6>4. Clamp(y, s.quantity) = Clamp(x, s.quantity)
              BY <4>1, <6>2, ClampOutside
            <6>5. consumed'[s.id] = Clamp(y, s.quantity)
              BY <5>1, <6>3, <6>4
            <6> QED BY <6>5 DEF y
          <5>4. CASE Precedes(b, s)
            <6>1. Start(b, Sources(View)) + b.quantity <= Start(s, Sources(View))
              <7>1. Magnitude(b.quantity) = b.quantity
                BY <1>7 DEF Magnitude
              <7> QED BY <1>6, <5>4, <7>1, StartBefore
            <6> DEFINE x == Drawn - Start(s, Sources(View))
                       y == e - Start(s, Sources(View))
            <6>2. x \in Int /\ y \in Int /\ x <= 0 /\ y <= 0
              BY <1>5, <1>7, <2>e, <2>6, <4>1, <6>1
            <6>3. consumed[s.id] = Clamp(x, s.quantity)
              BY <5>2
            <6> HIDE DEF x, y
            <6>4. Clamp(y, s.quantity) = Clamp(x, s.quantity)
              BY <4>1, <6>2, ClampOutside
            <6>5. consumed'[s.id] = Clamp(y, s.quantity)
              BY <5>1, <6>3, <6>4
            <6> QED BY <6>5 DEF y
          <5>5. Precedes(s, b) \/ Precedes(b, s)
            BY <1>6, <4>3, OrderOfSet
          <5> QED BY <5>3, <5>4, <5>5
        <4> QED BY <4>2, <4>3
      <3> QED BY <1>1, <2>e, <3>1, <3>2 DEF FilledInOrder
    <2>8. OverlapsAllocated'
      <3> SUFFICES ASSUME NEW d \in Reached, NEW s \in Sources(View)
                   PROVE  alloc'[<<d.id, s.id>>] =
                            Overlap(Start(d, Consumers(View)),
                                    Least(End(d, Consumers(View)), e),
                                    Start(s, Sources(View)), End(s, Sources(View)))
        BY <1>1, <2>e DEF OverlapsAllocated
      <3>1. /\ d \in Consumers(View) /\ d.id \in Ids
            /\ Start(d, Consumers(View)) \in Nat /\ End(d, Consumers(View)) \in Nat
        BY <1>1, <1>6, Segments
      <3>2. /\ s.id \in Ids /\ s.quantity \in Nat
            /\ Start(s, Sources(View)) \in Nat
            /\ End(s, Sources(View)) = Start(s, Sources(View)) + s.quantity
            /\ End(s, Sources(View)) \in Nat
            /\ Start(s, Sources(View)) <= End(s, Sources(View))
            /\ Magnitude(s.quantity) = s.quantity
        BY <1>1, Segments DEF Magnitude
      <3>3. alloc[<<d.id, s.id>>] =
                Overlap(Start(d, Consumers(View)),
                        Least(End(d, Consumers(View)), Drawn),
                        Start(s, Sources(View)), End(s, Sources(View)))
        BY <1>3 DEF AttributionInv, OverlapsAllocated
      <3>4. CASE d = c /\ s = b
        <4>1. alloc[<<c.id, b.id>>] = 0
          BY <1>3, <1>5 DEF AttributionInv, QueueUntouched
        <4>2. alloc'[<<c.id, b.id>>] = m
          BY <1>5, <1>7, <1>8, <2>3
        <4>4. Overlap(Start(c, Consumers(View)), Least(End(c, Consumers(View)), Drawn),
                      Start(b, Sources(View)), End(b, Sources(View))) = 0
          BY <3>3, <3>4, <4>1
        <4>5. Overlap(Start(c, Consumers(View)), Least(End(c, Consumers(View)), e),
                      Start(b, Sources(View)), End(b, Sources(View))) = e - Drawn
          BY <1>5, <2>4, <2>6, <3>1, <3>2, <3>4, <2>e, <4>4 DEF Overlap, Least, Greatest
        <4> QED BY <2>e, <3>4, <4>2, <4>5
      <3>5. CASE ~(d = c /\ s = b)
        <4>1. alloc'[<<d.id, s.id>>] = alloc[<<d.id, s.id>>]
          BY <1>5, <1>6, <2>3, <3>1, <3>2, <3>5
        <4>2. \/ End(d, Consumers(View)) <= Drawn
              \/ End(s, Sources(View)) <= Drawn
              \/ e <= Start(s, Sources(View))
          <5>1. CASE d # c
            <6>1. Precedes(d, c)
              BY <1>5, <5>1
            <6>2. Start(d, Consumers(View)) + Magnitude(d.quantity) <= Start(c, Consumers(View))
              BY <1>6, <3>1, <6>1, StartBefore
            <6>3. End(d, Consumers(View)) <= Start(c, Consumers(View))
              BY <6>2 DEF End
            <6> QED BY <1>5, <1>8, <3>1, <6>3
          <5>2. CASE Precedes(s, b)
            <6>1. Start(s, Sources(View)) + s.quantity <= Start(b, Sources(View))
              BY <1>6, <3>2, <5>2, StartBefore
            <6> QED BY <1>5, <1>7, <2>4, <3>2, <6>1
          <5>3. CASE Precedes(b, s)
            <6>1. Start(b, Sources(View)) + b.quantity <= Start(s, Sources(View))
              <7>1. Magnitude(b.quantity) = b.quantity
                BY <1>7 DEF Magnitude
              <7> QED BY <1>6, <5>3, <7>1, StartBefore
            <6> QED BY <1>5, <1>7, <2>6, <2>e, <3>2, <6>1
          <5>4. d # c \/ Precedes(s, b) \/ Precedes(b, s)
            BY <1>6, <3>5, OrderOfSet
          <5> QED BY <5>1, <5>2, <5>3, <5>4
        <4> DEFINE f == Start(d, Consumers(View))
                   g == End(d, Consumers(View))
                   x == Start(s, Sources(View))
                   y == End(s, Sources(View))
        <4>3. /\ f \in Nat /\ g \in Nat /\ x \in Nat /\ y \in Nat /\ x <= y
              /\ g <= Drawn \/ y <= Drawn \/ e <= x
              /\ alloc[<<d.id, s.id>>] = Overlap(f, Least(g, Drawn), x, y)
          BY <3>1, <3>2, <3>3, <4>2
        <4> HIDE DEF f, g, x, y
        <4>4. Overlap(f, Least(g, e), x, y) = Overlap(f, Least(g, Drawn), x, y)
          <5> DEFINE from == Drawn
                     to   == e
          <5>1. from \in Nat /\ to \in Nat /\ from <= to
            BY <1>5, <1>7, <2>4, <2>e
          <5>2. g <= from \/ y <= from \/ to <= x
            BY <4>3
          <5>3. f \in Nat /\ g \in Nat /\ x \in Nat /\ y \in Nat /\ x <= y
            BY <4>3
          <5> HIDE DEF from, to
          <5>4. Overlap(f, Least(g, to), x, y) = Overlap(f, Least(g, from), x, y)
            BY <5>1, <5>2, <5>3, OverlapStays
          <5> QED BY <5>4 DEF from, to
        <4>5. alloc'[<<d.id, s.id>>] = Overlap(f, Least(g, e), x, y)
          BY <4>1, <4>3, <4>4
        <4> QED BY <4>5 DEF f, g, x, y
      <3> QED BY <3>4, <3>5
    <2>9. QueueUntouched'
      <3> SUFFICES ASSUME NEW s \in queue \ {b} PROVE alloc'[<<current, s.id>>] = 0
        BY <1>2, <1>3 DEF QueueUntouched
      <3>1. s \in Sources(View) /\ s.id \in Ids /\ s.id # b.id
        BY <1>1, <1>4, <1>6, Segments
      <3>2. alloc[<<current, s.id>>] = 0
        BY <1>3 DEF AttributionInv, QueueUntouched
      <3> QED BY <1>5, <1>8, <2>3, <3>1, <3>2
    <2>10. NothingRemains'
      <3> SUFFICES ASSUME NEW d \in Consumers(View), d.id = current
                   PROVE  remaining' <= Magnitude(d.quantity)
        BY <1>1, <1>3 DEF NothingRemains
      <3>1. remaining <= Magnitude(d.quantity) /\ Magnitude(d.quantity) \in Nat
        BY <1>1, <1>3, Segments DEF AttributionInv, NothingRemains
      <3> QED BY <1>4, <2>1, <2>2, <3>1
    <2>11. Outcome'
      BY <1>3 DEF Outcome
    <2> QED BY <1>1, <2>7, <2>8, <2>9, <2>10, <2>11 DEF AttributionInv
  <1> QED BY <1>4, <1>7, <1>9, <1>10

\* The walk stops short only where the lots do not reach as far as the disposals.
LEMMA RefuseUncovered ==
    ASSUME AttributionInv, Refuse
    PROVE  ~Covered(View)
  <1>1. TypeOK /\ IInv /\ phase = "match" /\ queue = {} /\ remaining > 0 /\ remaining \in Nat
    BY DEF AttributionInv, IInv, TypeOK, Refuse
  <1>2. /\ IsRows(Sources(View))
        /\ Total(Sources(View)) \in Nat /\ Total(Consumers(View)) \in Nat
        /\ Total(Reached) \in Nat /\ Total(Reached) <= Total(Consumers(View))
    BY <1>1, ViewIsRows, TotalsOfWalk
  <1>3. Drawn \in Nat
    BY <1>1, WithinCurrent DEF AttributionInv
  <1>4. ASSUME NEW a \in Sources(View)
        PROVE  Start(a, Sources(View)) + Magnitude(a.quantity) <= Drawn
    <2>1. consumed[a.id] = a.quantity
      BY <1>1 DEF IInv, VisitedLotsExhausted
    <2>2. consumed[a.id] = Clamp(Drawn - Start(a, Sources(View)), a.quantity)
      BY <1>1 DEF AttributionInv, FilledInOrder
    <2>3. /\ a.quantity \in Nat /\ a.quantity > 0
          /\ Start(a, Sources(View)) \in Nat
      BY <1>1, Segments
    <2>4. Start(a, Sources(View)) + a.quantity <= Drawn
      BY <1>3, <2>1, <2>2, <2>3 DEF Clamp
    <2> QED BY <2>3, <2>4 DEF Magnitude
  <1>5. Total(Sources(View)) <= Drawn
    BY <1>2, <1>3, <1>4, TotalReached
  <1>6. Drawn < Total(Reached)
    BY <1>1, <1>2 DEF Drawn
  <1> QED BY <1>2, <1>3, <1>5, <1>6 DEF Covered

LEMMA ControlAttribution ==
    AttributionInv /\ (ConsumerCovered \/ Refuse \/ Finish \/ UNCHANGED vars) => AttributionInv'
  <1> SUFFICES ASSUME AttributionInv, ConsumerCovered \/ Refuse \/ Finish \/ UNCHANGED vars
               PROVE  AttributionInv'
    OBVIOUS
  <1>1. UNCHANGED <<rows, alloc, consumed, todo, current, remaining, queue>>
    BY DEF ConsumerCovered, Refuse, Finish, vars
  <1>2. /\ IInv /\ IInv' /\ View' = View /\ Reached' = Reached /\ Drawn' = Drawn
    BY <1>1, ControlInv, ViewFixed DEF AttributionInv, Reached, Drawn
  <1>3. phase' = phase \/ (phase # "wipe" /\ phase' \in {"next", "refused", "done"})
    BY DEF ConsumerCovered, Refuse, Finish, vars
  <1>4. FilledInOrder' /\ OverlapsAllocated'
    BY <1>1, <1>2, <1>3 DEF AttributionInv, FilledInOrder, OverlapsAllocated
  <1>5. QueueUntouched'
    BY <1>1, <1>3 DEF AttributionInv, QueueUntouched
  <1>6. NothingRemains' /\ Outcome'
    <2>1. CASE ConsumerCovered
      <3>1. remaining = 0 /\ phase' = "next"
        BY <1>2, <2>1 DEF IInv, TypeOK, ConsumerCovered
      <3> QED BY <1>1, <3>1 DEF NothingRemains, Outcome
    <2>2. CASE Refuse
      <3>1. phase' = "refused" /\ ~Covered(View)
        BY <2>2, RefuseUncovered DEF Refuse
      <3> QED BY <1>1, <1>2, <3>1 DEF NothingRemains, Outcome
    <2>3. CASE Finish
      <3>1. phase = "next" /\ phase' = "done" /\ todo = {}
        BY <2>3 DEF Finish
      <3> QED BY <1>1, <3>1 DEF AttributionInv, NothingRemains, Outcome
    <2>4. CASE UNCHANGED vars
      BY <1>1, <1>2, <2>4 DEF vars, AttributionInv, NothingRemains, Outcome
    <2> QED BY <2>1, <2>2, <2>3, <2>4
  <1> QED BY <1>2, <1>4, <1>5, <1>6 DEF AttributionInv

\* The inductive invariant of the attribution: laid end to end, the lots are
\* filled up to what is drawn, and every reached disposal has drawn from each
\* lot what their segments share.
THEOREM AttributionInvariance == Spec => []AttributionInv
  <1>1. AttributionInv /\ [Next]_vars => AttributionInv'
    BY WipeAttribution, NextConsumerAttribution, VisitLotAttribution, ControlAttribution DEF Next
  <1> QED BY InitAttribution, <1>1, PTL DEF Spec

-----------------------------------------------------------------------------
(***************************************************************************)
(* The loops implement the abstract recompute.                             *)
(***************************************************************************)

LEMMA MaxOfTwo ==
    ASSUME NEW x \in Int, NEW y \in Int
    PROVE  Max({x, y}) = Greatest(x, y) /\ Min({x, y}) = Least(x, y)
  <1>1. /\ Max({x, y}) \in {x, y} /\ \A z \in {x, y} : Max({x, y}) >= z
    <2>1. \E m \in {x, y} : \A z \in {x, y} : m >= z
      OBVIOUS
    <2> QED BY <2>1 DEF Max
  <1>2. /\ Min({x, y}) \in {x, y} /\ \A z \in {x, y} : Min({x, y}) <= z
    <2>1. \E m \in {x, y} : \A z \in {x, y} : m <= z
      OBVIOUS
    <2> QED BY <2>1 DEF Min
  <1> QED BY <1>1, <1>2 DEF Greatest, Least

\* At the end every allocation is the length that the two segments share.
LEMMA DoneIsAttributed ==
    ASSUME AttributionInv, phase = "done" \/ Finish,
           NEW c \in Consumers(View), NEW b \in Sources(View)
    PROVE  alloc[<<c.id, b.id>>] = Attributed(View, c, b)
  <1>1. TypeOK /\ phase # "wipe" /\ c \in Reached /\ remaining = 0 /\ todo = {}
    BY DEF AttributionInv, IInv, Outcome, NothingRemains, Finish, Reached
  <1>2. Drawn = Total(Consumers(View)) /\ Total(Consumers(View)) \in Nat
    BY <1>1, TotalsOfWalk DEF Drawn, Reached
  <1> DEFINE f == Start(c, Consumers(View))
             g == End(c, Consumers(View))
             x == Start(b, Sources(View))
             y == End(b, Sources(View))
  <1>3. /\ f \in Nat /\ g \in Nat /\ x \in Nat /\ y \in Nat
        /\ g <= Total(Consumers(View))
    BY <1>1, Segments
  <1>4. alloc[<<c.id, b.id>>] = Overlap(f, Least(g, Drawn), x, y)
    BY <1>1 DEF AttributionInv, OverlapsAllocated
  <1>5. Attributed(View, c, b) = Max({0, Min({g, y}) - Max({f, x})})
    BY DEF Attributed, End
  <1> HIDE DEF f, g, x, y
  <1>6. Least(g, Drawn) = g
    BY <1>2, <1>3 DEF Least
  <1>7. /\ Max({f, x}) = Greatest(f, x) /\ Min({g, y}) = Least(g, y)
        /\ Greatest(f, x) \in Int /\ Least(g, y) \in Int
    <2>1. Greatest(f, x) \in Int /\ Least(g, y) \in Int
      BY <1>3 DEF Greatest, Least
    <2>2. f \in Int /\ g \in Int /\ x \in Int /\ y \in Int
      BY <1>3
    <2> QED BY <2>1, <2>2, MaxOfTwo
  <1> DEFINE n == Least(g, y) - Greatest(f, x)
  <1>8. n \in Int
    BY <1>7
  <1>9. Attributed(View, c, b) = Max({0, n}) /\ alloc[<<c.id, b.id>>] = Greatest(0, n)
    BY <1>4, <1>5, <1>6, <1>7 DEF Overlap
  <1> HIDE DEF n
  <1> QED BY <1>8, <1>9, MaxOfTwo

\* The instance speaks of rows, roles and totals as this module does.
LEMMA SameVocabulary ==
    ASSUME NEW v
    PROVE  /\ Attribution!Consumers(v) = Consumers(v)
           /\ Attribution!Sources(v) = Sources(v)
           /\ Attribution!Total(v) = Total(v)
  BY DEF Attribution!Consumers, Consumers, Attribution!Sources, Sources,
         Attribution!IsLotConsuming, IsLotConsuming, Attribution!IsLotSource, IsLotSource,
         Attribution!DisposalTypes, DisposalTypes, Attribution!LotSourceTypes, LotSourceTypes,
         Attribution!Total, Total, Attribution!Magnitude, Magnitude,
         Attribution!MapThenSumSet, MapThenSumSet, Attribution!MapThenFoldSet, MapThenFoldSet

LEMMA SameAttribution ==
    ASSUME NEW c, NEW b
    PROVE  /\ Attribution!Covered(View) <=> Covered(View)
           /\ Attribution!Attributed(View, c, b) = Attributed(View, c, b)
  <1>1. \A r, S : Attribution!Start(r, S) = Start(r, S)
    BY SameVocabulary DEF Attribution!Start, Start, Attribution!Precedes, Precedes
  <1>2. Attribution!Covered(View) <=> Covered(View)
    BY SameVocabulary DEF Attribution!Covered, Covered
  <1>3. \A q : Attribution!Magnitude(q) = Magnitude(q)
    BY DEF Attribution!Magnitude, Magnitude
  <1>4. \A S : Attribution!Max(S) = Max(S) /\ Attribution!Min(S) = Min(S)
    BY DEF Attribution!Max, Max, Attribution!Min, Min
  <1>5. Attribution!Attributed(View, c, b) = Attributed(View, c, b)
    BY <1>1, <1>3, <1>4, SameVocabulary DEF Attribution!Attributed, Attributed
  <1> QED BY <1>2, <1>5

\* The pairs of a disposal and a lot under given ids.
PairsUnder(i, j) ==
    {q \in Consumers(View) \X Sources(View) : q[1].id = i /\ q[2].id = j}

\* The abstract attribution at one pair of ids, as a sum over those pairs.
LEMMA CanonicalIsSum ==
    ASSUME TypeOK, NEW i \in Ids, NEW j \in Ids,
           NEW f, \A q \in PairsUnder(i, j) :
                      f[q] = Attributed(View, q[1], q[2]) /\ f[q] \in Int
    PROVE  Attribution!Canonical[<<i, j>>] = SumOf(f, PairsUnder(i, j))
  <1> DEFINE P == PairsUnder(i, j)
             sum[s \in SUBSET P] ==
                 IF s = {} THEN 0
                 ELSE LET x == CHOOSE x \in s : TRUE
                      IN  Attribution!Attributed(View, x[1], x[2]) + sum[s \ {x}]
  <1>1. Attribution!Canonical[<<i, j>>] = sum[P]
    <2>1. <<i, j>> \in Ids \X Ids /\ <<i, j>>[1] = i /\ <<i, j>>[2] = j
      OBVIOUS
    <2>2. P = {q \in Attribution!Consumers(View) \X Attribution!Sources(View) :
                    q[1].id = <<i, j>>[1] /\ q[2].id = <<i, j>>[2]}
      BY SameVocabulary DEF PairsUnder
    <2> HIDE DEF P
    <2> QED BY <2>1, <2>2 DEF Attribution!Canonical, Attribution!MapThenSumSet,
                              Attribution!MapThenFoldSet
  <1>2. IsFiniteSet(P)
    <2>1. IsFiniteSet(Consumers(View) \X Sources(View))
      BY ViewIsRows, FS_Product DEF IsRows
    <2> QED BY <2>1, FS_Subset DEF PairsUnder
  <1>3. \A h : \A s \in SUBSET P :
            AddUp(f, h, s) = IF s = {} THEN 0
                             ELSE LET x == CHOOSE x \in s : TRUE
                                  IN  Attribution!Attributed(View, x[1], x[2]) + h[s \ {x}]
    <2> TAKE h
    <2> TAKE s \in SUBSET P
    <2>1. CASE s = {}
      BY <2>1 DEF AddUp
    <2>2. CASE s # {}
      <3>1. AnyOf(s) \in P
        BY <2>2 DEF AnyOf
      <3>2. f[AnyOf(s)] = Attribution!Attributed(View, AnyOf(s)[1], AnyOf(s)[2])
        BY <3>1, SameAttribution
      <3>3. AddUp(f, h, s) = Attribution!Attributed(View, AnyOf(s)[1], AnyOf(s)[2]) + h[s \ {AnyOf(s)}]
        BY <2>2, <3>2 DEF AddUp
      <3> QED BY <2>2, <3>3 DEF AnyOf
    <2> QED BY <2>1, <2>2
  <1>4. PICK h : IsSum(h, f, P)
    BY <1>2, SumExists
  <1>5. h = [s \in SUBSET P |->
                IF s = {} THEN 0
                ELSE LET x == CHOOSE x \in s : TRUE
                     IN  Attribution!Attributed(View, x[1], x[2]) + h[s \ {x}]]
    BY <1>3, <1>4 DEF IsSum
  <1>6. sum = [s \in SUBSET P |->
                  IF s = {} THEN 0
                  ELSE LET x == CHOOSE x \in s : TRUE
                       IN  Attribution!Attributed(View, x[1], x[2]) + sum[s \ {x}]]
    <2> DEFINE Is(u) == u = [s \in SUBSET P |->
                                IF s = {} THEN 0
                                ELSE LET x == CHOOSE x \in s : TRUE
                                     IN  Attribution!Attributed(View, x[1], x[2]) + u[s \ {x}]]
    <2>1. Is(h)
      BY ONLY <1>5
    <2>2. sum = CHOOSE u : Is(u)
      OBVIOUS
    <2> HIDE DEF sum, Is
    <2>3. Is(sum)
      BY ONLY <2>1, <2>2
    <2> QED BY ONLY <2>3 DEF Is
  <1> HIDE DEF sum
  <1>7. IsSum(sum, f, P)
    BY <1>3, <1>6 DEF IsSum
  <1> HIDE DEF P
  <1>8. \A q \in P : f[q] \in Int
    BY DEF P
  <1>9. PICK k : IsSum(k, f, P) /\ SumOf(f, P) = k[P]
    BY <1>2, <1>8, SumOfSum
  <1>10. sum[P] = k[P]
    BY <1>2, <1>7, <1>8, <1>9, SumUnique
  <1> QED BY <1>1, <1>9, <1>10 DEF P

\* The loops leave exactly the abstract attribution behind.
LEMMA DoneIsCanonical ==
    ASSUME AttributionInv, phase = "done" \/ Finish
    PROVE  alloc = Attribution!Canonical
  <1>1. TypeOK /\ phase # "wipe" /\ todo = {} /\ AllocationsReached
    BY DEF AttributionInv, IInv, Outcome, Finish
  <1>2. ASSUME NEW i \in Ids, NEW j \in Ids
        PROVE  alloc[<<i, j>>] = Attribution!Canonical[<<i, j>>]
    <2> DEFINE P == PairsUnder(i, j)
               f == [q \in P |-> Attributed(View, q[1], q[2])]
    <2>1. alloc[<<i, j>>] \in Nat
      BY <1>1 DEF TypeOK
    <2>2. \A q \in P : f[q] = Attributed(View, q[1], q[2]) /\ f[q] = alloc[<<i, j>>]
      <3> SUFFICES ASSUME NEW q \in P PROVE f[q] = alloc[<<i, j>>]
        OBVIOUS
      <3>1. q[1] \in Consumers(View) /\ q[2] \in Sources(View) /\ q[1].id = i /\ q[2].id = j
        BY DEF PairsUnder
      <3> QED BY <3>1, DoneIsAttributed
    <2>3. Attribution!Canonical[<<i, j>>] = SumOf(f, P)
      <3> HIDE DEF f
      <3> QED BY <1>1, <2>1, <2>2, CanonicalIsSum
    <2>4. CASE P = {}
      <3>1. alloc[<<i, j>>] = 0
        <4> SUFFICES ASSUME alloc[<<i, j>>] > 0 PROVE FALSE
          BY <2>1
        <4>1. PICK c \in Reached : c.id = i
          BY <1>1 DEF AllocationsReached
        <4>2. PICK b \in Sources(View) : b.id = j
          BY <1>1 DEF AllocationsReached
        <4>3. <<c, b>> \in P
          BY <4>1, <4>2 DEF PairsUnder, Reached
        <4> QED BY <2>4, <4>3
      <3> QED BY <2>3, <2>4, <3>1, SumOfEmpty
    <2>5. CASE P # {}
      <3>1. PICK q \in P : TRUE
        BY <2>5
      <3>2. P = {q}
        <4>1. ASSUME NEW r \in P PROVE r = q
          <5>1. /\ q[1] \in View /\ q[2] \in View /\ r[1] \in View /\ r[2] \in View
                /\ q = <<q[1], q[2]>> /\ r = <<r[1], r[2]>>
                /\ q[1].id = r[1].id /\ q[2].id = r[2].id
            BY DEF PairsUnder, Consumers, Sources
          <5>2. q[1] = r[1] /\ q[2] = r[2]
            BY <1>1, <5>1, ViewRows
          <5> QED BY <5>1, <5>2
        <4> QED BY <4>1
      <3>3. f[q] = alloc[<<i, j>>]
        BY <2>2
      <3> HIDE DEF f
      <3>4. SumOf(f, {} \cup {q}) = f[q] + SumOf(f, {})
        <4>1. IsFiniteSet({}) /\ q \notin {} /\ f[q] \in Int /\ \A y \in {} : f[y] \in Int
          BY <2>1, <3>3, FS_EmptySet
        <4> QED BY <4>1, SumOfAdd
      <3>5. P = {} \cup {q}
        BY <3>2
      <3> HIDE DEF P
      <3> QED BY <2>1, <2>3, <3>3, <3>4, <3>5, SumOfEmpty
    <2> QED BY <2>4, <2>5
  <1>3. /\ alloc = [p \in Ids \X Ids |-> alloc[p]]
        /\ Attribution!Canonical = [p \in Ids \X Ids |-> Attribution!Canonical[p]]
    BY <1>1 DEF TypeOK, Attribution!Canonical
  <1>4. \A p \in Ids \X Ids : alloc[p] = Attribution!Canonical[p]
    <2> TAKE p \in Ids \X Ids
    <2>1. p[1] \in Ids /\ p[2] \in Ids /\ p = <<p[1], p[2]>>
      OBVIOUS
    <2>2. alloc[<<p[1], p[2]>>] = Attribution!Canonical[<<p[1], p[2]>>]
      BY <1>2, <2>1
    <2> QED BY <2>1, <2>2
  <1> QED BY <1>3, <1>4

\* The disposals are covered when the loops finish.
LEMMA DoneIsCovered ==
    ASSUME AttributionInv, Finish
    PROVE  Covered(View)
  <1>1. TypeOK /\ phase = "next" /\ todo = {} /\ remaining = 0
    BY DEF AttributionInv, IInv, NothingRemains, Finish
  <1>2. Drawn = Total(Consumers(View))
    BY <1>1, TotalsOfWalk DEF Drawn, Reached
  <1> QED BY <1>1, <1>2 DEF AttributionInv, FilledInOrder, Covered

\* Seen from outside, the loops of recompute_fifo_for_pair are one step: they
\* attribute the position by overlap, or refuse it because its lots do not
\* cover its disposals, whatever the rows, dates and quantities.
THEOREM Refinement == Spec => ImplementsAttribution
  <1> DEFINE ViewOf == View
             Result == IF phase = "done" THEN alloc ELSE NoAllocations
             Pending == CASE phase = "done"    -> "attributed"
                          [] phase = "refused" -> "refused"
                          [] OTHER             -> "pending"
  <1>1. Init => Attribution!Init
    BY DEF Init, Attribution!Init, NoAllocations
  <1>2. AttributionInv /\ [Next]_vars
            => [Attribution!Next]_<<ViewOf, Result, Pending>>
    <2> SUFFICES ASSUME AttributionInv, [Next]_vars
                 PROVE  [Attribution!Next]_<<ViewOf, Result, Pending>>
      OBVIOUS
    <2>1. View' = View
      <3>1. rows' = rows
        BY DEF Next, Wipe, NextConsumer, VisitLot, ConsumerCovered, Refuse, Finish, vars
      <3> QED BY <3>1, ViewFixed
    <2>2. CASE Finish
      <3>1. phase = "next" /\ phase' = "done" /\ alloc' = alloc
        BY <2>2 DEF Finish
      <3>2. alloc = Attribution!Canonical /\ Attribution!Covered(View)
        BY <2>2, DoneIsCanonical, DoneIsCovered, SameAttribution
      <3>3. Attribution!Attribute
        BY <2>1, <3>1, <3>2 DEF Attribution!Attribute
      <3> QED BY <3>3 DEF Attribution!Next
    <2>3. CASE Refuse
      <3>1. phase = "match" /\ phase' = "refused"
        BY <2>3 DEF Refuse
      <3>2. ~Attribution!Covered(View)
        BY <2>3, RefuseUncovered, SameAttribution
      <3>3. Attribution!Refuse
        BY <2>1, <3>1, <3>2 DEF Attribution!Refuse
      <3> QED BY <3>3 DEF Attribution!Next
    <2>4. CASE Wipe \/ NextConsumer \/ VisitLot \/ ConsumerCovered
      <3>1. phase \in {"wipe", "next", "match"} /\ phase' \in {"next", "match"}
        BY <2>4 DEF Wipe, NextConsumer, VisitLot, ConsumerCovered
      <3>2. Result' = Result /\ Pending' = Pending
        BY <3>1 DEF NoAllocations
      <3> QED BY <2>1, <3>2
    <2>5. CASE UNCHANGED vars
      <3>1. phase' = phase /\ alloc' = alloc
        BY <2>5 DEF vars
      <3> QED BY <2>1, <3>1 DEF NoAllocations
    <2> QED BY <2>2, <2>3, <2>4, <2>5 DEF Next
  <1> QED BY <1>1, <1>2, AttributionInvariance, PTL DEF Spec, ImplementsAttribution, Attribution!Spec

-----------------------------------------------------------------------------
(***************************************************************************)
(* What is consumed of a lot is what the allocations take of it, and in    *)
(* all it is what is drawn.                                                *)
(***************************************************************************)

Column(j) == [i \in Ids |-> alloc[<<i, j>>]]

ColumnsAddUp ==
    phase # "wipe" => \A j \in Ids : consumed[j] = SumOf(Column(j), Ids)

ConsumedIsDrawn == phase # "wipe" => SumOf(consumed, Ids) = Drawn

\* Only live lots are consumed.
LotsConsumed == \A j \in Ids : consumed[j] > 0 => \E b \in Sources(View) : b.id = j

HoldingInv ==
    /\ AttributionInv
    /\ rows \in [Ids -> RowChoices]
    /\ ColumnsAddUp
    /\ ConsumedIsDrawn
    /\ LotsConsumed

LEMMA InitHolding == Init => HoldingInv
  BY InitAttribution DEF Init, HoldingInv, ColumnsAddUp, ConsumedIsDrawn, LotsConsumed

LEMMA WipeHolding == HoldingInv /\ Wipe => HoldingInv'
  <1> SUFFICES ASSUME HoldingInv, Wipe PROVE HoldingInv'
    OBVIOUS
  <1>1. AttributionInv' /\ rows' = rows /\ View' = View /\ remaining = 0 /\ remaining' = remaining
    BY WipeAttribution, ViewFixed DEF HoldingInv, AttributionInv, NothingRemains, Wipe
  <1>2. consumed' = [i \in Ids |-> 0] /\ alloc' = NoAllocations /\ Reached' = {}
    BY <1>1 DEF Wipe, Reached
  <1>3. Drawn' = 0
    BY <1>1, <1>2, TotalEmpty DEF Drawn
  <1>4. SumOf(consumed', Ids) = 0
    BY <1>2, IdsAssumption, SumOfZero
  <1>5. ASSUME NEW j \in Ids PROVE SumOf(Column(j)', Ids) = 0
    <2>1. \A i \in Ids : Column(j)'[i] = 0
      BY <1>2 DEF Column, NoAllocations
    <2> QED BY <2>1, IdsAssumption, SumOfZero
  <1>6. ColumnsAddUp'
    BY <1>2, <1>5 DEF ColumnsAddUp
  <1> QED BY <1>1, <1>2, <1>3, <1>4, <1>6 DEF HoldingInv, ConsumedIsDrawn, LotsConsumed

LEMMA VisitLotHolding == HoldingInv /\ VisitLot => HoldingInv'
  <1> SUFFICES ASSUME HoldingInv, VisitLot PROVE HoldingInv'
    OBVIOUS
  <1>1. /\ AttributionInv /\ AttributionInv' /\ TypeOK /\ View' = View /\ Reached' = Reached
        /\ rows' = rows
    BY VisitLotAttribution, ViewFixed DEF HoldingInv, AttributionInv, IInv, Reached, VisitLot
  <1>2. PICK b \in queue :
          LET available == b.quantity - consumed[b.id]
              matched   == IF remaining < available THEN remaining ELSE available
          IN  IF available <= 0
              THEN UNCHANGED <<alloc, consumed, remaining>>
              ELSE /\ alloc' = [alloc EXCEPT ![<<current, b.id>>] = matched]
                   /\ consumed' = [consumed EXCEPT ![b.id] = @ + matched]
                   /\ remaining' = remaining - matched
    BY DEF VisitLot, FirstInQueue, Available, Draw
  <1>3. phase = "match" /\ phase' = "match" /\ remaining > 0 /\ current' = current
    BY DEF VisitLot
  <1>4. /\ alloc \in [Ids \X Ids -> Nat] /\ consumed \in [Ids -> Nat]
        /\ remaining \in Nat /\ queue \subseteq Sources(View) /\ Total(Reached) \in Nat
    BY <1>1, TotalsOfWalk DEF TypeOK
  <1>5. b \in Sources(View) /\ b.id \in Ids /\ b.quantity \in Nat /\ b.quantity > 0
    BY <1>1, <1>4, Segments
  <1>6. current \in Ids
    <2>1. PICK c \in Reached : c.id = current
      BY <1>1, <1>3, WithinCurrent DEF AttributionInv
    <2> QED BY <1>1, <2>1, Segments DEF Reached
  <1>7. alloc[<<current, b.id>>] = 0
    BY <1>1, <1>3 DEF AttributionInv, QueueUntouched
  <1>8. /\ \A j \in Ids : consumed[j] = SumOf(Column(j), Ids)
        /\ SumOf(consumed, Ids) = Drawn
    BY <1>3 DEF HoldingInv, ColumnsAddUp, ConsumedIsDrawn
  <1>9. CASE b.quantity - consumed[b.id] <= 0
    <2>1. UNCHANGED <<alloc, consumed, remaining>>
      BY <1>2, <1>9
    <2>2. Drawn' = Drawn /\ \A j \in Ids : Column(j)' = Column(j)
      BY <1>1, <2>1 DEF Drawn, Column
    <2> QED BY <1>1, <1>3, <2>1, <2>2
            DEF HoldingInv, ColumnsAddUp, ConsumedIsDrawn, LotsConsumed
  <1>10. CASE b.quantity - consumed[b.id] > 0
    <2> DEFINE available == b.quantity - consumed[b.id]
               m == IF remaining < available THEN remaining ELSE available
    <2>1. /\ alloc' = [alloc EXCEPT ![<<current, b.id>>] = m]
          /\ consumed' = [consumed EXCEPT ![b.id] = @ + m]
          /\ remaining' = remaining - m
      BY <1>2, <1>4, <1>5, <1>10
    <2>2. m \in Nat
      BY <1>4, <1>5, <1>10
    <2> HIDE DEF m
    <2>3. /\ consumed'[b.id] = consumed[b.id] + m
          /\ \A j \in Ids \ {b.id} : consumed'[j] = consumed[j]
          /\ alloc'[<<current, b.id>>] = m
          /\ \A i, j \in Ids : i # current \/ j # b.id => alloc'[<<i, j>>] = alloc[<<i, j>>]
      BY <1>4, <1>5, <1>6, <2>1
    <2>4. Drawn' = Drawn + m
      BY <1>1, <1>4, <2>1, <2>2 DEF Drawn
    <2>5. SumOf(consumed', Ids) = Drawn + m
      <3>1. (\A j \in Ids : consumed[j] \in Int) /\ consumed'[b.id] \in Int
        BY <1>4, <1>5, <2>2, <2>3
      <3> DEFINE before == consumed
                 after == consumed'
                 x == b.id
      <3> HIDE DEF before, after, x
      <3>a. SumOf(after, Ids) = SumOf(before, Ids) + after[x] - before[x]
        <4>1. /\ \A j \in Ids : before[j] \in Int
              /\ after[x] \in Int /\ IsFiniteSet(Ids) /\ x \in Ids
              /\ \A j \in Ids \ {x} : after[j] = before[j]
          BY <1>5, <2>3, <3>1, IdsAssumption DEF before, after, x
        <4> QED BY <4>1, SumOfChange
      <3>2. SumOf(consumed', Ids) = SumOf(consumed, Ids) + consumed'[b.id] - consumed[b.id]
        BY <3>a DEF before, after, x
      <3>3. Drawn \in Int /\ consumed[b.id] \in Int
        BY <1>1, <1>5, <3>1, TotalsOfWalk
      <3> QED BY <1>8, <2>2, <2>3, <3>2, <3>3
    <2>6. ASSUME NEW j \in Ids PROVE consumed'[j] = SumOf(Column(j)', Ids)
      <3>1. \A i \in Ids : /\ Column(j)[i] = alloc[<<i, j>>] /\ Column(j)[i] \in Int
                           /\ Column(j)'[i] = alloc'[<<i, j>>]
        BY <1>4 DEF Column
      <3>2. CASE j = b.id
        <4>1. /\ Column(j)[current] = 0 /\ Column(j)'[current] = m
              /\ \A i \in Ids \ {current} : Column(j)'[i] = Column(j)[i]
          BY <1>5, <1>6, <1>7, <2>3, <3>1, <3>2, ZenonT(60)
        <4> DEFINE before == Column(j)
                   after == Column(j)'
        <4> HIDE DEF before, after
        <4>a. SumOf(after, Ids) = SumOf(before, Ids) + after[current] - before[current]
          <5>1. \A i \in Ids : before[i] \in Int
            BY <3>1 DEF before
          <5>2. after[current] \in Int
            BY <2>2, <4>1 DEF after
          <5>3. \A i \in Ids \ {current} : after[i] = before[i]
            BY <4>1 DEF before, after
          <5>4. IsFiniteSet(Ids)
            BY IdsAssumption
          <5> QED BY <1>6, <5>1, <5>2, <5>3, <5>4, SumOfChange
        <4>2. SumOf(Column(j)', Ids) =
                  SumOf(Column(j), Ids) + Column(j)'[current] - Column(j)[current]
          BY <4>a DEF before, after
        <4>3. consumed[j] \in Int /\ consumed[j] = SumOf(Column(j), Ids)
          BY <1>4, <1>8
        <4> QED BY <2>2, <2>3, <3>2, <4>1, <4>2, <4>3
      <3>3. CASE j # b.id
        <4>1. \A i \in Ids : Column(j)'[i] = Column(j)[i]
          BY <1>5, <2>3, <3>1, <3>3
        <4>2. SumOf(Column(j)', Ids) = SumOf(Column(j), Ids)
          BY <3>1, <4>1, IdsAssumption, SumOfSame
        <4> QED BY <1>8, <2>3, <3>3, <4>2
      <3> QED BY <3>2, <3>3
    <2>7. LotsConsumed'
      <3> SUFFICES ASSUME NEW j \in Ids, consumed'[j] > 0
                   PROVE  \E s \in Sources(View) : s.id = j
        BY <1>1 DEF LotsConsumed
      <3> QED BY <1>5, <2>3 DEF HoldingInv, LotsConsumed
    <2> QED BY <1>1, <2>4, <2>5, <2>6, <2>7 DEF HoldingInv, ColumnsAddUp, ConsumedIsDrawn
  <1> QED BY <1>4, <1>5, <1>9, <1>10

LEMMA ControlHolding ==
    HoldingInv /\ (NextConsumer \/ ConsumerCovered \/ Refuse \/ Finish \/ UNCHANGED vars)
        => HoldingInv'
  <1> SUFFICES ASSUME HoldingInv,
                      NextConsumer \/ ConsumerCovered \/ Refuse \/ Finish \/ UNCHANGED vars
               PROVE  HoldingInv'
    OBVIOUS
  <1>1. /\ AttributionInv /\ AttributionInv' /\ rows' = rows
        /\ alloc' = alloc /\ consumed' = consumed
    BY NextConsumerAttribution, ControlAttribution
    DEF HoldingInv, NextConsumer, ConsumerCovered, Refuse, Finish, vars
  <1>2. View' = View /\ \A j \in Ids : Column(j)' = Column(j)
    BY <1>1, ViewFixed DEF Column
  <1>3. Drawn' = Drawn
    <2>1. CASE NextConsumer
      BY <1>1, <2>1, NextConsumerDraws
    <2>2. CASE ConsumerCovered \/ Refuse \/ Finish \/ UNCHANGED vars
      BY <1>2, <2>2 DEF Drawn, Reached, ConsumerCovered, Refuse, Finish, vars
    <2> QED BY <2>1, <2>2
  <1>4. phase' # "wipe" => phase # "wipe"
    BY DEF NextConsumer, ConsumerCovered, Refuse, Finish, vars
  <1> QED BY <1>1, <1>2, <1>3, <1>4
          DEF HoldingInv, ColumnsAddUp, ConsumedIsDrawn, LotsConsumed

\* The inductive invariant of the holding: every lot's consumption is the sum
\* of its allocations, and all consumption is what the walk has drawn.
THEOREM HoldingInvariance == Spec => []HoldingInv
  <1>1. HoldingInv /\ [Next]_vars => HoldingInv'
    BY WipeHolding, VisitLotHolding, ControlHolding DEF Next
  <1> QED BY InitHolding, <1>1, PTL DEF Spec

LEMMA ColumnSummed ==
    ASSUME TypeOK, NEW b, b.id \in Ids
    PROVE  MapThenSumSet(LAMBDA i : alloc[<<i, b.id>>], Ids) = SumOf(Column(b.id), Ids)
  <1> DEFINE f == Column(b.id)
             sum[s \in SUBSET Ids] ==
                 IF s = {} THEN 0
                 ELSE LET x == CHOOSE x \in s : TRUE IN alloc[<<x, b.id>>] + sum[s \ {x}]
  <1>1. MapThenSumSet(LAMBDA i : alloc[<<i, b.id>>], Ids) = sum[Ids]
    BY DEF MapThenSumSet, MapThenFoldSet
  <1>2. \A i \in Ids : f[i] = alloc[<<i, b.id>>] /\ f[i] \in Int
    BY DEF TypeOK, Column
  <1>3. \A h : \A s \in SUBSET Ids :
            AddUp(f, h, s) = IF s = {} THEN 0
                             ELSE LET x == CHOOSE x \in s : TRUE
                                  IN  alloc[<<x, b.id>>] + h[s \ {x}]
    <2> HIDE DEF f
    <2> TAKE h
    <2> TAKE s \in SUBSET Ids
    <2>1. CASE s = {}
      BY <2>1 DEF AddUp
    <2>2. CASE s # {}
      <3>1. AnyOf(s) \in Ids
        BY <2>2 DEF AnyOf
      <3>2. AddUp(f, h, s) = alloc[<<AnyOf(s), b.id>>] + h[s \ {AnyOf(s)}]
        BY <1>2, <2>2, <3>1 DEF AddUp
      <3> QED BY <2>2, <3>2 DEF AnyOf
    <2> QED BY <2>1, <2>2
  <1> HIDE DEF f
  <1>4. PICK h : IsSum(h, f, Ids)
    BY <1>2, IdsAssumption, SumExists
  <1>5. h = [s \in SUBSET Ids |->
                IF s = {} THEN 0
                ELSE LET x == CHOOSE x \in s : TRUE IN alloc[<<x, b.id>>] + h[s \ {x}]]
    BY <1>3, <1>4 DEF IsSum
  <1>6. sum = [s \in SUBSET Ids |->
                  IF s = {} THEN 0
                  ELSE LET x == CHOOSE x \in s : TRUE IN alloc[<<x, b.id>>] + sum[s \ {x}]]
    <2> DEFINE Is(u) == u = [s \in SUBSET Ids |->
                                IF s = {} THEN 0
                                ELSE LET x == CHOOSE x \in s : TRUE IN alloc[<<x, b.id>>] + u[s \ {x}]]
    <2>1. Is(h)
      BY ONLY <1>5
    <2>2. sum = CHOOSE u : Is(u)
      OBVIOUS
    <2> HIDE DEF sum, Is
    <2>3. Is(sum)
      BY ONLY <2>1, <2>2
    <2> QED BY ONLY <2>3 DEF Is
  <1> HIDE DEF sum
  <1>7. IsSum(sum, f, Ids)
    BY <1>3, <1>6, ZenonT(40) DEF IsSum
  <1>8. PICK k : IsSum(k, f, Ids) /\ SumOf(f, Ids) = k[Ids]
    BY <1>2, IdsAssumption, SumOfSum
  <1>9. sum[Ids] = k[Ids]
    <2>1. IsFiniteSet(Ids) /\ Ids \subseteq Ids /\ \A i \in Ids : f[i] \in Int
      BY <1>2, IdsAssumption
    <2>2. \A i \in Ids : f[i] = f[i]
      OBVIOUS
    <2> QED BY <2>1, <2>2, <1>7, <1>8, SumUnique
  <1> QED BY <1>1, <1>8, <1>9 DEF f

\* What match_lots_for_sell reads as consumed of a lot is the sum of the
\* lot_alloc rows that name it, at every point of the walk.
THEOREM ConsumedIsTheAllocations == Spec => []ConsumedIsAllocated
  <1>1. HoldingInv => ConsumedIsAllocated
    <2> SUFFICES ASSUME HoldingInv, phase # "wipe", NEW b \in Sources(View)
                 PROVE  consumed[b.id] = MapThenSumSet(LAMBDA i : alloc[<<i, b.id>>], Ids)
      BY Zenon DEF ConsumedIsAllocated
    <2>1. TypeOK /\ b.id \in Ids
      BY Segments DEF HoldingInv, AttributionInv, IInv
    <2>2. consumed[b.id] = SumOf(Column(b.id), Ids)
      BY <2>1 DEF HoldingInv, ColumnsAddUp
    <2> QED BY <2>1, <2>2, ColumnSummed
  <1> QED BY <1>1, HoldingInvariance, PTL

-----------------------------------------------------------------------------
(***************************************************************************)
(* The holding, from the lots and from the signed quantities.              *)
(***************************************************************************)

Quantity == [i \in Ids |-> rows[i].quantity]

OpenUnits == [b \in Sources(View) |-> b.quantity - consumed[b.id]]

\* Stored quantities, as the property adds them up.
LEMMA QuantitiesSummed ==
    ASSUME TypeOK, NEW I, I \subseteq Ids
    PROVE  MapThenSumSet(LAMBDA i : rows[i].quantity, I) = SumOf(Quantity, I)
  <1> DEFINE S == I
             sum[s \in SUBSET S] ==
                 IF s = {} THEN 0
                 ELSE LET x == CHOOSE x \in s : TRUE IN rows[x].quantity + sum[s \ {x}]
  <1>1. MapThenSumSet(LAMBDA i : rows[i].quantity, S) = sum[S]
    BY DEF MapThenSumSet, MapThenFoldSet
  <1>2. /\ IsFiniteSet(S)
        /\ \A i \in S : Quantity[i] = rows[i].quantity /\ Quantity[i] \in Int
    BY IdsAssumption, FS_Subset DEF TypeOK, Quantity
  <1> HIDE DEF S
  <1>3. \A h : \A s \in SUBSET S :
            AddUp(Quantity, h, s) = IF s = {} THEN 0
                ELSE LET x == CHOOSE x \in s : TRUE IN rows[x].quantity + h[s \ {x}]
    <2> TAKE h
    <2> TAKE s \in SUBSET S
    <2>1. CASE s = {}
      BY <2>1 DEF AddUp
    <2>2. CASE s # {}
      <3>1. AnyOf(s) \in S
        BY <2>2 DEF AnyOf
      <3>2. AddUp(Quantity, h, s) = rows[AnyOf(s)].quantity + h[s \ {AnyOf(s)}]
        <4>1. Quantity[AnyOf(s)] = rows[AnyOf(s)].quantity
          BY <1>2, <3>1
        <4> QED BY <2>2, <4>1 DEF AddUp
      <3> QED BY <2>2, <3>2 DEF AnyOf
    <2> QED BY <2>1, <2>2
  <1>4. PICK h : IsSum(h, Quantity, S)
    BY <1>2, SumExists
  <1>5. h = [s \in SUBSET S |->
                IF s = {} THEN 0
                ELSE LET x == CHOOSE x \in s : TRUE IN rows[x].quantity + h[s \ {x}]]
    BY <1>3, <1>4 DEF IsSum
  <1>6. sum = [s \in SUBSET S |->
                  IF s = {} THEN 0
                  ELSE LET x == CHOOSE x \in s : TRUE IN rows[x].quantity + sum[s \ {x}]]
    BY <1>5
  <1> HIDE DEF sum
  <1>7. IsSum(sum, Quantity, S)
    BY <1>3, <1>6 DEF IsSum
  <1>8. PICK k : IsSum(k, Quantity, S) /\ SumOf(Quantity, S) = k[S]
    BY <1>2, SumOfSum
  <1>9. sum[S] = k[S]
    BY <1>2, <1>7, <1>8, SumUnique
  <1> QED BY <1>1, <1>8, <1>9 DEF S

\* What the lots have left.
LEMMA OpenSummed ==
    ASSUME TypeOK
    PROVE  MapThenSumSet(LAMBDA b : b.quantity - consumed[b.id], Sources(View)) = SumOf(OpenUnits, Sources(View))
  <1> DEFINE S == Sources(View)
             sum[s \in SUBSET S] ==
                 IF s = {} THEN 0
                 ELSE LET x == CHOOSE x \in s : TRUE IN (x.quantity - consumed[x.id]) + sum[s \ {x}]
  <1>1. MapThenSumSet(LAMBDA b : b.quantity - consumed[b.id], S) = sum[S]
    BY DEF MapThenSumSet, MapThenFoldSet
  <1>2. /\ IsFiniteSet(S)
        /\ \A i \in S : OpenUnits[i] = (i.quantity - consumed[i.id]) /\ OpenUnits[i] \in Int
    <2>1. IsFiniteSet(S)
      BY ViewIsRows DEF IsRows
    <2>2. \A i \in S : OpenUnits[i] = (i.quantity - consumed[i.id])
      BY DEF OpenUnits
    <2>3. ASSUME NEW i \in S PROVE OpenUnits[i] \in Int
      <3>1. i.quantity \in Nat /\ i.id \in Ids
        BY Segments
      <3>2. consumed[i.id] \in Nat
        BY <3>1 DEF TypeOK
      <3> HIDE DEF S
      <3> QED BY <2>2, <3>1, <3>2
    <2> QED BY <2>1, <2>2, <2>3
  <1> HIDE DEF S
  <1>3. \A h : \A s \in SUBSET S :
            AddUp(OpenUnits, h, s) = IF s = {} THEN 0
                ELSE LET x == CHOOSE x \in s : TRUE IN (x.quantity - consumed[x.id]) + h[s \ {x}]
    <2> TAKE h
    <2> TAKE s \in SUBSET S
    <2>1. CASE s = {}
      BY <2>1 DEF AddUp
    <2>2. CASE s # {}
      <3>1. AnyOf(s) \in S
        BY <2>2 DEF AnyOf
      <3>2. AddUp(OpenUnits, h, s) = (AnyOf(s).quantity - consumed[AnyOf(s).id]) + h[s \ {AnyOf(s)}]
        <4>1. OpenUnits[AnyOf(s)] = (AnyOf(s).quantity - consumed[AnyOf(s).id])
          BY <1>2, <3>1
        <4> QED BY <2>2, <4>1 DEF AddUp
      <3> QED BY <2>2, <3>2 DEF AnyOf
    <2> QED BY <2>1, <2>2
  <1>4. PICK h : IsSum(h, OpenUnits, S)
    BY <1>2, SumExists
  <1>5. h = [s \in SUBSET S |->
                IF s = {} THEN 0
                ELSE LET x == CHOOSE x \in s : TRUE IN (x.quantity - consumed[x.id]) + h[s \ {x}]]
    BY <1>3, <1>4 DEF IsSum
  <1>6. sum = [s \in SUBSET S |->
                  IF s = {} THEN 0
                  ELSE LET x == CHOOSE x \in s : TRUE IN (x.quantity - consumed[x.id]) + sum[s \ {x}]]
    <2> DEFINE Is(u) == u = [s \in SUBSET S |->
                                IF s = {} THEN 0
                                ELSE LET x == CHOOSE x \in s : TRUE IN (x.quantity - consumed[x.id]) + u[s \ {x}]]
    <2>1. Is(h)
      BY ONLY <1>5
    <2>2. sum = CHOOSE u : Is(u)
      OBVIOUS
    <2> HIDE DEF sum, Is
    <2>3. Is(sum)
      BY ONLY <2>1, <2>2
    <2> QED BY ONLY <2>3 DEF Is
  <1> HIDE DEF sum
  <1>7. IsSum(sum, OpenUnits, S)
    BY <1>3, <1>6, ZenonT(40) DEF IsSum
  <1>8. PICK k : IsSum(k, OpenUnits, S) /\ SumOf(OpenUnits, S) = k[S]
    BY <1>2, SumOfSum
  <1>9. sum[S] = k[S]
    BY <1>2, <1>7, <1>8, SumUnique
  <1> QED BY <1>1, <1>8, <1>9 DEF S

\* Adding up the rows under some ids, by row or by id.
LEMMA TotalByIds ==
    ASSUME TypeOK, NEW I, I \subseteq {i \in Ids : IsMatchable(rows[i])},
           NEW f, \A i \in I : f[i] = Magnitude(rows[i].quantity)
    PROVE  Total({LotRow(i, rows[i]) : i \in I}) = SumOf(f, I)
  <1> DEFINE S == {LotRow(i, rows[i]) : i \in I}
             e == [i \in I |-> LotRow(i, rows[i])]
  <1>1. /\ e \in [I -> S]
        /\ \A x, y \in I : e[x] = e[y] => x = y
        /\ \A z \in S : \E x \in I : e[x] = z
    BY DEF LotRow
  <1>2. \A i \in I : e[i] \in LotRows /\ e[i].quantity = rows[i].quantity
    BY DEF TypeOK, LotRow, LotRows, IsMatchable
  <1>3. IsFiniteSet(I) /\ S \subseteq LotRows
    BY <1>1, <1>2, IdsAssumption, FS_Subset
  <1> HIDE DEF e, S
  <1>4. (\A i \in I : f[i] \in Int) /\ \A i \in I : Size[e[i]] = f[i]
    BY <1>2, SizeNat
  <1>5. SumOf(Size, S) = SumOf(f, I)
    BY <1>1, <1>3, <1>4, SumOfRenamed
  <1>6. IsFiniteSet(S)
    <2>1. e \in Surjection(I, S)
      BY <1>1 DEF Surjection
    <2> QED BY <1>3, <2>1, FS_Surjection
  <1> QED BY <1>3, <1>5, <1>6, TotalIsSum DEF S

\* The lots have left what was bought and topped up, less what is drawn.
LEMMA OpenIsRest ==
    ASSUME HoldingInv, phase # "wipe"
    PROVE  SumOf(OpenUnits, Sources(View)) = Total(Sources(View)) - Drawn
  <1> DEFINE I == {i \in Ids : /\ IsMatchable(rows[i])
                               /\ IsLotSource(rows[i].type, rows[i].quantity)}
             e == [i \in I |-> LotRow(i, rows[i])]
             Taken == [b \in Sources(View) |-> consumed[b.id]]
  <1>1. TypeOK /\ IsRows(Sources(View)) /\ IsFiniteSet(Ids)
    BY ViewIsRows, IdsAssumption DEF HoldingInv, AttributionInv, IInv
  <1>2. \A b \in Sources(View) : b.id \in Ids /\ b.quantity \in Nat /\ b.quantity > 0
    BY <1>1, Segments
  <1>3. consumed \in [Ids -> Nat]
    BY <1>1 DEF TypeOK
  <1>4. \A b \in Sources(View) :
            /\ OpenUnits[b] = b.quantity - consumed[b.id] /\ Taken[b] = consumed[b.id]
            /\ Size[b] = b.quantity
            /\ OpenUnits[b] \in Int /\ Taken[b] \in Int /\ Size[b] = OpenUnits[b] + Taken[b]
    <2> TAKE b \in Sources(View)
    <2>1. b \in LotRows /\ consumed[b.id] \in Nat /\ b.quantity \in Nat /\ b.quantity > 0
      BY <1>1, <1>2, <1>3 DEF IsRows
    <2>2. Size[b] = b.quantity
      BY <2>1, SizeNat DEF Magnitude
    <2>3. OpenUnits[b] = b.quantity - consumed[b.id] /\ Taken[b] = consumed[b.id]
      BY DEF OpenUnits
    <2> HIDE DEF Taken
    <2> QED BY <2>1, <2>2, <2>3
  <1>5. Sources(View) = {LotRow(i, rows[i]) : i \in I}
    BY DEF Sources, View, LotRow
  <1>6. /\ e \in [I -> Sources(View)]
        /\ \A i, j \in I : e[i] = e[j] => i = j
        /\ \A b \in Sources(View) : \E i \in I : e[i] = b
        /\ \A i \in I : e[i].id = i
    BY <1>5 DEF LotRow
  <1>7. I \subseteq Ids
    OBVIOUS
  <1> HIDE DEF I, e, Taken
  <1>8. \A i \in I : consumed[i] \in Int /\ Taken[e[i]] = consumed[i]
    BY <1>3, <1>4, <1>6, <1>7
  <1>9. SumOf(Taken, Sources(View)) = SumOf(consumed, I)
    BY <1>1, <1>6, <1>7, <1>8, FS_Subset, SumOfRenamed
  <1>10. SumOf(consumed, Ids) = SumOf(consumed, I)
    <2>1. \A j \in Ids : consumed[j] \in Int
      BY <1>3
    <2>2. \A j \in Ids \ I : consumed[j] = 0
      <3> SUFFICES ASSUME NEW j \in Ids \ I, consumed[j] > 0 PROVE FALSE
        BY <1>3
      <3>1. PICK b \in Sources(View) : b.id = j
        BY DEF HoldingInv, LotsConsumed
      <3> QED BY <1>6, <3>1
    <2> QED BY <1>1, <1>7, <2>1, <2>2, SumOfSupport
  <1>11. SumOf(consumed, Ids) = Drawn
    BY DEF HoldingInv, ConsumedIsDrawn
  <1>12. SumOf(Size, Sources(View)) = SumOf(OpenUnits, Sources(View)) + SumOf(Taken, Sources(View))
    <2>1. IsFiniteSet(Sources(View))
      BY <1>1 DEF IsRows
    <2>2. /\ \A b \in Sources(View) : OpenUnits[b] \in Int
          /\ \A b \in Sources(View) : Taken[b] \in Int
          /\ \A b \in Sources(View) : Size[b] = OpenUnits[b] + Taken[b]
      BY <1>4
    <2> QED BY <2>1, <2>2, SumOfPlus
  <1>13. Total(Sources(View)) = SumOf(Size, Sources(View))
    BY <1>1, TotalIsSum DEF IsRows
  <1>14. SumOf(OpenUnits, Sources(View)) \in Int /\ SumOf(Taken, Sources(View)) \in Int
    BY <1>1, <1>4, SumOfInt DEF IsRows
  <1>15. SumOf(Taken, Sources(View)) = Drawn
    BY <1>9, <1>10, <1>11
  <1>16. Total(Sources(View)) = SumOf(OpenUnits, Sources(View)) + SumOf(Taken, Sources(View))
    BY <1>12, <1>13
  <1> QED BY <1>14, <1>15, <1>16

\* The live rows other than yields add up to the lots less the disposals.
LEMMA TradesAddUp ==
    ASSUME HoldingInv, NEW W, W = {i \in Ids : ~rows[i].deleted /\ rows[i].type # "yield"}
    PROVE  SumOf(Quantity, W) = Total(Sources(View)) - Total(Consumers(View))
  <1> DEFINE Opens(i) == IsLotSource(rows[i].type, rows[i].quantity)
             Closes(i) == IsLotConsuming(rows[i].type, rows[i].quantity)
             I == {i \in W : Opens(i)}
             J == {i \in W : Closes(i)}
             in == [i \in W |-> IF Opens(i) THEN Magnitude(rows[i].quantity) ELSE 0]
             out == [i \in W |-> IF Closes(i) THEN Magnitude(rows[i].quantity) ELSE 0]
  <1>1. TypeOK /\ W \subseteq Ids /\ IsFiniteSet(W)
    BY IdsAssumption, FS_Subset DEF HoldingInv, AttributionInv, IInv
  <1>2. ASSUME NEW i \in W
        PROVE  /\ rows[i] \in RowChoices /\ rows[i].type \in TxnTypes /\ rows[i].type # "yield"
               /\ rows[i].quantity \in Int /\ IsMatchable(rows[i])
               /\ rows[i].quantity = SignedQuantity(rows[i].type, rows[i].quantity)
    <2>1. rows[i] \in RowChoices /\ rows[i].type # "yield" /\ ~rows[i].deleted
      BY <1>1 DEF HoldingInv
    <2>2. /\ rows[i].type \in TxnTypes /\ rows[i].quantity \in Int
          /\ rows[i].quantity = SignedQuantity(rows[i].type, rows[i].quantity)
      BY <2>1, RowChoicesAssumption
    <2> QED BY <2>1, <2>2 DEF IsMatchable, LotAffectingTypes, LotConsumingTypes, LotSourceTypes,
                              DisposalTypes, TxnTypes
  <1>3. \A i \in W : /\ in[i] \in Int /\ out[i] \in Int /\ Quantity[i] \in Int
                     /\ in[i] = Quantity[i] + out[i]
    <2> TAKE i \in W
    <2> DEFINE q == rows[i].quantity
               t == rows[i].type
    <2>1. /\ Quantity[i] = q
          /\ in[i] = IF IsLotSource(t, q) THEN Magnitude(q) ELSE 0
          /\ out[i] = IF IsLotConsuming(t, q) THEN Magnitude(q) ELSE 0
      BY <1>1 DEF Quantity
    <2>2. q \in Int /\ t \in TxnTypes /\ t # "yield" /\ q = SignedQuantity(t, q)
      BY <1>2
    <2> HIDE DEF q, t, in, out
    <2>3. CASE t \in DisposalTypes
      BY <2>1, <2>2, <2>3 DEF SignedQuantity, IsLotSource, IsLotConsuming, Magnitude,
                              DisposalTypes, LotSourceTypes
    <2>4. CASE t = "adjustment"
      BY <2>1, <2>2, <2>4 DEF IsLotSource, IsLotConsuming, Magnitude,
                              DisposalTypes, LotSourceTypes
    <2>5. CASE t = "buy"
      BY <2>1, <2>2, <2>5 DEF SignedQuantity, IsLotSource, IsLotConsuming, Magnitude,
                              DisposalTypes, LotSourceTypes
    <2> QED BY <2>2, <2>3, <2>4, <2>5 DEF TxnTypes, DisposalTypes
  <1>4. /\ \A i \in I : in[i] = Magnitude(rows[i].quantity)
        /\ \A i \in W \ I : in[i] = 0
        /\ \A i \in J : out[i] = Magnitude(rows[i].quantity)
        /\ \A i \in W \ J : out[i] = 0
        /\ I \subseteq W /\ J \subseteq W
    OBVIOUS
  <1>5. \A i \in Ids : IsMatchable(rows[i]) => i \in W
    BY DEF IsMatchable, LotAffectingTypes, LotConsumingTypes, LotSourceTypes, DisposalTypes
  <1>6. /\ Sources(View) = {LotRow(i, rows[i]) : i \in I}
        /\ Consumers(View) = {LotRow(i, rows[i]) : i \in J}
    <2>1. View = {LotRow(i, rows[i]) : i \in W}
      BY <1>1, <1>2, <1>5 DEF View
    <2> HIDE DEF in, out
    <2> QED BY <2>1 DEF Sources, Consumers, LotRow
  <1>7. /\ I \subseteq {i \in Ids : IsMatchable(rows[i])}
        /\ J \subseteq {i \in Ids : IsMatchable(rows[i])}
    BY <1>1, <1>2, <1>4
  <1> HIDE DEF I, J, in, out
  <1>8. Total(Sources(View)) = SumOf(in, I) /\ Total(Consumers(View)) = SumOf(out, J)
    BY <1>1, <1>4, <1>6, <1>7, TotalByIds
  <1>9. SumOf(in, W) = SumOf(in, I) /\ SumOf(out, W) = SumOf(out, J)
    BY <1>1, <1>3, <1>4, SumOfSupport
  <1>10. SumOf(in, W) = SumOf(Quantity, W) + SumOf(out, W)
    <2>1. /\ \A i \in W : Quantity[i] \in Int
          /\ \A i \in W : out[i] \in Int
          /\ \A i \in W : in[i] = Quantity[i] + out[i]
      BY <1>3
    <2> QED BY <1>1, <2>1, SumOfPlus
  <1>11. SumOf(Quantity, W) \in Int /\ SumOf(out, W) \in Int
    BY <1>1, <1>3, SumOfInt
  <1> QED BY <1>8, <1>9, <1>10, <1>11

\* When a recompute is done, the open lots and the yields of the position add
\* up to the signed quantities of its live rows: the two figures the holdings
\* pages show for one position cannot differ.
THEOREM HoldingsAgree == Spec => []OpenLotsAndYieldsAreTheHolding
  <1>1. HoldingInv => OpenLotsAndYieldsAreTheHolding
    <2> SUFFICES ASSUME HoldingInv, phase = "done" PROVE OpenLotsAndYieldsAreTheHolding
      BY DEF OpenLotsAndYieldsAreTheHolding
    <2> DEFINE Live == {i \in Ids : ~rows[i].deleted}
               Y == {i \in Live : rows[i].type = "yield"}
               W == {i \in Ids : ~rows[i].deleted /\ rows[i].type # "yield"}
    <2>1. /\ AttributionInv /\ TypeOK /\ IsFiniteSet(Ids)
          /\ todo = {} /\ remaining = 0
      BY IdsAssumption DEF HoldingInv, AttributionInv, IInv, Outcome, NothingRemains
    <2>2. /\ Live \subseteq Ids /\ Y \subseteq Ids /\ Y \cap W = {} /\ Y \cup W = Live
          /\ IsFiniteSet(Y) /\ IsFiniteSet(W)
      BY <2>1, FS_Subset
    <2>3. \A i \in Y \cup W : Quantity[i] \in Int
      BY <2>1, <2>2 DEF Quantity, TypeOK
    <2>4. SumOf(Quantity, W) = Total(Sources(View)) - Total(Consumers(View))
      BY TradesAddUp
    <2>5. Drawn = Total(Consumers(View)) /\ Total(Consumers(View)) \in Nat
                                         /\ Total(Sources(View)) \in Nat
      BY <2>1, TotalsOfWalk DEF Drawn, Reached
    <2>6. SumOf(OpenUnits, Sources(View)) = Total(Sources(View)) - Total(Consumers(View))
      BY <2>5, OpenIsRest
    <2> HIDE DEF Y, W
    <2>7. SumOf(Quantity, Y \cup W) = SumOf(Quantity, Y) + SumOf(Quantity, W)
      BY <2>2, <2>3, SumOfUnion
    <2>8. SumOf(Quantity, Y) \in Int
      BY <2>2, <2>3, SumOfInt
    <2>9. SumOf(Quantity, Live) = SumOf(OpenUnits, Sources(View)) + SumOf(Quantity, Y)
      <3>1. SumOf(Quantity, Live) = SumOf(Quantity, Y) + SumOf(Quantity, W)
        BY <2>2, <2>7
      <3>2. SumOf(OpenUnits, Sources(View)) = SumOf(Quantity, W)
        BY <2>4, <2>6
      <3>3. SumOf(Quantity, W) \in Int
        BY <2>4, <2>5
      <3> QED BY <2>8, <3>1, <3>2, <3>3
    <2>10. MapThenSumSet(LAMBDA i : rows[i].quantity, Live) = SumOf(Quantity, Live)
      BY <2>1, <2>2, QuantitiesSummed
    <2>11. MapThenSumSet(LAMBDA i : rows[i].quantity, Y) = SumOf(Quantity, Y)
      BY <2>1, <2>2, QuantitiesSummed
    <2>12. MapThenSumSet(LAMBDA b : b.quantity - consumed[b.id], Sources(View))
              = SumOf(OpenUnits, Sources(View))
      BY <2>1, OpenSummed
    <2>13. MapThenSumSet(LAMBDA i : rows[i].quantity, Live)
              = MapThenSumSet(LAMBDA b : b.quantity - consumed[b.id], Sources(View))
                + MapThenSumSet(LAMBDA i : rows[i].quantity, Y)
      BY <2>9, <2>10, <2>11, <2>12
    <2> QED BY <2>13 DEF OpenLotsAndYieldsAreTheHolding, Y
  <1> QED BY <1>1, HoldingInvariance, PTL
=============================================================================
