--------------------------- MODULE Screens_proofs ---------------------------
(***************************************************************************)
(* What the two pages that change the ledger promise, for any quantities   *)
(* and any number of mutations and events: a dialog that reports success   *)
(* has saved all it sent, and a saved reconciliation closes its gaps.      *)
(***************************************************************************)
EXTENDS Screens, Induction_proofs, SequenceTheorems

-----------------------------------------------------------------------------
(* The reconciliation page.                                                *)

Grid == [Instruments -> [Recon!Days -> Int]]

\* What was sent, as long as it may still be saved.
SentOK ==
    /\ sent.step \in {"idle", "post", "saved", "refused"}
    /\ sent.step = "post" =>
        /\ sent.date \in Recon!Days
        /\ sent.decisions \in [Instruments -> Recon!Actions]
        /\ sent.staged \in Seq(Recon!StagedTxns)
        /\ DOMAIN sent.holdings \subseteq Instruments
        /\ \A i \in DOMAIN sent.holdings : sent.holdings[i] \in Int
        /\ events < MaxEvents

\* The place of a transaction in the queue is free while its drawer is open.
DrawerOK ==
    drawer = Recon!Closed \/ (drawer \in Recon!StagedTxns /\ Len(staged) < MaxStaged)

\* What is typed, decided, added and staged.
EntriesOK ==
    /\ typed \in [Instruments -> Recon!Quantities]
    /\ decisions \in [Instruments -> Recon!Actions]
    /\ added \subseteq Instruments
    /\ staged \in Seq(Recon!StagedTxns) /\ Len(staged) <= MaxStaged

PreviewOK == preview.shown \in BOOLEAN /\ preview = [shown |-> preview.shown, qty |-> preview.qty]
             /\ preview.qty \in [Instruments -> Int]

ServerOK ==
    /\ recorded \in Grid /\ Recon!Covered(recorded)
    /\ events \in 0..MaxEvents /\ others \in 0..MaxOthers

ReconInv == ServerOK /\ date \in Recon!Days /\ PreviewOK /\ EntriesOK /\ DrawerOK /\ SentOK

\* What GapsClose says of a step.
Closing ==
    \A i \in Instruments :
        /\ events' # events
        /\ i \in DOMAIN sent.holdings
        /\ sent.decisions[i] \in {"accept", "reject"}
        /\ Recon!Tidy(i)
        => Recon!Current(i)' = sent.holdings[i]

LEMMA Bounds ==
    /\ Amounts \subseteq Nat \ {0}
    /\ MaxCalls \in Nat /\ MaxFaults \in Nat /\ MaxTyped \in Nat
    /\ MaxStaged \in Nat /\ MaxEvents \in Nat /\ MaxOthers \in Nat
  BY ScreensAssumption

\* The quantity staged for an instrument on a day: nothing without a staged
\* transaction, its own quantity with one, an integer in any case.
LEMMA StagedSum ==
    ASSUME ReconInv, sent.step = "post", NEW i \in Instruments, NEW d \in Recon!Days
    PROVE  LET mine == {n \in DOMAIN sent.staged : sent.staged[n].instrument = i /\ sent.staged[n].date = d}
               own == IF d = sent.date /\ sent.decisions[i] = "accept" THEN Recon!Gap(i) ELSE 0
           IN  /\ Recon!Written(i, d) \in Int
               /\ mine = {} => Recon!Written(i, d) = own
               /\ \A n : mine = {n} => Recon!Written(i, d) = own + Recon!Staged(sent.staged[n])
  <1> DEFINE mine == {n \in DOMAIN sent.staged : sent.staged[n].instrument = i /\ sent.staged[n].date = d}
             own == IF d = sent.date /\ sent.decisions[i] = "accept" THEN Recon!Gap(i) ELSE 0
             f == [n \in mine |-> Recon!Staged(sent.staged[n])]
             sum[S \in SUBSET mine] ==
                 IF S = {} THEN 0
                 ELSE LET n == CHOOSE n \in S : TRUE
                      IN  Recon!Staged(sent.staged[n]) + sum[S \ {n}]
  <1>1. Recon!Written(i, d) = own + sum[mine]
    BY DEF Recon!Written
  <1>2. \A j \in Instruments : Recon!Gap(j) \in Int
    <2> TAKE j \in Instruments
    <2>1. recorded[j][1] \in Int /\ recorded[j][2] \in Int
      BY DEF ReconInv, ServerOK, Grid, Recon!Days
    <2> QED BY <2>1 DEF Recon!Gap, Recon!Current, ReconInv, SentOK
  <1>3. \A n \in mine : Recon!Staged(sent.staged[n]) \in Int
    <2> TAKE n \in mine
    <2>1. sent.staged[n].instrument \in Instruments
      BY DEF ReconInv, SentOK, Recon!StagedTxns
    <2>2. Recon!Gap(sent.staged[n].instrument) \in Int
      BY <1>2, <2>1
    <2> QED BY <2>2 DEF Recon!Staged, Recon!Magnitude
  <1>4. IsFiniteSet(mine)
    <2>1. DOMAIN sent.staged = 1..Len(sent.staged) /\ Len(sent.staged) \in Nat
      BY DEF ReconInv, SentOK
    <2>2. IsFiniteSet(1..Len(sent.staged))
      BY <2>1, FS_Interval
    <2> QED BY <2>1, <2>2, FS_Subset
  <1>5. f \in [mine -> Int]
    BY <1>3
  <1>6. \A h, S : S \in SUBSET mine =>
            AddUp(f, h, S) = IF S = {} THEN 0
                             ELSE LET n == CHOOSE n \in S : TRUE
                                  IN  Recon!Staged(sent.staged[n]) + h[S \ {n}]
    BY DEF AddUp, AnyOf
  <1>7. own \in Int
    BY <1>2
  <1> HIDE DEF mine, own, f
  <1>8. IsSum(sum, f, mine)
    <2>1. PICK h : IsSum(h, f, mine)
      BY <1>4, <1>5, SumExists
    <2>2. h = [S \in SUBSET mine |->
                  IF S = {} THEN 0
                  ELSE LET n == CHOOSE n \in S : TRUE
                       IN  Recon!Staged(sent.staged[n]) + h[S \ {n}]]
      BY <1>6, <2>1 DEF IsSum
    <2>3. sum = [S \in SUBSET mine |->
                  IF S = {} THEN 0
                  ELSE LET n == CHOOSE n \in S : TRUE
                       IN  Recon!Staged(sent.staged[n]) + sum[S \ {n}]]
      BY ONLY <2>2, ZenonT(20)
    <2> HIDE DEF sum
    <2> QED BY <1>6, <2>3 DEF IsSum
  <1> HIDE DEF sum
  <1>9. /\ sum[{}] = 0
        /\ \A s \in SUBSET mine : sum[s] \in Int
        /\ \A s \in SUBSET mine : \A x \in s : sum[s] = f[x] + sum[s \ {x}]
    BY ONLY <1>4, <1>5, <1>8, SumFacts
  <1>10. \A n : mine = {n} => sum[mine] = Recon!Staged(sent.staged[n])
    <2> SUFFICES ASSUME NEW n, mine = {n} PROVE sum[mine] = Recon!Staged(sent.staged[n])
      OBVIOUS
    <2>1. n \in mine /\ mine \ {n} = {} /\ mine \in SUBSET mine
      OBVIOUS
    <2>2. sum[mine] = f[n] + 0
      <3>1. sum[mine] = f[n] + sum[mine \ {n}]
        BY <1>9, <2>1
      <3> QED BY <1>9, <2>1, <3>1
    <2>3. f[n] = Recon!Staged(sent.staged[n])
      BY <2>1 DEF f
    <2> QED BY <1>3, <2>1, <2>2, <2>3
  <1>11. mine \in SUBSET mine /\ (mine = {} => sum[mine] = 0)
    BY <1>9
  <1>12. /\ Recon!Written(i, d) \in Int
         /\ mine = {} => Recon!Written(i, d) = own
         /\ \A n : mine = {n} => Recon!Written(i, d) = own + Recon!Staged(sent.staged[n])
    <2>1. sum[mine] \in Int
      BY <1>9, <1>11
    <2> QED BY ONLY <1>1, <1>7, <1>10, <1>11, <2>1
  <1> QED BY <1>12 DEF mine, own

LEMMA CommitCloses ==
    ASSUME ReconInv, Recon!Commit
    PROVE  Closing
  <1> SUFFICES ASSUME NEW i \in Instruments, events' # events, i \in DOMAIN sent.holdings,
                      sent.decisions[i] \in {"accept", "reject"}, Recon!Tidy(i)
               PROVE  Recon!Current(i)' = sent.holdings[i]
    BY DEF Closing
  <1> DEFINE mine == {n \in DOMAIN sent.staged : sent.staged[n].instrument = i}
             day(d) == {n \in DOMAIN sent.staged : /\ sent.staged[n].instrument = i
                                                   /\ sent.staged[n].date = d}
             W(d) == Recon!Written(i, d)
  <1>1. sent.step = "post" /\ recorded' = Recon!AfterSave
    BY DEF Recon!Commit, Recon!server
  <1>2. recorded'[i][1] = recorded[i][1] + W(1) /\ recorded'[i][2] = recorded[i][2] + W(2)
    BY <1>1 DEF Recon!AfterSave, Recon!Days
  <1>3. recorded[i][1] \in Int /\ recorded[i][2] \in Int /\ sent.holdings[i] \in Int
    BY <1>1 DEF ReconInv, ServerOK, SentOK, Grid, Recon!Days
  <1>4. Recon!Gap(i) = sent.holdings[i] - (recorded[i][1] + recorded[i][2])
    BY DEF Recon!Gap, Recon!Current
  <1>5. Recon!Current(i)' = recorded[i][1] + W(1) + recorded[i][2] + W(2)
        /\ W(1) \in Int /\ W(2) \in Int
    <2>1. W(1) \in Int /\ W(2) \in Int
      BY <1>1, StagedSum DEF Recon!Days
    <2> QED BY <1>2, <1>3, <2>1 DEF Recon!Current
  <1>6. sent.date \in {1, 2}
    BY <1>1 DEF ReconInv, SentOK, Recon!Days
  <1>7. CASE sent.decisions[i] = "accept"
    <2>1. mine = {}
      BY <1>7 DEF Recon!Tidy
    <2>2. \A d \in {1, 2} : W(d) = IF d = sent.date THEN Recon!Gap(i) ELSE 0
      <3> TAKE d \in {1, 2}
      <3>1. day(d) = {}
        BY <2>1
      <3>2. d \in Recon!Days
        BY DEF Recon!Days
      <3> QED BY ONLY ReconInv, <1>1, <1>7, <3>1, <3>2, StagedSum
    <2> QED BY <1>3, <1>4, <1>5, <1>6, <2>2
  <1>8. CASE sent.decisions[i] = "reject"
    <2>1. /\ Cardinality(mine) = 1
          /\ \A n \in mine : (sent.staged[n].type = "buy") = (Recon!Gap(i) > 0)
      BY <1>8 DEF Recon!Tidy, Recon!Cardinality, Cardinality
    <2>2. DOMAIN sent.staged = 1..Len(sent.staged) /\ Len(sent.staged) \in Nat
      BY <1>1 DEF ReconInv, SentOK
    <2>3. IsFiniteSet(mine)
      <3>1. IsFiniteSet(1..Len(sent.staged))
        BY <2>2, FS_Interval
      <3>2. mine \subseteq 1..Len(sent.staged)
        BY <2>2
      <3> QED BY <3>1, <3>2, FS_Subset
    <2>4. PICK n : mine = {n}
      BY <2>1, <2>3, FS_Singleton
    <2>5. sent.staged[n] \in Recon!StagedTxns /\ sent.staged[n].instrument = i
      BY <1>1, <2>2, <2>4 DEF ReconInv, SentOK
    <2>6. Recon!Staged(sent.staged[n]) = Recon!Gap(i)
      <3>1. Recon!Gap(i) \in Int
        BY <1>3, <1>4
      <3> QED BY <2>1, <2>4, <2>5, <3>1 DEF Recon!Staged, Recon!Magnitude
    <2>7. \A d \in {1, 2} : W(d) = IF d = sent.staged[n].date THEN Recon!Gap(i) ELSE 0
      <3> TAKE d \in {1, 2}
      <3>1. CASE d = sent.staged[n].date
        <4>1. day(d) = {n}
          BY <2>4, <3>1
        <4> QED BY <1>1, <1>3, <1>4, <1>8, <2>6, <3>1, <4>1, StagedSum DEF Recon!Days
      <3>2. CASE d # sent.staged[n].date
        <4>1. day(d) = {}
          BY <2>4, <3>2
        <4> QED BY <1>1, <1>8, <3>2, <4>1, StagedSum DEF Recon!Days
      <3> QED BY <3>1, <3>2
    <2>8. sent.staged[n].date \in {1, 2}
      BY <2>5 DEF Recon!StagedTxns, Recon!Days
    <2> QED BY <1>3, <1>4, <1>5, <2>7, <2>8
  <1> QED BY <1>7, <1>8

LEMMA ReconInitial ==
    ASSUME Recon!Init
    PROVE  ReconInv
  <1> USE DEF Recon!Init, Recon!Days
  <1>1. \A i \in Instruments : recorded[i] \in [{1, 2} -> {0, 1}] /\ recorded[i][2] = 0
    <2> TAKE i \in Instruments
    <2>1. recorded[i] \in {<<0, 0>>, <<1, 0>>}
      OBVIOUS
    <2> QED BY <2>1
  <1>2. ServerOK
    <2>1. recorded = [i \in Instruments |-> recorded[i]]
      OBVIOUS
    <2>2. recorded \in Grid
      BY <1>1, <2>1 DEF Grid
    <2>3. Recon!Covered(recorded)
      BY <1>1 DEF Recon!Covered
    <2> QED BY <2>2, <2>3, Bounds DEF ServerOK
  <1>3. PreviewOK
    BY DEF Recon!Loading, PreviewOK
  <1>4. EntriesOK
    <2>1. decisions \in [Instruments -> Recon!Actions]
      BY DEF Recon!Actions
    <2>2. typed \in [Instruments -> Recon!Quantities]
      BY DEF Recon!Quantities
    <2> QED BY <2>1, <2>2, Bounds DEF EntriesOK
  <1>5. DrawerOK /\ SentOK
    BY DEF DrawerOK, SentOK, Recon!Idle
  <1> QED BY <1>2, <1>3, <1>4, <1>5 DEF ReconInv

\* What the page does by itself: it reads, and the owner types and decides.
LEMMA PageSteps ==
    ASSUME ReconInv,
           \/ Recon!LoadPreview
           \/ \E i \in Instruments :
                \/ Recon!Type(i) \/ Recon!AddRow(i) \/ Recon!Accept(i) \/ Recon!Dismiss(i)
                \/ Recon!Undo(i)
           \/ \E d \in Recon!Days : Recon!ChangeDate(d)
    PROVE  ReconInv' /\ events' = events
  <1> USE DEF Recon!server, Recon!form
  <1>1. CASE Recon!LoadPreview
    <2>1. \A i \in Instruments : recorded[i][1] \in Int /\ recorded[i][2] \in Int
      BY DEF ReconInv, ServerOK, Grid, Recon!Days
    <2>2. Recon!AsOf(date).qty \in [Instruments -> Int]
      BY <2>1 DEF Recon!AsOf
    <2>3. PreviewOK'
      BY <1>1, <2>2 DEF Recon!LoadPreview, PreviewOK, Recon!AsOf
    <2> QED BY <1>1, <2>3
            DEF Recon!LoadPreview, ReconInv, ServerOK, EntriesOK, DrawerOK, SentOK
  <1>2. ASSUME NEW i \in Instruments, Recon!Type(i) PROVE ReconInv' /\ events' = events
    <2>1. typed' \in [Instruments -> Recon!Quantities]
      BY <1>2 DEF Recon!Type, Recon!Quantities, ReconInv, EntriesOK
    <2> QED BY <1>2, <2>1
            DEF Recon!Type, ReconInv, ServerOK, PreviewOK, EntriesOK, DrawerOK, SentOK
  <1>3. ASSUME NEW i \in Instruments, Recon!AddRow(i) PROVE ReconInv' /\ events' = events
    BY <1>3 DEF Recon!AddRow, ReconInv, ServerOK, PreviewOK, EntriesOK, DrawerOK, SentOK
  <1>4. ASSUME NEW i \in Instruments, NEW action \in Recon!Actions,
               Recon!Decide(i, action), UNCHANGED <<typed, added, staged>>
        PROVE  EntriesOK'
    BY <1>4 DEF Recon!Decide, ReconInv, EntriesOK
  <1>5. ASSUME NEW i \in Instruments,
               Recon!Accept(i) \/ Recon!Dismiss(i) \/ Recon!Undo(i)
        PROVE  ReconInv' /\ events' = events
    <2>1. PICK action \in Recon!Actions : Recon!Decide(i, action)
      BY <1>5 DEF Recon!Accept, Recon!Dismiss, Recon!Undo, Recon!Actions
    <2>2. UNCHANGED <<recorded, events, others, date, preview, typed, added, staged, drawer, sent>>
      BY <1>5 DEF Recon!Accept, Recon!Dismiss, Recon!Undo
    <2>3. EntriesOK'
      BY <1>4, <2>1, <2>2
    <2> QED BY <2>2, <2>3 DEF ReconInv, ServerOK, PreviewOK, DrawerOK, SentOK
  <1>6. ASSUME NEW d \in Recon!Days, Recon!ChangeDate(d) PROVE ReconInv' /\ events' = events
    <2>1. PreviewOK'
      BY <1>6 DEF Recon!ChangeDate, Recon!Loading, PreviewOK
    <2>2. typed' \in [Instruments -> Recon!Quantities]
      BY <1>6 DEF Recon!ChangeDate, Recon!Quantities
    <2>3. decisions' \in [Instruments -> Recon!Actions]
      BY <1>6 DEF Recon!ChangeDate, Recon!Actions
    <2>4. EntriesOK'
      BY <1>6, <2>2, <2>3 DEF Recon!ChangeDate, ReconInv, EntriesOK
    <2> QED BY <1>6, <2>1, <2>4 DEF Recon!ChangeDate, ReconInv, ServerOK, DrawerOK, SentOK
  <1> QED BY <1>1, <1>2, <1>3, <1>5, <1>6

\* The drawer of a rejected drift.
LEMMA DrawerSteps ==
    ASSUME ReconInv,
           \/ \E i \in Instruments : Recon!OpenDrawer(i)
           \/ Recon!Stage \/ Recon!CancelDrawer
    PROVE  ReconInv' /\ events' = events
  <1> USE DEF Recon!server, Recon!form
  <1>1. ASSUME NEW i \in Instruments, Recon!OpenDrawer(i) PROVE ReconInv' /\ events' = events
    <2>1. PICK type \in {"buy", "sell", "spend"} :
            drawer' = [open |-> TRUE, instrument |-> i, date |-> date, type |-> type]
      BY <1>1 DEF Recon!OpenDrawer, Recon!InferredType
    <2>2. drawer' \in Recon!StagedTxns
      BY <2>1 DEF ReconInv, Recon!StagedTxns
    <2> QED BY <1>1, <2>2
            DEF Recon!OpenDrawer, ReconInv, ServerOK, PreviewOK, EntriesOK, DrawerOK, SentOK
  <1>2. CASE Recon!Stage
    <2>1. drawer \in Recon!StagedTxns /\ Len(staged) < MaxStaged
      BY <1>2 DEF Recon!Stage, ReconInv, DrawerOK, Recon!Closed
    <2>2. staged' \in Seq(Recon!StagedTxns) /\ Len(staged') <= MaxStaged
      BY <1>2, <2>1, Bounds DEF Recon!Stage, ReconInv, EntriesOK
    <2>3. decisions' \in [Instruments -> Recon!Actions]
      BY <1>2 DEF Recon!Stage, Recon!Decide, Recon!Actions, ReconInv, EntriesOK
    <2>4. EntriesOK'
      BY <1>2, <2>2, <2>3 DEF Recon!Stage, ReconInv, EntriesOK
    <2> QED BY <1>2, <2>4 DEF Recon!Stage, ReconInv, ServerOK, PreviewOK, DrawerOK, SentOK
  <1>3. CASE Recon!CancelDrawer
    BY <1>3 DEF Recon!CancelDrawer, ReconInv, ServerOK, PreviewOK, EntriesOK, DrawerOK, SentOK
  <1> QED BY <1>1, <1>2, <1>3

\* A save and what comes of it; changes from elsewhere.
LEMMA SaveSteps ==
    ASSUME ReconInv,
           \/ Recon!Save \/ Recon!Answer \/ Recon!Failure \/ Recon!LoseAnswer
           \/ \E i \in Instruments : Recon!RecordElsewhere(i)
    PROVE  ReconInv' /\ events' = events
  <1> USE DEF Recon!server, Recon!form
  <1>1. CASE Recon!Save
    <2>1. /\ sent'.step = "post" /\ sent'.date = date
          /\ sent'.decisions = decisions /\ sent'.staged = staged
          /\ sent'.holdings = [i \in Recon!Rows |->
                                IF typed[i] # Recon!Untouched THEN typed[i]
                                ELSE IF i \in added THEN 0 ELSE preview.qty[i]]
      BY <1>1 DEF Recon!Save
    <2>2. Recon!Rows \subseteq Instruments
      BY DEF Recon!Rows, Recon!PreviewRows, ReconInv, EntriesOK
    <2>3. \A i \in Instruments : typed[i] \in Int /\ preview.qty[i] \in Int
      <3> TAKE i \in Instruments
      <3>1. typed[i] \in Recon!Quantities
        BY DEF ReconInv, EntriesOK
      <3>2. typed[i] \in Int
        BY <3>1, Bounds DEF Recon!Quantities, Recon!Untouched, Recon!Cleared
      <3> QED BY <3>2 DEF ReconInv, PreviewOK
    <2>4. /\ DOMAIN sent'.holdings = Recon!Rows
          /\ \A i \in Recon!Rows : sent'.holdings[i] \in Int
      BY <2>1, <2>2, <2>3
    <2>5. SentOK'
      <3>1. events < MaxEvents /\ events' = events
        BY <1>1 DEF Recon!Save
      <3> QED BY <2>1, <2>2, <2>4, <3>1 DEF ReconInv, EntriesOK, SentOK
    <2> QED BY <1>1, <2>5 DEF Recon!Save, ReconInv, ServerOK, PreviewOK, EntriesOK, DrawerOK
  <1>2. CASE Recon!Answer
    <2>1. typed' \in [Instruments -> Recon!Quantities]
      BY <1>2 DEF Recon!Answer, Recon!Quantities
    <2>2. decisions' \in [Instruments -> Recon!Actions]
      BY <1>2 DEF Recon!Answer, Recon!Actions
    <2>3. staged' \in Seq(Recon!StagedTxns) /\ Len(staged') = 0 /\ added' = {}
      BY <1>2 DEF Recon!Answer
    <2>4. EntriesOK'
      BY <2>1, <2>2, <2>3, Bounds DEF EntriesOK
    <2>5. DrawerOK'
      <3>1. Len(staged) \in Nat /\ drawer' = drawer
        BY <1>2 DEF Recon!Answer, ReconInv, EntriesOK
      <3> QED BY <2>3, <3>1, Bounds DEF ReconInv, DrawerOK
    <2> QED BY <1>2, <2>4, <2>5
            DEF Recon!Answer, Recon!Idle, ReconInv, ServerOK, PreviewOK, SentOK
  <1>3. CASE Recon!Failure
    BY <1>3 DEF Recon!Failure, Recon!Idle, ReconInv, ServerOK, PreviewOK, EntriesOK, DrawerOK, SentOK
  <1>4. CASE Recon!LoseAnswer
    <2>1. others' \in 0..MaxOthers
      BY <1>4, Bounds DEF Recon!LoseAnswer, ReconInv, ServerOK
    <2> QED BY <1>4, <2>1
            DEF Recon!LoseAnswer, Recon!Idle, ReconInv, ServerOK, PreviewOK, EntriesOK, DrawerOK, SentOK
  <1>5. ASSUME NEW i \in Instruments, Recon!RecordElsewhere(i) PROVE ReconInv' /\ events' = events
    <2>1. others' \in 0..MaxOthers
      BY <1>5, Bounds DEF Recon!RecordElsewhere, ReconInv, ServerOK
    <2>2. \A j \in Instruments : recorded[j] \in [{1, 2} -> Int]
      BY DEF ReconInv, ServerOK, Grid, Recon!Days
    <2>3. /\ recorded' = [recorded EXCEPT ![i] = [recorded[i] EXCEPT ![2] = recorded[i][2] + 1]]
          /\ recorded[i][2] + 1 \in Int
      BY <1>5, <2>2 DEF Recon!RecordElsewhere
    <2>4. recorded' \in Grid
      BY <2>2, <2>3 DEF ReconInv, ServerOK, Grid, Recon!Days
    <2>5. \A j \in Instruments : /\ recorded'[j][1] = recorded[j][1]
                                 /\ recorded'[j][2] \in {recorded[j][2], recorded[j][2] + 1}
      BY <2>2, <2>3 DEF ReconInv, ServerOK, Grid, Recon!Days
    <2>6. Recon!Covered(recorded')
      BY <2>2, <2>5 DEF ReconInv, ServerOK, Recon!Covered
    <2>7. ServerOK'
      BY <1>5, <2>1, <2>4, <2>6 DEF Recon!RecordElsewhere, ReconInv, ServerOK, Recon!Covered
    <2> QED BY <1>5, <2>7
            DEF Recon!RecordElsewhere, ReconInv, PreviewOK, EntriesOK, DrawerOK, SentOK
  <1> QED BY <1>1, <1>2, <1>3, <1>4, <1>5

LEMMA CommitKeeps ==
    ASSUME ReconInv, Recon!Commit
    PROVE  ReconInv'
  <1> USE DEF Recon!server, Recon!form
  <1>1. CASE UNCHANGED <<recorded, events>>
    <2>1. sent'.step \in {"saved", "refused"}
      BY DEF Recon!Commit
    <2>2. ServerOK'
      BY <1>1 DEF Recon!Commit, ReconInv, ServerOK
    <2> QED BY <2>1, <2>2
            DEF Recon!Commit, ReconInv, PreviewOK, EntriesOK, DrawerOK, SentOK
  <1>2. CASE ~UNCHANGED <<recorded, events>>
    <2>1. /\ sent.step = "post" /\ Recon!Covered(Recon!AfterSave) /\ events < MaxEvents
          /\ recorded' = Recon!AfterSave /\ events' = events + 1 /\ sent'.step = "saved"
      BY <1>2 DEF Recon!Commit, ReconInv, SentOK
    <2>2. Recon!AfterSave \in Grid
      <3>1. \A i \in Instruments, d \in Recon!Days :
               recorded[i][d] \in Int /\ Recon!Written(i, d) \in Int
        BY <2>1, StagedSum DEF ReconInv, ServerOK, Grid
      <3> QED BY <3>1 DEF Recon!AfterSave, Grid
    <2>3. events' \in 0..MaxEvents
      BY <2>1, Bounds DEF ReconInv, ServerOK
    <2>4. ServerOK'
      BY <2>1, <2>2, <2>3 DEF Recon!Commit, ReconInv, ServerOK, Recon!Covered
    <2> QED BY <2>1, <2>4
            DEF Recon!Commit, ReconInv, PreviewOK, EntriesOK, DrawerOK, SentOK
  <1> QED BY <1>1, <1>2

\* Every step of the page keeps the invariant and closes the gaps it says it
\* closes.
LEMMA ReconStep ==
    ASSUME ReconInv, [Recon!Next]_reconVars
    PROVE  ReconInv' /\ Closing
  <1>1. CASE Recon!Commit
    BY <1>1, CommitKeeps, CommitCloses
  <1>2. CASE UNCHANGED reconVars
    BY <1>2 DEF reconVars, ReconInv, ServerOK, PreviewOK, EntriesOK, DrawerOK, SentOK,
                Recon!Covered, Closing
  <1>3. CASE Recon!Next /\ ~Recon!Commit
    <2>1. ReconInv' /\ events' = events
      BY <1>3, PageSteps, DrawerSteps, SaveSteps DEF Recon!Next
    <2> QED BY <2>1 DEF Closing
  <1> QED BY <1>1, <1>2, <1>3

LEMMA ReconTypes ==
    ASSUME ReconInv
    PROVE  Recon!TypeOK
  BY DEF ReconInv, ServerOK, PreviewOK, EntriesOK, DrawerOK, SentOK, Grid, Recon!TypeOK

-----------------------------------------------------------------------------
(* The transaction list.                                                   *)

Table == [Ledger!Ids -> Ledger!Rows]
Outcomes == {"sent", "saved", "refused", "unheard"}

ListOK ==
    /\ DOMAIN list = {"rows", "further", "fetch", "failed", "unsure"}
    /\ list.rows \in Table
    /\ list.fetch.step \in {"none", "asked", "read"}
    /\ list.fetch.step = "read" => list.fetch.rows \in Table

DetailOK == detail = Ledger!NoDetail \/ (detail.id \in Ledger!Ids /\ detail.row \in Ledger!Rows)

\* A form of the row id.  What it shows of a spend may be unreadable.
FormOK(form, id) ==
    /\ DOMAIN form = {"mounted", "date", "qty", "rate", "typed"}
    /\ form.date \in Ledger!Dates
    /\ form.rate \in 0..Ledger!BrokerRate
    /\ form.qty \in [Ledger!Group(id) -> Nat]
    /\ \A i \in Ledger!Group(id) : i # "spend" => form.qty[i] # 0

DialogOK ==
    \/ dialog = Ledger!Closed
    \/ dialog.kind = "pick"
    \/ /\ dialog.kind = "add" /\ DOMAIN dialog = {"kind", "type", "call"}
       /\ dialog.type \in Ledger!AddTypes
    \/ dialog.kind = "delete" /\ DOMAIN dialog = {"kind", "id", "call"} /\ dialog.id \in Ledger!Ids
    \/ /\ dialog.kind = "edit" /\ DOMAIN dialog = {"kind", "id", "form", "call"}
       /\ dialog.id \in Ledger!Ids
       /\ dialog.form = Ledger!NoForm \/ FormOK(dialog.form, dialog.id)

\* A mutation under way: the rows its parts are about, and what it sends.
CallOK(call) ==
    /\ DOMAIN call = {"kind", "parts", "body", "alone"}
    /\ call.kind \in {"edit", "delete", "add"}
    /\ call.parts \in [DOMAIN call.parts -> Outcomes]
    /\ call.kind = "edit" =>
        /\ DOMAIN call.parts \subseteq Ledger!Ids
        /\ call.body \in [DOMAIN call.parts -> Ledger!Rows]
    /\ call.kind = "delete" =>
        \E id \in Ledger!Ids : DOMAIN call.parts = {id} /\ DOMAIN call.body = Ledger!Group(id)
    /\ call.kind = "add" => \E type \in Ledger!AddTypes : DOMAIN call.parts = {type}

CallsOK ==
    /\ \E S : calls \in Seq(S)
    /\ Len(calls) <= MaxCalls
    /\ \A n \in Ledger!Outstanding : CallOK(calls[n])

\* A mutation that was sent alone and has met no other since is the only one.
AloneOK == \A n \in Ledger!Outstanding : calls[n].alone => Ledger!Outstanding = {n}

\* What part p of a mutation has saved.
Holds(call, p) ==
    /\ call.kind = "edit" => rows[p] = call.body[p]
    /\ call.kind = "delete" => \A i \in Ledger!Group(p) : ~rows[i].live

\* What such a mutation has saved stands.
SavedOK ==
    \A n \in Ledger!Outstanding : calls[n].alone =>
        \A p \in DOMAIN calls[n].parts : calls[n].parts[p] = "saved" => Holds(calls[n], p)

\* Mutations that cannot add a row any more: an added row has its own.
Adding(call) == call.kind = "add" /\ \E p \in DOMAIN call.parts : call.parts[p] = "sent"
Spent == {n \in DOMAIN calls : ~Adding(calls[n])}

FurtherOK == further \in Nat /\ further <= Cardinality(Spent)

LedgerInv ==
    /\ rows \in Table /\ ListOK /\ DetailOK /\ rates \subseteq Ledger!Dates /\ DialogOK
    /\ CallsOK /\ AloneOK /\ SavedOK /\ FurtherOK
    /\ faults \in 0..MaxFaults

LEMMA LedgerTypes ==
    ASSUME LedgerInv
    PROVE  Ledger!TypeOK
  <1>1. further \in 0..MaxCalls
    <2>1. PICK S : calls \in Seq(S)
      BY DEF LedgerInv, CallsOK
    <2>2. DOMAIN calls = 1..Len(calls) /\ Len(calls) \in Nat
      BY <2>1
    <2>3. IsFiniteSet(1..Len(calls)) /\ Cardinality(1..Len(calls)) <= MaxCalls
      <3>1. /\ IsFiniteSet(1..Len(calls))
            /\ Cardinality(1..Len(calls)) = IF 1 > Len(calls) THEN 0 ELSE Len(calls) - 1 + 1
        BY <2>2, FS_Interval
      <3> QED BY <2>2, <3>1, Bounds DEF LedgerInv, CallsOK
    <2>4. Spent \in SUBSET (1..Len(calls))
      BY <2>2 DEF Spent
    <2>5. Cardinality(Spent) <= Cardinality(1..Len(calls)) /\ IsFiniteSet(Spent)
      BY <2>3, <2>4, FS_Subset
    <2>6. Cardinality(Spent) \in Nat /\ Cardinality(1..Len(calls)) \in Nat
      BY <2>3, <2>5, FS_CardinalityType
    <2> QED BY <2>3, <2>5, <2>6, Bounds DEF LedgerInv, FurtherOK
  <1>2. dialog.kind \in {"closed", "pick", "add", "edit", "delete"}
    BY DEF LedgerInv, DialogOK, Ledger!Closed
  <1> QED BY <1>1, <1>2 DEF LedgerInv, ListOK, DetailOK, CallsOK, Table, Ledger!TypeOK

\* The ledger part of Init.
LEMMA LedgerInitial ==
    ASSUME Ledger!Init
    PROVE  LedgerInv
  <1> USE DEF Ledger!Init
  <1>1. rows \in Table
    <2>1. PICK q \in Amounts, present \in {{"buy"}, {"spend"}, {"yield", "accrual"}, Ledger!Legs} :
            rows = [i \in Ledger!Ids |->
                      [date |-> 1, qty |-> q, live |-> i \in present,
                       rate |-> IF i = "buy" THEN Ledger!BrokerRate ELSE Ledger!NoRate]]
      OBVIOUS
    <2> HIDE DEF Ledger!Init
    <2>2. \A i \in Ledger!Ids : rows[i] \in Ledger!Rows
      <3> TAKE i \in Ledger!Ids
      <3>1. PICK r \in 0..Ledger!BrokerRate :
              r = IF i = "buy" THEN Ledger!BrokerRate ELSE Ledger!NoRate
        BY DEF Ledger!BrokerRate, Ledger!NoRate
      <3>2. rows[i] = [date |-> 1, qty |-> q, live |-> i \in present, rate |-> r]
        BY <2>1, <3>1
      <3>3. CASE i \in present
        <4>1. rows[i] = [date |-> 1, qty |-> q, live |-> TRUE, rate |-> r]
          BY <3>2, <3>3
        <4> QED BY <4>1, Bounds DEF Ledger!Rows, Ledger!Dates
      <3>4. CASE i \notin present
        <4>1. (i \in present) = FALSE
          BY <3>4
        <4>2. rows[i] = [date |-> 1, qty |-> q, live |-> FALSE, rate |-> r]
          BY <3>2, <4>1, Zenon
        <4> QED BY <4>2, Bounds DEF Ledger!Rows, Ledger!Dates
      <3> QED BY <3>3, <3>4
    <2> QED BY <2>1, <2>2 DEF Table
  <1>2. ListOK
    BY <1>1 DEF ListOK, Ledger!NoFetch
  <1>3. Len(calls) = 0 /\ DOMAIN calls = {} /\ \E S : calls \in Seq(S)
    OBVIOUS
  <1>4. Ledger!Outstanding = {} /\ Spent = {}
    BY <1>3 DEF Ledger!Outstanding, Spent
  <1>5. FurtherOK
    BY <1>4, FS_EmptySet DEF FurtherOK
  <1>6. CallsOK /\ AloneOK /\ SavedOK
    BY <1>3, <1>4, Bounds DEF CallsOK, AloneOK, SavedOK
  <1> QED BY <1>1, <1>2, <1>5, <1>6, Bounds DEF LedgerInv, DetailOK, DialogOK

\* A form that is filled with a rate stays a form.
LEMMA PrefillOK ==
    ASSUME NEW form, FormOK(form, dialog.id), rates' \subseteq Ledger!Dates
    PROVE  FormOK(Ledger!Prefill(form), dialog.id)
  BY DEF FormOK, Ledger!Prefill, Ledger!Dates, Ledger!BrokerRate

\* The list and what is opened over it.
LEMMA ListSteps ==
    ASSUME LedgerInv,
           \/ Ledger!ListRead \/ Ledger!ListArrives \/ Ledger!ListFails \/ Ledger!Retry
           \/ Ledger!OpenPicker \/ \E type \in Ledger!AddTypes : Ledger!PickType(type)
           \/ \E i \in Ledger!Ids : Ledger!OpenEdit(i) \/ Ledger!OpenDelete(i)
           \/ Ledger!Close \/ Ledger!DetailArrives
    PROVE  /\ ListOK' /\ DetailOK' /\ rates' \subseteq Ledger!Dates /\ DialogOK'
           /\ faults' \in 0..MaxFaults
           /\ UNCHANGED <<rows, further, calls>>
  <1> USE DEF Ledger!server, Ledger!cache, LedgerInv
  <1>1. CASE Ledger!ListRead
    BY <1>1 DEF Ledger!ListRead, ListOK, DetailOK, DialogOK
  <1>2. CASE Ledger!ListArrives
    BY <1>2 DEF Ledger!ListArrives, Ledger!NoFetch, ListOK, DetailOK, DialogOK
  <1>3. CASE Ledger!ListFails
    <2>1. ListOK'
      BY <1>3 DEF Ledger!ListFails, Ledger!NoFetch, ListOK
    <2>2. DialogOK'
      BY <1>3 DEF Ledger!ListFails, Ledger!NoForm, Ledger!Closed, DialogOK
    <2>3. faults' \in 0..MaxFaults
      BY <1>3, Bounds DEF Ledger!ListFails, Ledger!Fault
    <2> QED BY <1>3, <2>1, <2>2, <2>3 DEF Ledger!ListFails, DetailOK
  <1>4. CASE Ledger!Retry
    BY <1>4 DEF Ledger!Retry, ListOK, DetailOK, DialogOK
  <1>5. CASE Ledger!OpenPicker
    BY <1>5 DEF Ledger!OpenPicker, ListOK, DetailOK, DialogOK
  <1>6. ASSUME NEW type \in Ledger!AddTypes, Ledger!PickType(type) PROVE DialogOK'
    BY <1>6 DEF Ledger!PickType, DialogOK
  <1>7. ASSUME NEW i \in Ledger!Ids, Ledger!OpenEdit(i) PROVE DialogOK' /\ DetailOK'
    BY <1>7 DEF Ledger!OpenEdit, DialogOK, DetailOK
  <1>8. ASSUME NEW i \in Ledger!Ids, Ledger!OpenDelete(i) PROVE DialogOK'
    BY <1>8 DEF Ledger!OpenDelete, DialogOK
  <1>9. CASE Ledger!Close
    BY <1>9 DEF Ledger!Close, ListOK, DetailOK, DialogOK
  <1>10. CASE Ledger!DetailArrives
    <2>1. dialog.id \in Ledger!Ids
      BY <1>10 DEF Ledger!DetailArrives, DialogOK, Ledger!Closed
    <2> QED BY <1>10, <2>1 DEF Ledger!DetailArrives, ListOK, DetailOK, DialogOK, Table
  <1> QED BY <1>1, <1>2, <1>3, <1>4, <1>5, <1>6, <1>7, <1>8, <1>9, <1>10
          DEF Ledger!PickType, Ledger!OpenEdit, Ledger!OpenDelete, ListOK, DetailOK

LEMMA OpenForm ==
    ASSUME LedgerInv, Ledger!InForm
    PROVE  /\ DOMAIN dialog = {"kind", "id", "form", "call"}
           /\ dialog.kind = "edit" /\ dialog.id \in Ledger!Ids /\ FormOK(dialog.form, dialog.id)
  BY DEF Ledger!InForm, LedgerInv, DialogOK, Ledger!Closed, Ledger!NoForm

\* The edit forms: what is read into them and what the owner types.
LEMMA FormSteps ==
    ASSUME LedgerInv,
           \/ Ledger!Mount \/ Ledger!RateArrives
           \/ \E d \in Ledger!Dates : Ledger!TypeDate(d)
           \/ \E i \in Ledger!Ids, q \in Amounts : Ledger!TypeQuantity(i, q)
           \/ Ledger!TypeRate \/ Ledger!ResetRate
    PROVE  /\ ListOK' /\ DetailOK' /\ rates' \subseteq Ledger!Dates /\ DialogOK'
           /\ faults' \in 0..MaxFaults
           /\ UNCHANGED <<rows, further, calls>>
  <1> USE DEF Ledger!server, Ledger!cache
  <1>1. ASSUME dialog.kind = "edit", DOMAIN dialog = {"kind", "id", "form", "call"},
               dialog.id \in Ledger!Ids,
               NEW f, FormOK(f, dialog.id), dialog' = [dialog EXCEPT !.form = f],
               UNCHANGED <<rows, further, list, detail, calls, faults>>,
               rates' \subseteq Ledger!Dates
        PROVE  /\ ListOK' /\ DetailOK' /\ DialogOK' /\ faults' \in 0..MaxFaults
    BY <1>1 DEF LedgerInv, ListOK, DetailOK, DialogOK
  <1>2. rates \subseteq Ledger!Dates
    BY DEF LedgerInv
  <1>3. CASE Ledger!Mount
    <2> DEFINE first == IF dialog.id \in Ledger!Legs THEN "sold" ELSE dialog.id
               group == Ledger!Group(dialog.id)
               blank == [mounted |-> TRUE, date |-> Ledger!Leg(first).date,
                         qty |-> [i \in group |-> Ledger!InitialQty(i, Ledger!Leg(i))],
                         rate |-> Ledger!Leg(first).rate, typed |-> {}]
    <2>1. /\ dialog.kind = "edit" /\ detail.id = dialog.id
          /\ rates' = rates /\ dialog' = [dialog EXCEPT !.form = Ledger!Prefill(blank)]
      BY <1>3 DEF Ledger!Mount
    <2>2. DOMAIN dialog = {"kind", "id", "form", "call"} /\ dialog.id \in Ledger!Ids
      BY <2>1 DEF LedgerInv, DialogOK, Ledger!Closed
    <2>3. first \in Ledger!Ids /\ group \subseteq Ledger!Ids
      BY <2>2 DEF Ledger!Ids, Ledger!Legs, Ledger!Group
    <2>4. detail.row \in Ledger!Rows
      BY <2>1, <2>2 DEF LedgerInv, DetailOK, Ledger!NoDetail, Ledger!Ids, Ledger!Legs
    <2>5. \A i \in Ledger!Ids : Ledger!Leg(i) \in Ledger!Rows
      BY <2>4 DEF Ledger!Leg, LedgerInv, ListOK, Table
    <2>6. /\ Ledger!Leg(first).date \in Ledger!Dates
          /\ Ledger!Leg(first).rate \in 0..Ledger!BrokerRate
          /\ \A i \in Ledger!Ids : Ledger!Leg(i).qty \in Nat \ {0}
      BY <2>3, <2>5 DEF Ledger!Rows
    <2>7. \A i \in group : /\ Ledger!InitialQty(i, Ledger!Leg(i)) \in Nat
                           /\ i # "spend" => Ledger!InitialQty(i, Ledger!Leg(i)) # 0
      BY <2>3, <2>6 DEF Ledger!InitialQty, Ledger!Reread, Ledger!Unreadable
    <2>8. FormOK(blank, dialog.id)
      <3> HIDE DEF first
      <3> QED BY <2>6, <2>7 DEF FormOK
    <2> HIDE DEF blank
    <2> QED BY <1>1, <1>2, <1>3, <2>1, <2>2, <2>8, PrefillOK DEF Ledger!Mount
  <1>4. CASE Ledger!RateArrives
    <2>1. Ledger!InForm
      BY <1>4 DEF Ledger!RateArrives
    <2>2. dialog.form.date \in Ledger!Dates
      BY <2>1, OpenForm DEF FormOK
    <2>3. rates' \subseteq Ledger!Dates
      BY <1>2, <1>4, <2>2 DEF Ledger!RateArrives
    <2>4. FormOK(Ledger!Prefill(dialog.form), dialog.id)
      BY <2>1, <2>3, OpenForm, PrefillOK
    <2> QED BY <1>1, <1>4, <2>1, <2>3, <2>4, OpenForm DEF Ledger!RateArrives
  <1>5. ASSUME NEW d \in Ledger!Dates, Ledger!TypeDate(d)
        PROVE  /\ ListOK' /\ DetailOK' /\ rates' \subseteq Ledger!Dates /\ DialogOK'
               /\ faults' \in 0..MaxFaults
    <2> DEFINE f == [dialog.form EXCEPT !.date = d, !.typed = (@ \ {"rate"}) \cup {"date"}]
    <2>1. Ledger!InForm /\ rates' = rates /\ dialog' = [dialog EXCEPT !.form = Ledger!Prefill(f)]
      BY <1>5 DEF Ledger!TypeDate
    <2>2. FormOK(f, dialog.id)
      BY <2>1, OpenForm DEF FormOK
    <2> HIDE DEF f
    <2>3. FormOK(Ledger!Prefill(f), dialog.id)
      BY <1>2, <2>1, <2>2, PrefillOK
    <2> QED BY <1>1, <1>2, <1>5, <2>1, <2>3, OpenForm DEF Ledger!TypeDate
  <1>6. ASSUME NEW i \in Ledger!Ids, NEW q \in Amounts, Ledger!TypeQuantity(i, q)
        PROVE  /\ ListOK' /\ DetailOK' /\ rates' \subseteq Ledger!Dates /\ DialogOK'
               /\ faults' \in 0..MaxFaults
    <2> DEFINE read == Ledger!Reread(q)
    <2>5. read \in Nat /\ read # 0
      BY Bounds DEF Ledger!Reread
    <2> HIDE DEF read
    <2> DEFINE f == [dialog.form EXCEPT !.qty = [dialog.form.qty EXCEPT ![i] = read],
                                        !.typed = dialog.form.typed \cup {i}]
    <2>1. Ledger!InForm /\ i \in Ledger!Group(dialog.id)
      BY <1>6 DEF Ledger!TypeQuantity
    <2>2. dialog' = [dialog EXCEPT !.form = f]
      BY <1>6, <2>1, OpenForm DEF Ledger!TypeQuantity, FormOK, read
    <2>3. [dialog.form.qty EXCEPT ![i] = read] \in [Ledger!Group(dialog.id) -> Nat]
          /\ \A j \in Ledger!Group(dialog.id) :
                j # "spend" => [dialog.form.qty EXCEPT ![i] = read][j] # 0
      BY <2>1, <2>5, OpenForm DEF FormOK
    <2>4. FormOK(f, dialog.id)
      <3> HIDE DEF LedgerInv
      <3> DEFINE qty == [dialog.form.qty EXCEPT ![i] = read]
      <3>1. f = [dialog.form EXCEPT !.qty = qty, !.typed = dialog.form.typed \cup {i}]
        OBVIOUS
      <3> HIDE DEF qty, f
      <3> QED BY <2>1, <2>3, <3>1, OpenForm DEF FormOK, qty
    <2> HIDE DEF f
    <2> QED BY <1>1, <1>2, <1>6, <2>1, <2>2, <2>4, OpenForm DEF Ledger!TypeQuantity
  <1>7. CASE Ledger!TypeRate
    <2> DEFINE f == [dialog.form EXCEPT !.rate = Ledger!BrokerRate,
                                        !.typed = dialog.form.typed \cup {"rate"}]
    <2>1. Ledger!InForm /\ dialog' = [dialog EXCEPT !.form = f]
      BY <1>7, OpenForm DEF Ledger!TypeRate, FormOK
    <2>2. FormOK(f, dialog.id)
      BY <2>1, OpenForm DEF FormOK, Ledger!BrokerRate
    <2> HIDE DEF f
    <2> QED BY <1>1, <1>2, <1>7, <2>1, <2>2, OpenForm DEF Ledger!TypeRate
  <1>8. CASE Ledger!ResetRate
    <2> DEFINE f == [dialog.form EXCEPT !.rate = dialog.form.date,
                                        !.typed = dialog.form.typed \ {"rate"}]
    <2>1. Ledger!InForm /\ dialog' = [dialog EXCEPT !.form = f]
      BY <1>8, OpenForm DEF Ledger!ResetRate, FormOK
    <2>2. FormOK(f, dialog.id)
      BY <2>1, OpenForm DEF FormOK, Ledger!BrokerRate, Ledger!Dates
    <2> HIDE DEF f
    <2> QED BY <1>1, <1>2, <1>8, <2>1, <2>2, OpenForm DEF Ledger!ResetRate
  <1> QED BY <1>3, <1>4, <1>5, <1>6, <1>7, <1>8, <1>2
          DEF Ledger!Mount, Ledger!RateArrives, Ledger!TypeDate, Ledger!TypeQuantity,
              Ledger!TypeRate, Ledger!ResetRate

LEMMA PartOfSeq ==
    ASSUME NEW S, NEW s \in Seq(S), NEW T \in SUBSET DOMAIN s
    PROVE  IsFiniteSet(T) /\ Cardinality(T) \in Nat
  <1>1. DOMAIN s = 1..Len(s) /\ Len(s) \in Nat
    OBVIOUS
  <1>2. IsFiniteSet(1..Len(s))
    BY <1>1, FS_Interval
  <1>3. IsFiniteSet(T)
    BY <1>1, <1>2, FS_Subset
  <1> QED BY <1>3, FS_CardinalityType

\* A mutation is spent once and for all, and an added row spends one.
LEMMA FurtherKept ==
    ASSUME FurtherOK, CallsOK, CallsOK', Spent \subseteq Spent',
           \/ further' = further
           \/ further' = further + 1 /\ \E n : n \in Spent' /\ n \notin Spent
    PROVE  FurtherOK'
  <1>1. IsFiniteSet(Spent) /\ Cardinality(Spent) \in Nat
    BY PartOfSeq DEF CallsOK, Spent
  <1>2. IsFiniteSet(Spent') /\ Cardinality(Spent') \in Nat
    <2>1. PICK S : calls' \in Seq(S)
      BY DEF CallsOK
    <2>2. Spent' \in SUBSET DOMAIN calls'
      BY DEF Spent
    <2> QED BY <2>1, <2>2, PartOfSeq
  <1>3. CASE further' = further
    <2>1. Cardinality(Spent) <= Cardinality(Spent')
      BY <1>2, FS_Subset
    <2>2. (Cardinality(Spent))' = Cardinality(Spent')
      OBVIOUS
    <2> QED BY <1>1, <1>2, <1>3, <2>1, <2>2 DEF FurtherOK
  <1>4. ASSUME NEW n, n \in Spent', n \notin Spent, further' = further + 1 PROVE FurtherOK'
    <2>1. /\ IsFiniteSet(Spent \cup {n})
          /\ Cardinality(Spent \cup {n}) = Cardinality(Spent) + 1
      BY <1>1, <1>4, FS_AddElement
    <2>2. Spent \cup {n} \in SUBSET Spent'
      BY <1>4
    <2>3. Cardinality(Spent \cup {n}) <= Cardinality(Spent')
      BY <1>2, <2>2, FS_Subset
    <2> QED BY <1>1, <1>2, <1>4, <2>1, <2>3 DEF FurtherOK
  <1> QED BY <1>3, <1>4

\* A mutation is sent.
LEMMA SendStep ==
    ASSUME LedgerInv, NEW kind, NEW parts, NEW body, Ledger!Send(kind, parts, body),
           CallOK([kind |-> kind, parts |-> [p \in parts |-> "sent"], body |-> body,
                   alone |-> Ledger!Outstanding = {}])
    PROVE  /\ CallsOK' /\ AloneOK' /\ SavedOK' /\ FurtherOK'
           /\ \A n \in Ledger!Outstanding : calls'[n].kind # "done"
  <1> DEFINE L == Len(calls)
             Out == Ledger!Outstanding
             met == [n \in DOMAIN calls |->
                       IF n \in Out THEN [calls[n] EXCEPT !.alone = FALSE] ELSE calls[n]]
             call == [kind |-> kind, parts |-> [p \in parts |-> "sent"], body |-> body,
                      alone |-> Out = {}]
             T == {met[n] : n \in DOMAIN calls} \cup {call}
  <1>1. calls' = Append(met, call) /\ L < MaxCalls /\ UNCHANGED <<rows, further>>
    BY DEF Ledger!Send, Ledger!MaySend, Ledger!server
  <1>2. L \in Nat /\ DOMAIN calls = 1..L /\ Out \subseteq 1..L
    <2>1. PICK S : calls \in Seq(S)
      BY DEF LedgerInv, CallsOK
    <2> QED BY <2>1 DEF Ledger!Outstanding
  <1>3. met \in Seq(T) /\ Len(met) = L
    <2>1. met \in [1..L -> T]
      BY <1>2
    <2> HIDE DEF met, T, L
    <2>2. met \in Seq(T)
      BY <1>2, <2>1
    <2> QED BY <1>2, <2>1, <2>2
  <1>4. call \in T
    OBVIOUS
  <1>5. \A n \in 1..L : n \in Out => CallOK(calls[n])
    BY DEF LedgerInv, CallsOK
  <1>6. CallOK(call)
    OBVIOUS
  <1>7. call.kind # "done" /\ (\A p \in DOMAIN call.parts : call.parts[p] = "sent")
        /\ (call.alone => Out = {})
    BY <1>6 DEF CallOK
  <1>8. \A n \in 1..L : met[n] = IF n \in Out THEN [calls[n] EXCEPT !.alone = FALSE] ELSE calls[n]
    BY <1>2
  <1> HIDE DEF met, call, T, L
  <1>9. /\ calls' \in Seq(T) /\ Len(calls') = L + 1 /\ DOMAIN calls' = 1..(L + 1)
        /\ \A n \in 1..L : calls'[n] = met[n]
        /\ calls'[L + 1] = call
    <2>1. /\ calls' \in Seq(T) /\ Len(calls') = L + 1
          /\ \A n \in 1..L : calls'[n] = met[n]
          /\ calls'[L + 1] = call
      BY <1>1, <1>3, <1>4, AppendProperties
    <2> QED BY <2>1
  <1>10. \A n \in 1..L : n \notin Out => calls'[n] = calls[n] /\ calls[n].kind = "done"
    BY <1>2, <1>8, <1>9 DEF Ledger!Outstanding
  <1>11. \A n \in Out : calls'[n] = [calls[n] EXCEPT !.alone = FALSE]
    BY <1>2, <1>8, <1>9
  <1>12. \A n \in Out :
           /\ DOMAIN calls'[n] = DOMAIN calls[n] /\ calls'[n].kind = calls[n].kind
           /\ calls'[n].parts = calls[n].parts /\ calls'[n].body = calls[n].body
           /\ ~calls'[n].alone
    <2> SUFFICES ASSUME NEW n \in Out
                 PROVE  /\ DOMAIN calls'[n] = DOMAIN calls[n] /\ calls'[n].kind = calls[n].kind
                        /\ calls'[n].parts = calls[n].parts /\ calls'[n].body = calls[n].body
                        /\ ~calls'[n].alone
      OBVIOUS
    <2>1. DOMAIN calls[n] = {"kind", "parts", "body", "alone"}
      BY <1>2, <1>5 DEF CallOK
    <2>2. calls'[n] = [calls[n] EXCEPT !.alone = FALSE]
      BY <1>11
    <2> QED BY <2>1, <2>2
  <1>13. \A n \in Out : CallOK(calls'[n])
    BY <1>2, <1>5, <1>12 DEF CallOK
  <1>14. Ledger!Outstanding' = Out \cup {L + 1}
    <2>1. \A n \in Out : calls'[n].kind # "done"
      BY <1>13 DEF CallOK
    <2> QED BY <1>2, <1>7, <1>9, <1>10, <2>1 DEF Ledger!Outstanding
  <1>15. CallsOK'
    <2>1. \A n \in Ledger!Outstanding' : CallOK(calls'[n])
      BY <1>6, <1>9, <1>13, <1>14
    <2>2. Len(calls') <= MaxCalls
      BY <1>1, <1>2, <1>9, Bounds DEF L
    <2> QED BY <1>9, <2>1, <2>2 DEF CallsOK
  <1>16. AloneOK'
    BY <1>7, <1>9, <1>12, <1>14 DEF AloneOK
  <1>17. SavedOK'
    BY <1>7, <1>9, <1>12, <1>14 DEF SavedOK
  <1>18. Spent \subseteq Spent'
    <2> SUFFICES ASSUME NEW n \in DOMAIN calls, ~Adding(calls[n]) PROVE n \in Spent'
      BY DEF Spent
    <2>1. n \in 1..L /\ n \in DOMAIN calls'
      BY <1>2, <1>9
    <2>2. ~Adding(calls'[n])
      BY <1>10, <1>12, <2>1 DEF Adding
    <2> QED BY <2>1, <2>2 DEF Spent
  <1>19. FurtherOK'
    BY <1>1, <1>15, <1>18, FurtherKept DEF LedgerInv
  <1> QED BY <1>13, <1>15, <1>16, <1>17, <1>19 DEF CallOK

\* What the forms and the delete confirmation send.
LEMMA SendSteps ==
    ASSUME LedgerInv,
           \/ Ledger!SaveBuy \/ Ledger!SaveSpend \/ Ledger!SaveYield \/ Ledger!SaveTrade
           \/ Ledger!ConfirmDelete \/ Ledger!SubmitNew
    PROVE  LedgerInv' /\ \A n \in Ledger!Outstanding : calls'[n].kind # "done"
  <1> DEFINE sound(kind, parts, body) ==
               CallOK([kind |-> kind, parts |-> [p \in parts |-> "sent"], body |-> body,
                       alone |-> Ledger!Outstanding = {}])
  <1>1. ASSUME NEW kind, NEW parts, NEW body, Ledger!Send(kind, parts, body),
               sound(kind, parts, body), dialog.kind \in {"edit", "delete", "add"}
        PROVE  LedgerInv' /\ \A n \in Ledger!Outstanding : calls'[n].kind # "done"
    <2>1. /\ CallsOK' /\ AloneOK' /\ SavedOK' /\ FurtherOK'
          /\ \A n \in Ledger!Outstanding : calls'[n].kind # "done"
      BY <1>1, SendStep
    <2>2. /\ dialog' = [dialog EXCEPT !.call = Len(calls) + 1]
          /\ UNCHANGED <<rows, list, detail, rates, faults>>
      BY <1>1 DEF Ledger!Send, Ledger!server, Ledger!cache
    <2>3. DialogOK'
      BY <1>1, <2>2 DEF LedgerInv, DialogOK, Ledger!Closed
    <2> QED BY <2>1, <2>2, <2>3 DEF LedgerInv, ListOK, DetailOK
  <1>2. CASE Ledger!SaveBuy \/ Ledger!SaveSpend \/ Ledger!SaveYield \/ Ledger!SaveTrade
    <2>1. /\ Ledger!InForm /\ Ledger!Send("edit", Ledger!Group(dialog.id), Ledger!Values)
          /\ dialog.id = "spend" => dialog.form.qty["spend"] # 0
      BY <1>2 DEF Ledger!SaveBuy, Ledger!SaveSpend, Ledger!SaveYield, Ledger!SaveTrade,
                  Ledger!Put, Ledger!Unreadable, Ledger!Legs
    <2>2. /\ dialog.kind = "edit" /\ dialog.id \in Ledger!Ids
          /\ FormOK(dialog.form, dialog.id)
      BY <2>1, OpenForm
    <2>3. Ledger!Group(dialog.id) \subseteq Ledger!Ids
      BY <2>2 DEF Ledger!Group, Ledger!Ids
    <2>4. \A i \in Ledger!Group(dialog.id) : dialog.form.qty[i] \in Nat \ {0}
      BY <2>1, <2>2 DEF FormOK, Ledger!Group, Ledger!Legs
    <2>5. Ledger!Values \in [Ledger!Group(dialog.id) -> Ledger!Rows]
      BY <2>2, <2>4 DEF Ledger!Values, Ledger!Rows, FormOK
    <2>6. sound("edit", Ledger!Group(dialog.id), Ledger!Values)
      BY <2>3, <2>5 DEF CallOK, Outcomes
    <2> QED BY <1>1, <2>1, <2>2, <2>6
  <1>3. CASE Ledger!ConfirmDelete
    <2> DEFINE body == [i \in Ledger!Group(dialog.id) |-> list.rows[i]]
    <2>1. dialog.kind = "delete" /\ Ledger!Send("delete", {dialog.id}, body)
      BY <1>3 DEF Ledger!ConfirmDelete
    <2>2. dialog.id \in Ledger!Ids
      BY <2>1 DEF LedgerInv, DialogOK, Ledger!Closed
    <2>3. DOMAIN body = Ledger!Group(dialog.id)
      OBVIOUS
    <2> HIDE DEF body
    <2>4. sound("delete", {dialog.id}, body)
      BY <2>2, <2>3 DEF CallOK, Outcomes
    <2> QED BY <1>1, <2>1, <2>4
  <1>4. CASE Ledger!SubmitNew
    <2>1. dialog.kind = "add" /\ Ledger!Send("add", {dialog.type}, <<>>)
      BY <1>4 DEF Ledger!SubmitNew
    <2>2. dialog.type \in Ledger!AddTypes
      BY <2>1 DEF LedgerInv, DialogOK, Ledger!Closed
    <2>3. sound("add", {dialog.type}, <<>>)
      BY <2>2 DEF CallOK, Outcomes
    <2> QED BY <1>1, <2>1, <2>3
  <1> QED BY <1>2, <1>3, <1>4

\* One mutation changes, the others stay.
LEMMA SetCall ==
    ASSUME LedgerInv, NEW n \in Ledger!Outstanding, NEW call,
           calls' = [calls EXCEPT ![n] = call], call.kind = "done" \/ CallOK(call)
    PROVE  /\ CallsOK' /\ DOMAIN calls' = DOMAIN calls /\ n \in DOMAIN calls
           /\ calls'[n] = call
           /\ \A m \in DOMAIN calls : m # n => calls'[m] = calls[m]
           /\ Ledger!Outstanding' = IF call.kind = "done" THEN Ledger!Outstanding \ {n}
                                    ELSE Ledger!Outstanding
  <1>1. n \in DOMAIN calls /\ calls[n].kind # "done"
    BY DEF Ledger!Outstanding
  <1>2. PICK S : calls \in Seq(S)
    BY DEF LedgerInv, CallsOK
  <1>3. calls \in Seq(S \cup {call}) /\ DOMAIN calls = 1..Len(calls)
    BY <1>2
  <1>4. /\ calls' \in Seq(S \cup {call}) /\ Len(calls') = Len(calls)
        /\ DOMAIN calls' = DOMAIN calls
    BY <1>1, <1>3, ExceptSeq
  <1>5. calls'[n] = call /\ \A m \in DOMAIN calls : m # n => calls'[m] = calls[m]
    BY <1>1
  <1>6. Ledger!Outstanding' = IF call.kind = "done" THEN Ledger!Outstanding \ {n}
                              ELSE Ledger!Outstanding
    <2>1. CASE call.kind = "done"
      BY <1>1, <1>4, <1>5, <2>1 DEF Ledger!Outstanding
    <2>2. CASE call.kind # "done"
      BY <1>1, <1>4, <1>5, <2>2 DEF Ledger!Outstanding
    <2> QED BY <2>1, <2>2
  <1>7. \A m \in Ledger!Outstanding' : CallOK(calls'[m])
    BY <1>4, <1>5, <1>6 DEF LedgerInv, CallsOK, Ledger!Outstanding
  <1>8. CallsOK'
    BY <1>4, <1>7 DEF LedgerInv, CallsOK
  <1> QED BY <1>1, <1>4, <1>5, <1>6, <1>8

\* What becomes of the mutations when part p of n comes to an outcome.
PartSet(n, p, outcome) ==
    /\ CallsOK' /\ AloneOK' /\ Spent \subseteq Spent'
    /\ DOMAIN calls' = DOMAIN calls /\ Ledger!Outstanding' = Ledger!Outstanding
    /\ \A m \in DOMAIN calls : m # n => calls'[m] = calls[m]
    /\ calls'[n].kind = calls[n].kind /\ calls'[n].body = calls[n].body
    /\ calls'[n].parts = [calls[n].parts EXCEPT ![p] = outcome]
    /\ calls[n].kind # "done" /\ CallOK(calls[n])
    /\ \A m \in Ledger!Outstanding :
            calls'[m].alone => Ledger!Outstanding = {m} /\ calls[m].alone

\* One part of a mutation is served, refused or not heard of.
LEMMA PartStep ==
    ASSUME LedgerInv, NEW n \in Ledger!Outstanding, NEW p \in DOMAIN calls[n].parts,
           NEW outcome \in {"saved", "refused", "unheard"}, Ledger!SetPart(n, p, outcome)
    PROVE  PartSet(n, p, outcome)
  <1> DEFINE parts == [calls[n].parts EXCEPT ![p] = outcome]
             call == [calls[n] EXCEPT !.parts = parts]
  <1>1. n \in DOMAIN calls /\ CallOK(calls[n]) /\ calls[n].kind # "done"
    BY DEF LedgerInv, CallsOK, Ledger!Outstanding
  <1>2. calls' = [calls EXCEPT ![n] = call]
    BY <1>1 DEF Ledger!SetPart
  <1>3. parts \in [DOMAIN calls[n].parts -> Outcomes]
    BY <1>1 DEF CallOK, Outcomes
  <1>4. parts[p] = outcome /\ \A q \in DOMAIN calls[n].parts : q # p => parts[q] = calls[n].parts[q]
    BY <1>1 DEF CallOK
  <1> HIDE DEF parts
  <1>5. /\ call.kind = calls[n].kind /\ call.body = calls[n].body /\ call.parts = parts
        /\ call.alone = calls[n].alone /\ DOMAIN call = DOMAIN calls[n]
    BY <1>1 DEF CallOK
  <1> HIDE DEF call
  <1>6. DOMAIN parts = DOMAIN calls[n].parts
    BY <1>3
  <1>7. CallOK(call)
    BY <1>1, <1>3, <1>5, <1>6 DEF CallOK
  <1>8. /\ CallsOK' /\ DOMAIN calls' = DOMAIN calls /\ calls'[n] = call
        /\ \A m \in DOMAIN calls : m # n => calls'[m] = calls[m]
        /\ Ledger!Outstanding' = Ledger!Outstanding
    BY <1>1, <1>2, <1>5, <1>7, SetCall
  <1>9. \A m \in Ledger!Outstanding : calls'[m].alone = calls[m].alone
    BY <1>5, <1>8 DEF Ledger!Outstanding
  <1>10. \A m \in Ledger!Outstanding : calls'[m].alone => Ledger!Outstanding = {m} /\ calls[m].alone
    BY <1>9 DEF LedgerInv, AloneOK
  <1>11. AloneOK'
    BY <1>8, <1>10 DEF AloneOK
  <1>12. Spent \subseteq Spent'
    <2> SUFFICES ASSUME NEW m \in DOMAIN calls, ~Adding(calls[m]) PROVE ~Adding(calls'[m])
      BY <1>8 DEF Spent
    <2>1. CASE m = n
      BY <1>4, <1>5, <1>6, <1>8, <2>1 DEF Adding
    <2>2. CASE m # n
      BY <1>8, <2>2
    <2> QED BY <2>1, <2>2
  <1> QED BY <1>1, <1>5, <1>8, <1>10, <1>11, <1>12 DEF parts, PartSet

\* A part that saves nothing changes nothing that was saved.
LEMMA NothingSaved ==
    ASSUME LedgerInv, NEW n \in Ledger!Outstanding, NEW p \in DOMAIN calls[n].parts,
           NEW outcome \in {"refused", "unheard"}, Ledger!SetPart(n, p, outcome),
           UNCHANGED rows
    PROVE  SavedOK'
  <1>1. PartSet(n, p, outcome)
    BY PartStep
  <1> SUFFICES ASSUME NEW m \in Ledger!Outstanding', calls'[m].alone,
                      NEW q \in DOMAIN calls'[m].parts, calls'[m].parts[q] = "saved"
               PROVE  Holds(calls[m], q)'
    BY DEF SavedOK
  <1>2. m = n /\ calls[n].alone
    BY <1>1 DEF PartSet
  <1>3. q \in DOMAIN calls[n].parts /\ q # p /\ calls[n].parts[q] = "saved"
    BY <1>1, <1>2 DEF PartSet, CallOK
  <1>4. Holds(calls[n], q)
    BY <1>2, <1>3 DEF LedgerInv, SavedOK
  <1> QED BY <1>1, <1>2, <1>4 DEF Holds, PartSet

LEMMA RefuseSteps ==
    ASSUME LedgerInv, NEW n \in Ledger!Outstanding, NEW p,
           Ledger!Refuse(n, p) \/ Ledger!LoseAnswer(n, p)
    PROVE  LedgerInv' /\ \A m \in Ledger!Outstanding : calls'[m].kind # "done"
  <1>1. PICK outcome \in {"refused", "unheard"} : Ledger!SetPart(n, p, outcome)
    BY DEF Ledger!Refuse, Ledger!LoseAnswer
  <1>2. p \in DOMAIN calls[n].parts
    BY DEF Ledger!Refuse, Ledger!LoseAnswer, Ledger!Sent
  <1>3. UNCHANGED <<rows, further, list, detail, rates, dialog>> /\ faults' \in 0..MaxFaults
    BY Bounds DEF Ledger!Refuse, Ledger!LoseAnswer, Ledger!Fault, Ledger!server, Ledger!cache,
                  LedgerInv
  <1>a. PartSet(n, p, outcome)
    <2>1. outcome \in {"saved", "refused", "unheard"}
      OBVIOUS
    <2> QED BY <1>1, <1>2, <2>1, PartStep
  <1>4. /\ CallsOK' /\ AloneOK' /\ Spent \subseteq Spent'
        /\ DOMAIN calls' = DOMAIN calls
        /\ \A m \in DOMAIN calls : m # n => calls'[m] = calls[m]
        /\ calls'[n].kind = calls[n].kind /\ calls[n].kind # "done"
    BY <1>a DEF PartSet
  <1>5. SavedOK'
    BY <1>1, <1>2, <1>3, NothingSaved
  <1>6. FurtherOK'
    BY <1>3, <1>4, FurtherKept DEF LedgerInv
  <1> QED BY <1>3, <1>4, <1>5, <1>6
          DEF LedgerInv, ListOK, DetailOK, DialogOK, Ledger!Outstanding

\* PUT, DELETE and POST.
LEMMA ServeSteps ==
    ASSUME LedgerInv, NEW n \in Ledger!Outstanding, NEW p, Ledger!Serve(n, p)
    PROVE  LedgerInv' /\ \A m \in Ledger!Outstanding : calls'[m].kind # "done"
  <1> USE DEF Ledger!Sent
  <1>1. PICK outcome \in {"saved", "refused"} : Ledger!SetPart(n, p, outcome)
    BY DEF Ledger!Serve, Ledger!ApplyPut, Ledger!ApplyDelete, Ledger!ApplyPost
  <1>2. p \in DOMAIN calls[n].parts /\ calls[n].parts[p] = "sent"
    BY DEF Ledger!Serve, Ledger!ApplyPut, Ledger!ApplyDelete, Ledger!ApplyPost
  <1>3. UNCHANGED <<list, detail, rates, dialog, faults>>
    BY DEF Ledger!Serve, Ledger!ApplyPut, Ledger!ApplyDelete, Ledger!ApplyPost, Ledger!cache
  <1>4. PartSet(n, p, outcome)
    BY <1>1, <1>2, PartStep
  <1>5. n \in DOMAIN calls
    BY DEF Ledger!Outstanding
  <1>6. CASE outcome = "refused"
    <2>1. UNCHANGED <<rows, further>>
      <3>1. calls'[n].parts[p] = "refused"
        BY <1>2, <1>4, <1>6 DEF PartSet, CallOK
      <3>2. ~ Ledger!SetPart(n, p, "saved")
        <4>1. SUFFICES ASSUME Ledger!SetPart(n, p, "saved") PROVE FALSE
          OBVIOUS
        <4>2. calls'[n].parts = [calls[n].parts EXCEPT ![p] = "saved"]
          BY <1>2, <4>1, PartStep DEF PartSet
        <4> QED BY <1>2, <1>4, <3>1, <4>2 DEF PartSet, CallOK
      <3> QED BY <3>2 DEF Ledger!Serve, Ledger!ApplyPut, Ledger!ApplyDelete, Ledger!ApplyPost
    <2>2. SavedOK'
      BY <1>1, <1>2, <1>6, <2>1, NothingSaved
    <2>3. FurtherOK'
      BY <1>4, <2>1, FurtherKept DEF PartSet, LedgerInv
    <2> QED BY <1>3, <1>4, <2>1, <2>2, <2>3 DEF PartSet, LedgerInv, ListOK, DetailOK, DialogOK, Ledger!Outstanding
  <1>7. CASE outcome = "saved"
    <2>1. calls'[n].parts[p] = "saved"
      BY <1>2, <1>4, <1>7 DEF PartSet, CallOK
    <2>2. ~ Ledger!SetPart(n, p, "refused")
      <3>1. SUFFICES ASSUME Ledger!SetPart(n, p, "refused") PROVE FALSE
        OBVIOUS
      <3>2. calls'[n].parts = [calls[n].parts EXCEPT ![p] = "refused"]
        BY <1>2, <3>1, PartStep DEF PartSet
      <3> QED BY <1>2, <1>4, <2>1, <3>2 DEF PartSet, CallOK
    \* Whatever was saved before is left alone, and p holds now.
    <2>3. ASSUME Holds(calls[n], p)',
                 \A q \in DOMAIN calls[n].parts :
                    q # p /\ Holds(calls[n], q) => Holds(calls[n], q)'
          PROVE  SavedOK'
      <3> SUFFICES ASSUME NEW m \in Ledger!Outstanding', calls'[m].alone,
                          NEW q \in DOMAIN calls'[m].parts, calls'[m].parts[q] = "saved"
                   PROVE  Holds(calls[m], q)'
        BY DEF SavedOK
      <3>1. m = n /\ calls[n].alone
        BY <1>4 DEF PartSet
      <3>2. CASE q # p
        <4>1. q \in DOMAIN calls[n].parts /\ calls[n].parts[q] = "saved"
          BY <1>2, <1>4, <3>1, <3>2 DEF PartSet, CallOK
        <4>2. Holds(calls[n], q)
          BY <3>1, <4>1 DEF LedgerInv, SavedOK
        <4> QED BY <2>3, <3>1, <3>2, <4>1, <4>2
      <3> QED BY <2>3, <3>1, <3>2
    <2>4. CASE Ledger!ApplyPut(n, p)
      <3>1. /\ calls[n].kind = "edit" /\ rows' = [rows EXCEPT ![p] = calls[n].body[p]]
            /\ further' = further
        BY <2>2, <2>4 DEF Ledger!ApplyPut
      <3>2. p \in Ledger!Ids /\ calls[n].body[p] \in Ledger!Rows
            /\ DOMAIN calls[n].parts \subseteq Ledger!Ids
        BY <1>2, <1>4, <3>1 DEF PartSet, CallOK
      <3>3. rows' \in Table
        BY <3>1, <3>2 DEF LedgerInv, Table
      <3>4. \A q \in Ledger!Ids : rows'[q] = IF q = p THEN calls[n].body[p] ELSE rows[q]
        BY <3>1, <3>2 DEF LedgerInv, Table
      <3>5. Holds(calls[n], p)' /\ \A q \in DOMAIN calls[n].parts :
                                      q # p /\ Holds(calls[n], q) => Holds(calls[n], q)'
        BY <1>4, <3>1, <3>2, <3>4 DEF PartSet, Holds
      <3>6. SavedOK'
        BY <2>3, <3>5
      <3>7. FurtherOK'
        BY <1>4, <3>1, FurtherKept DEF PartSet, LedgerInv
      <3> QED BY <1>3, <1>4, <3>3, <3>6, <3>7
              DEF PartSet, LedgerInv, ListOK, DetailOK, DialogOK, Ledger!Outstanding
    <2>5. CASE Ledger!ApplyDelete(n, p)
      <3>1. /\ calls[n].kind = "delete" /\ further' = further
            /\ rows' = [i \in Ledger!Ids |->
                          IF i \in Ledger!Group(p) THEN [rows[i] EXCEPT !.live = FALSE]
                          ELSE rows[i]]
        BY <2>2, <2>5 DEF Ledger!ApplyDelete
      <3>2. p \in Ledger!Ids /\ DOMAIN calls[n].parts = {p}
        BY <1>2, <1>4, <3>1 DEF PartSet, CallOK
      <3>3. Ledger!Group(p) \subseteq Ledger!Ids
        BY <3>2 DEF Ledger!Group, Ledger!Ids
      <3>4. \A i \in Ledger!Ids : /\ [rows[i] EXCEPT !.live = FALSE] \in Ledger!Rows
                                  /\ ~[rows[i] EXCEPT !.live = FALSE].live
        <4> TAKE i \in Ledger!Ids
        <4> DEFINE row == rows[i]
        <4>1. row \in Ledger!Rows
          BY DEF LedgerInv, Table
        <4> HIDE DEF row
        <4>2. [row EXCEPT !.live = FALSE] \in Ledger!Rows /\ ~[row EXCEPT !.live = FALSE].live
          BY <4>1 DEF Ledger!Rows
        <4> QED BY <4>2 DEF row
      <3>5. rows' \in Table
        BY <3>1, <3>4 DEF LedgerInv, Table
      <3>6. \A i \in Ledger!Group(p) : ~rows'[i].live
        BY <3>1, <3>3, <3>4
      <3>7. Holds(calls[n], p)'
        BY <1>4, <3>1, <3>6 DEF PartSet, Holds
      <3>8. SavedOK'
        BY <2>3, <3>2, <3>7
      <3>9. FurtherOK'
        BY <1>4, <3>1, FurtherKept DEF PartSet, LedgerInv
      <3> QED BY <1>3, <1>4, <3>5, <3>8, <3>9
              DEF PartSet, LedgerInv, ListOK, DetailOK, DialogOK, Ledger!Outstanding
    <2>6. CASE Ledger!ApplyPost(n, p)
      <3>1. calls[n].kind = "add" /\ rows' = rows /\ further' = further + 1
        BY <2>2, <2>6 DEF Ledger!ApplyPost
      <3>2. DOMAIN calls[n].parts = {p}
        BY <1>2, <1>4, <3>1 DEF PartSet, CallOK
      <3>3. Adding(calls[n]) /\ ~Adding(calls'[n])
        <4>1. DOMAIN calls'[n].parts = {p}
          BY <1>4, <3>2 DEF PartSet
        <4> QED BY <1>2, <2>1, <3>1, <3>2, <4>1 DEF Adding
      <3>4. n \in Spent' /\ n \notin Spent
        BY <1>4, <1>5, <3>3 DEF PartSet, Spent
      <3>5. FurtherOK'
        BY <1>4, <3>1, <3>4, FurtherKept DEF PartSet, LedgerInv
      <3>6. SavedOK'
        BY <1>4, <2>3, <3>1 DEF PartSet, Holds
      <3> QED BY <1>3, <1>4, <3>1, <3>5, <3>6
              DEF PartSet, LedgerInv, ListOK, DetailOK, DialogOK, Ledger!Outstanding
    <2> QED BY <2>4, <2>5, <2>6 DEF Ledger!Serve
  <1> QED BY <1>6, <1>7

\* What SuccessMeansSaved says of a step.
Honest ==
    \A n \in Ledger!Outstanding :
        /\ calls[n].alone
        /\ calls'[n] = Ledger!Done("success")
        => /\ calls[n].kind = "edit" =>
                \A i \in DOMAIN calls[n].body : rows[i] = calls[n].body[i]
           /\ calls[n].kind = "delete" =>
                \A i \in DOMAIN calls[n].body : ~rows[i].live

LEMMA Unsettled ==
    ASSUME \A n \in Ledger!Outstanding : calls'[n].kind # "done"
    PROVE  Honest
  BY DEF Honest, Ledger!Done

\* The answer of a mutation is handled.
LEMMA SettleSteps ==
    ASSUME LedgerInv, NEW n \in Ledger!Outstanding, Ledger!Settle(n)
    PROVE  LedgerInv' /\ Honest
  <1> USE DEF Ledger!server
  <1>1. PICK told \in {"success", "partial", "failure"} :
           /\ calls' = [calls EXCEPT ![n] = Ledger!Done(told)]
           /\ told = "success" => Ledger!AllSaved(n)
    BY DEF Ledger!Settle, Ledger!Succeed, Ledger!SucceedInPart, Ledger!Fail
  <1>2. UNCHANGED <<rows, further, detail, rates, faults>>
    BY DEF Ledger!Settle, Ledger!Succeed, Ledger!SucceedInPart, Ledger!Fail
  <1>3. /\ CallsOK' /\ DOMAIN calls' = DOMAIN calls /\ n \in DOMAIN calls
        /\ calls'[n] = Ledger!Done(told)
        /\ \A m \in DOMAIN calls : m # n => calls'[m] = calls[m]
        /\ Ledger!Outstanding' = Ledger!Outstanding \ {n}
    <2> DEFINE call == Ledger!Done(told)
    <2>1. call.kind = "done" /\ calls' = [calls EXCEPT ![n] = call]
      BY <1>1 DEF Ledger!Done
    <2> HIDE DEF call
    <2>2. /\ CallsOK' /\ DOMAIN calls' = DOMAIN calls /\ n \in DOMAIN calls
          /\ calls'[n] = call
          /\ \A m \in DOMAIN calls : m # n => calls'[m] = calls[m]
          /\ Ledger!Outstanding' = Ledger!Outstanding \ {n}
      BY <2>1, SetCall
    <2> QED BY <2>2 DEF call
  <1>4. \A m \in Ledger!Outstanding' : ~calls'[m].alone
    BY <1>3 DEF LedgerInv, AloneOK, Ledger!Outstanding
  <1>5. AloneOK' /\ SavedOK'
    BY <1>4 DEF AloneOK, SavedOK
  <1>6. Spent \subseteq Spent'
    <2>1. ~Adding(calls'[n])
      BY <1>3 DEF Adding, Ledger!Done
    <2>2. \A m \in DOMAIN calls : m # n => Adding(calls'[m]) = Adding(calls[m])
      BY <1>3
    <2> QED BY <1>3, <2>1, <2>2 DEF Spent
  <1>7. FurtherOK'
    BY <1>2, <1>3, <1>6, FurtherKept DEF LedgerInv
  <1>8. ListOK'
    <2>1. CASE Ledger!Invalidate
      BY <2>1 DEF Ledger!Invalidate, LedgerInv, ListOK
    <2>2. CASE Ledger!Fail(n)
      BY <2>2 DEF Ledger!Fail, LedgerInv, ListOK
    <2> QED BY <2>1, <2>2 DEF Ledger!Settle, Ledger!Succeed, Ledger!SucceedInPart
  <1>9. DialogOK'
    <2>1. CASE dialog' = dialog
      BY <2>1 DEF LedgerInv, DialogOK
    <2>2. CASE dialog' = Ledger!Closed
      BY <2>2 DEF DialogOK
    <2>3. CASE dialog.kind \in {"edit", "delete", "add"} /\ dialog' = [dialog EXCEPT !.call = 0]
      BY <2>3 DEF LedgerInv, DialogOK, Ledger!Closed
    <2> QED BY <2>1, <2>2, <2>3
            DEF Ledger!Settle, Ledger!Succeed, Ledger!SucceedInPart, Ledger!Fail,
                Ledger!ClosedBy, Ledger!Released
  <1>10. LedgerInv'
    BY <1>2, <1>3, <1>5, <1>7, <1>8, <1>9 DEF LedgerInv, DetailOK
  <1>11. Honest
    <2> SUFFICES ASSUME NEW m \in Ledger!Outstanding, calls[m].alone,
                        calls'[m] = Ledger!Done("success")
                 PROVE  /\ calls[m].kind = "edit" =>
                             \A i \in DOMAIN calls[m].body : rows[i] = calls[m].body[i]
                        /\ calls[m].kind = "delete" =>
                             \A i \in DOMAIN calls[m].body : ~rows[i].live
      BY DEF Honest
    <2>1. m = n /\ told = "success" /\ CallOK(calls[n])
      BY <1>3 DEF LedgerInv, CallsOK, Ledger!Outstanding, Ledger!Done
    <2>2. \A p \in DOMAIN calls[n].parts : calls[n].parts[p] = "saved"
      BY <1>1, <2>1 DEF Ledger!AllSaved
    <2>3. \A p \in DOMAIN calls[n].parts : Holds(calls[n], p)
      BY <2>1, <2>2 DEF LedgerInv, SavedOK
    <2> QED BY <2>1, <2>3 DEF Holds, CallOK
  <1> QED BY <1>10, <1>11

LEMMA LedgerStep ==
    ASSUME LedgerInv, [Ledger!Next]_ledgerVars
    PROVE  LedgerInv' /\ Honest
  <1>1. ASSUME ListOK', DetailOK', rates' \subseteq Ledger!Dates, DialogOK',
               faults' \in 0..MaxFaults, UNCHANGED <<rows, further, calls>>
        PROVE  LedgerInv' /\ Honest
    <2>1. CallsOK' /\ AloneOK' /\ SavedOK' /\ FurtherOK' /\ Ledger!Outstanding' = Ledger!Outstanding
      BY <1>1 DEF LedgerInv, CallsOK, AloneOK, SavedOK, Holds, FurtherOK, Spent, Ledger!Outstanding
    <2>2. \A n \in Ledger!Outstanding : calls'[n].kind # "done"
      BY <1>1 DEF Ledger!Outstanding
    <2> QED BY <1>1, <2>1, <2>2, Unsettled DEF LedgerInv
  <1>2. CASE UNCHANGED ledgerVars
    BY <1>1, <1>2 DEF ledgerVars, LedgerInv, ListOK, DetailOK, DialogOK
  <1>3. CASE \/ Ledger!ListRead \/ Ledger!ListArrives \/ Ledger!ListFails \/ Ledger!Retry
             \/ Ledger!OpenPicker \/ \E type \in Ledger!AddTypes : Ledger!PickType(type)
             \/ \E i \in Ledger!Ids : Ledger!OpenEdit(i) \/ Ledger!OpenDelete(i)
             \/ Ledger!Close \/ Ledger!DetailArrives
    BY <1>1, <1>3, ListSteps
  <1>4. CASE \/ Ledger!Mount \/ Ledger!RateArrives
             \/ \E d \in Ledger!Dates : Ledger!TypeDate(d)
             \/ \E i \in Ledger!Ids, q \in Amounts : Ledger!TypeQuantity(i, q)
             \/ Ledger!TypeRate \/ Ledger!ResetRate
    BY <1>1, <1>4, FormSteps
  <1>5. CASE \/ Ledger!SaveBuy \/ Ledger!SaveSpend \/ Ledger!SaveYield \/ Ledger!SaveTrade
             \/ Ledger!ConfirmDelete \/ Ledger!SubmitNew
    BY <1>5, SendSteps, Unsettled
  <1>6. ASSUME NEW n \in Ledger!Outstanding, NEW p, Ledger!Serve(n, p)
        PROVE  LedgerInv' /\ Honest
    BY <1>6, ServeSteps, Unsettled
  <1>7. ASSUME NEW n \in Ledger!Outstanding, NEW p, Ledger!Refuse(n, p) \/ Ledger!LoseAnswer(n, p)
        PROVE  LedgerInv' /\ Honest
    BY <1>7, RefuseSteps, Unsettled
  <1>8. ASSUME NEW n \in Ledger!Outstanding, Ledger!Settle(n) PROVE LedgerInv' /\ Honest
    BY <1>8, SettleSteps
  <1> QED BY <1>2, <1>3, <1>4, <1>5, <1>6, <1>7, <1>8 DEF Ledger!Next

-----------------------------------------------------------------------------
(* Both pages.                                                             *)

Inv == page \in Pages /\ LedgerInv /\ ReconInv

LEMMA Step ==
    ASSUME Inv, [Next]_vars
    PROVE  Inv' /\ Honest /\ Closing
  <1>1. page' \in Pages /\ [Ledger!Next]_ledgerVars /\ [Recon!Next]_reconVars
    BY DEF Inv, Next, Track, Reconcile, vars
  <1>2. (LedgerInv' /\ Honest) /\ (ReconInv' /\ Closing)
    BY <1>1, LedgerStep, ReconStep DEF Inv
  <1> QED BY <1>1, <1>2 DEF Inv

\* The inductive invariant: the shapes of what the two pages hold, that a
\* mutation which was sent alone is the only one and that what it has saved
\* stands, and that no position the server recorded is negative.
THEOREM Invariance == Spec => []Inv
  <1>1. Init => Inv
    <2> SUFFICES ASSUME Init PROVE Inv
      OBVIOUS
    <2>1. LedgerInv /\ ReconInv
      BY LedgerInitial, ReconInitial DEF Init
    <2> QED BY <2>1 DEF Init, Inv
  <1>2. Inv /\ [Next]_vars => Inv'
    BY Step
  <1> QED BY <1>1, <1>2, PTL DEF Spec

\* Both pages keep their types for any quantities and any number of mutations,
\* faults and events: no list, form or mutation ever holds a row that the
\* server would not store.
THEOREM TypeCorrect == Spec => []TypeOK
  <1>1. Inv => TypeOK
    BY LedgerTypes, ReconTypes DEF Inv, TypeOK
  <1> QED BY <1>1, Invariance, PTL

\* A dialog that reports success has saved everything it sent, whatever was
\* refused, lost or retried before (hooks/useTransactions.ts), unless another
\* mutation was under way at the same time.
THEOREM SuccessIsNoLie == Spec => SuccessMeansSaved
  <1>1. Inv /\ [Next]_vars => [Honest]_(Ledger!vars)
    BY Step
  <1>2. [Honest]_(Ledger!vars) =>
          [\A n \in Ledger!Outstanding :
              /\ calls[n].alone
              /\ calls'[n] = Ledger!Done("success")
              => /\ calls[n].kind = "edit" =>
                      \A i \in DOMAIN calls[n].body : rows[i] = calls[n].body[i]
                 /\ calls[n].kind = "delete" =>
                      \A i \in DOMAIN calls[n].body : ~rows[i].live]_(Ledger!vars)
    BY DEF Honest
  <1> QED BY <1>1, <1>2, Invariance, PTL DEF Spec, SuccessMeansSaved, Ledger!SuccessMeansSaved

\* A saved reconciliation leaves every accepted or rejected row with a tidy
\* queue at the broker's figure, whatever was recorded, retyped or saved again
\* since the preview (services/reconciliation.py:185).
THEOREM ReconciliationCloses == Spec => GapsClose
  <1>1. Inv /\ [Next]_vars => [Closing]_(Recon!vars)
    BY Step
  <1>2. [Closing]_(Recon!vars) =>
          [\A i \in Instruments :
              /\ events' # events
              /\ i \in DOMAIN sent.holdings
              /\ sent.decisions[i] \in {"accept", "reject"}
              /\ Recon!Tidy(i)
              => Recon!Current(i)' = sent.holdings[i]]_(Recon!vars)
    BY DEF Closing
  <1> QED BY <1>1, <1>2, Invariance, PTL DEF Spec, GapsClose, Recon!GapsClose
=============================================================================
