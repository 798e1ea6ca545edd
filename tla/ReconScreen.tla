---------------------------- MODULE ReconScreen ----------------------------
(***************************************************************************)
(* The reconciliation page of one account (ReconciliationForm and what it  *)
(* opens) against POST /api/reconciliation/events.  The owner types what   *)
(* the broker reports, decides on every row that differs, and saves; the   *)
(* page keeps decisions and staged transactions to itself until then.      *)
(*                                                                         *)
(* The server derives every quantity it writes from the holdings it was    *)
(* sent and the positions it has when it commits.  Quantities are small    *)
(* numbers recorded on an early day or on a late one; prices, notes and    *)
(* values are left out.                                                    *)
(***************************************************************************)
EXTENDS Integers, Sequences, FiniteSets

CONSTANTS Instruments,
          MaxTyped,     \* bound: quantities typed
          MaxStaged,    \* bound: transactions staged
          MaxEvents,    \* bound: events saved
          MaxOthers     \* bound: changes from elsewhere and lost answers

Days == {1, 2}

VARIABLES recorded,   \* transactions: net quantity of each instrument and day
          events,     \* rows of reconciliation
          others,     \* changes from elsewhere and lost answers so far
          date,       \* snapshotDate
          preview,    \* cached answer of GET /api/reconciliation/preview
          typed,      \* snapshotQtys
          decisions,
          added,      \* addedRows
          staged,     \* pendingRejectTxns
          drawer,     \* transaction the open drawer will stage
          sent        \* body in flight

server == <<recorded, events>>
form == <<typed, decisions, added, staged>>
vars == <<server, others, date, preview, form, drawer, sent>>

Untouched == -1
Cleared == -2
Undecided == "undecided"
Loading == [shown |-> FALSE, qty |-> [i \in Instruments |-> 0]]
Closed == [open |-> FALSE]
Idle == [step |-> "idle"]

Current(i) == recorded[i][1] + recorded[i][2]

\* build_preview: what was recorded through the snapshot date.
AsOf(d) ==
    [shown |-> TRUE,
     qty |-> [i \in Instruments |-> recorded[i][1] + (IF d = 2 THEN recorded[i][2] ELSE 0)]]

Init ==
    /\ recorded \in [Instruments -> {<<0, 0>>, <<1, 0>>}]
    /\ events = 0
    /\ others = 0
    /\ date = 2
    /\ preview = Loading
    /\ typed = [i \in Instruments |-> Untouched]
    /\ decisions = [i \in Instruments |-> Undecided]
    /\ added = {}
    /\ staged = <<>>
    /\ drawer = Closed
    /\ sent = Idle

-----------------------------------------------------------------------------
(***************************************************************************)
(* The page.                                                               *)
(***************************************************************************)

\* The query is fetched for a new date, when it is invalidated, and when the
\* network comes back.
LoadPreview ==
    /\ preview # AsOf(date)
    /\ preview' = AsOf(date)
    /\ UNCHANGED <<server, others, date, form, drawer, sent>>

PreviewRows == {i \in Instruments : preview.qty[i] # 0}

\* allRows
Rows == PreviewRows \cup added

\* app_qty of the rows of i: two of them when a later preview lists an added
\* instrument as well.
Shown(i) ==
    (IF i \in PreviewRows THEN {preview.qty[i]} ELSE {}) \cup (IF i \in added THEN {0} ELSE {})

\* deriveDriftState: a number was typed, and another one than the row shows.
Drifts(i, app) == typed[i] >= 0 /\ typed[i] # app

\* isRowUnresolved.  A cell emptied again asks for no decision.
Unresolved ==
    {i \in Rows : decisions[i] = Undecided /\ \E app \in Shown(i) : Drifts(i, app)}

\* Cells, buttons and dialogs are out of reach behind an open drawer.
InForm(i) == i \in Rows /\ preview.shown /\ ~drawer.open

Type(i) ==
    /\ InForm(i)
    /\ \E q \in {Cleared} \cup 0..MaxTyped : typed' = [typed EXCEPT ![i] = q]
    /\ UNCHANGED <<server, others, date, preview, decisions, added, staged, drawer, sent>>

\* handleSelect of AddInstrumentRow
AddRow(i) ==
    /\ i \notin Rows
    /\ preview.shown
    /\ ~drawer.open
    /\ added' = added \cup {i}
    /\ UNCHANGED <<server, others, date, preview, typed, decisions, staged, drawer, sent>>

\* setDecisionFor
Decide(i, action) == decisions' = [decisions EXCEPT ![i] = action]

\* A phantom, shown in the app and not held, is not to be accepted.
Accept(i) ==
    /\ InForm(i)
    /\ decisions[i] = Undecided
    /\ \E app \in Shown(i) : Drifts(i, app) /\ ~(typed[i] = 0 /\ app # 0)
    /\ Decide(i, "accept")
    /\ UNCHANGED <<server, others, date, preview, typed, added, staged, drawer, sent>>

Dismiss(i) ==
    /\ InForm(i)
    /\ decisions[i] = Undecided
    /\ \E app \in Shown(i) : Drifts(i, app)
    /\ Decide(i, "dismiss")
    /\ UNCHANGED <<server, others, date, preview, typed, added, staged, drawer, sent>>

\* inferredType of the drawer, from the two quantities it was opened with.
InferredType(snap, app) ==
    IF snap = 0 /\ app # 0 THEN "spend" ELSE IF snap > app THEN "buy" ELSE "sell"

OpenDrawer(i) ==
    /\ InForm(i)
    /\ decisions[i] = Undecided
    /\ Len(staged) < MaxStaged
    /\ \E app \in Shown(i) :
        /\ Drifts(i, app)
        /\ drawer' = [open |-> TRUE, instrument |-> i, date |-> date,
                      type |-> InferredType(typed[i], app)]
    /\ UNCHANGED <<server, others, date, preview, form, sent>>

\* handleStage
Stage ==
    /\ drawer.open
    /\ staged' = Append(staged, drawer)
    /\ Decide(drawer.instrument, "reject")
    /\ drawer' = Closed
    /\ UNCHANGED <<server, others, date, preview, typed, added, sent>>

CancelDrawer ==
    /\ drawer.open
    /\ drawer' = Closed
    /\ UNCHANGED <<server, others, date, preview, form, sent>>

\* clearDecision: the queue of staged transactions is left alone.
Undo(i) ==
    /\ InForm(i)
    /\ decisions[i] # Undecided
    /\ Decide(i, Undecided)
    /\ UNCHANGED <<server, others, date, preview, typed, added, staged, drawer, sent>>

\* handleSnapshotDateChange: the queue stays here as well.
ChangeDate(d) ==
    /\ d # date
    /\ ~drawer.open
    /\ date' = d
    /\ preview' = Loading
    /\ typed' = [i \in Instruments |-> Untouched]
    /\ decisions' = [i \in Instruments |-> Undecided]
    /\ added' = {}
    /\ UNCHANGED <<server, others, staged, drawer, sent>>

\* handleSave sends the rows on the screen; one left alone counts as it is,
\* and of two rows of one instrument the later, added one counts.
Save ==
    /\ ~drawer.open
    /\ sent.step = "idle"
    /\ events < MaxEvents
    /\ Unresolved = {}
    /\ sent' = [step |-> "post", date |-> date, decisions |-> decisions, staged |-> staged,
                holdings |-> [i \in Rows |-> 
                                IF typed[i] # Untouched THEN typed[i]
                                ELSE IF i \in added THEN 0 ELSE preview.qty[i]]]
    /\ UNCHANGED <<server, others, date, preview, form, drawer>>

-----------------------------------------------------------------------------
(***************************************************************************)
(* POST /api/reconciliation/events.                                        *)
(***************************************************************************)

\* reject_txns_must_reference_holdings, and the numbers parse.
WellFormed ==
    /\ \A i \in DOMAIN sent.holdings : sent.holdings[i] >= 0
    /\ \A n \in DOMAIN sent.staged : sent.staged[n].instrument \in DOMAIN sent.holdings

\* Mutant of Gap: the delta of what the page showed.
GapShown(i) == (IF i \in DOMAIN sent.holdings THEN sent.holdings[i] ELSE 0) - preview.qty[i]

\* delta_qty: what the holdings sent say beyond the current position.
Gap(i) == (IF i \in DOMAIN sent.holdings THEN sent.holdings[i] ELSE 0) - Current(i)

Magnitude(n) == IF n < 0 THEN -n ELSE n

\* signed_quantity of a staged transaction.
Staged(t) == IF t.type = "buy" THEN Magnitude(Gap(t.instrument)) ELSE -Magnitude(Gap(t.instrument))

\* The accepted adjustment of i and the transactions staged for it, by day.
Written(i, d) ==
    (IF d = sent.date /\ sent.decisions[i] = "accept" THEN Gap(i) ELSE 0)
    + LET mine == {n \in DOMAIN sent.staged : /\ sent.staged[n].instrument = i
                                              /\ sent.staged[n].date = d}
          sum[S \in SUBSET mine] ==
              IF S = {} THEN 0
              ELSE LET n == CHOOSE n \in S : TRUE
                   IN  Staged(sent.staged[n]) + sum[S \ {n}]
      IN  sum[mine]

AfterSave == [i \in Instruments |-> [d \in Days |-> recorded[i][d] + Written(i, d)]]

\* recompute_fifo_for_pair: no disposal without lots.
Covered(r) == \A i \in Instruments : r[i][1] >= 0 /\ r[i][1] + r[i][2] >= 0

\* save_event and its commit in one step. The code reads the holdings before it takes
\* the write lock; the module Ledger splits the event there, with another client's
\* commits in between, and shows what that gap costs.
Commit ==
    /\ sent.step = "post"
    /\ IF WellFormed /\ Covered(AfterSave)
       THEN /\ recorded' = AfterSave
            /\ events' = events + 1
            /\ sent' = [step |-> "saved"]
       ELSE /\ sent' = [step |-> "refused"]
            /\ UNCHANGED server
    /\ UNCHANGED <<others, date, preview, form, drawer>>

\* The success handler clears the form, what was typed since Save included.
Answer ==
    /\ sent.step = "saved"
    /\ typed' = [i \in Instruments |-> Untouched]
    /\ decisions' = [i \in Instruments |-> Undecided]
    /\ added' = {}
    /\ staged' = <<>>
    /\ sent' = Idle
    /\ UNCHANGED <<server, others, date, preview, drawer>>

\* "Save failed": the form stays as it is.
Failure ==
    /\ sent.step = "refused"
    /\ sent' = Idle
    /\ UNCHANGED <<server, others, date, preview, form, drawer>>

\* The event is saved and its answer lost: the owner will save again.
LoseAnswer ==
    /\ sent.step = "saved"
    /\ others < MaxOthers
    /\ others' = others + 1
    /\ sent' = Idle
    /\ UNCHANGED <<server, date, preview, form, drawer>>

\* Another tab, or an accrual, records a transaction of the late day.
RecordElsewhere(i) ==
    /\ others < MaxOthers
    /\ others' = others + 1
    /\ recorded' = [recorded EXCEPT ![i][2] = @ + 1]
    /\ UNCHANGED <<events, date, preview, form, drawer, sent>>

-----------------------------------------------------------------------------

Next ==
    \/ LoadPreview
    \/ \E i \in Instruments :
        \/ Type(i) \/ AddRow(i) \/ Accept(i) \/ Dismiss(i) \/ OpenDrawer(i) \/ Undo(i)
        \/ RecordElsewhere(i)
    \/ \E d \in Days : ChangeDate(d)
    \/ Stage \/ CancelDrawer \/ Save
    \/ Commit \/ Answer \/ Failure \/ LoseAnswer

Spec == Init /\ [][Next]_vars

-----------------------------------------------------------------------------

Actions == {Undecided, "accept", "dismiss", "reject"}
Quantities == {Untouched, Cleared} \cup 0..MaxTyped
StagedTxns ==
    [open : {TRUE}, instrument : Instruments, type : {"buy", "sell", "spend"}, date : Days]

\* Type invariant of the page and the server.
TypeOK ==
    /\ recorded \in [Instruments -> [Days -> Int]] /\ Covered(recorded)
    /\ events \in 0..MaxEvents /\ others \in 0..MaxOthers /\ date \in Days
    /\ preview \in [shown : BOOLEAN, qty : [Instruments -> Int]]
    /\ typed \in [Instruments -> Quantities]
    /\ decisions \in [Instruments -> Actions]
    /\ added \subseteq Instruments
    /\ staged \in Seq(StagedTxns) /\ Len(staged) <= MaxStaged
    /\ drawer = Closed \/ drawer \in StagedTxns
    /\ sent.step \in {"idle", "post", "saved", "refused"}

\* The transactions staged for i are what its decision asks for: one, of the
\* direction the drift still has, when it was rejected, and none otherwise.
Tidy(i) ==
    LET mine == {n \in DOMAIN sent.staged : sent.staged[n].instrument = i}
    IN  IF sent.decisions[i] # "reject" THEN mine = {}
        ELSE Cardinality(mine) = 1 /\ \A n \in mine : (sent.staged[n].type = "buy") = (Gap(i) > 0)

\* "so the adjustment must close the gap against current app-state"
\* (services/reconciliation.py:185): whatever was recorded since the preview,
\* retyped since the decision, added twice or saved before with its answer
\* lost, an event leaves every accepted or rejected row with a tidy queue at
\* the quantity it was sent with.
GapsClose ==
    [][\A i \in Instruments :
          /\ events' # events
          /\ i \in DOMAIN sent.holdings
          /\ sent.decisions[i] \in {"accept", "reject"}
          /\ Tidy(i)
          => Current(i)' = sent.holdings[i]]_vars

\* The same of the accepted rows, however their decision came about.
AcceptedGapsClose ==
    [][\A i \in Instruments :
          /\ events' # events
          /\ i \in DOMAIN sent.holdings
          /\ sent.decisions[i] = "accept"
          => Current(i)' = sent.holdings[i]]_vars
=============================================================================
