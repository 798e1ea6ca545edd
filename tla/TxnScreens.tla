----------------------------- MODULE TxnScreens -----------------------------
(***************************************************************************)
(* The transaction list of one tab with what opens over it: the add        *)
(* picker and its forms, the edit dialog with its four forms, the delete   *)
(* confirmation.  Mutations outlive the dialog that sent them, and every   *)
(* screen works on cached rows.                                            *)
(*                                                                         *)
(* A row is its date, its quantity and, for a buy in dollars, its locked   *)
(* rate.  The ledger starts with a row of any one type, a yield next to an *)
(* automatic one, or a trade of two legs; rows that are added later are    *)
(* only counted.  The library's query cache is modelled from how the       *)
(* screens use it: an invalidation drops the fetch in flight and starts    *)
(* another.                                                                *)
(***************************************************************************)
EXTENDS Integers, Sequences, FiniteSets

CONSTANTS Amounts,      \* quantities a row may have
          MaxCalls,     \* bound: mutations sent
          MaxFaults     \* bound: refusals, lost answers and failed reads

Legs == {"sold", "received"}
Ids == {"buy", "spend", "yield", "accrual"} \cup Legs
Dates == {1, 2}
NoRate == 0
BrokerRate == 3      \* typed by the owner; the ECB rate of a date is its number

VARIABLES rows,     \* transactions of the server
          further,  \* number of rows added since
          list,     \* cached ["transactions", ...] query on the screen
          detail,   \* cached ["transaction", id] of the row opened last
          rates,    \* dates whose ["fx-rate", date] is cached
          dialog,
          calls,    \* mutations sent, in order
          faults

server == <<rows, further>>
cache == <<list, detail, rates>>
vars == <<server, cache, dialog, calls, faults>>

\* The legs of a trade go together.
Group(i) == IF i \in Legs THEN Legs ELSE {i}

NoFetch == [step |-> "none"]
NoForm == [mounted |-> FALSE]
NoDetail == [id |-> "none"]
Closed == [kind |-> "closed"]

Init ==
    /\ \E q \in Amounts, present \in {{"buy"}, {"spend"}, {"yield", "accrual"}, Legs} :
          rows = [i \in Ids |-> [date |-> 1, qty |-> q, live |-> i \in present,
                                 rate |-> IF i = "buy" THEN BrokerRate ELSE NoRate]]
    /\ further = 0
    /\ list = [rows |-> rows, further |-> 0, fetch |-> NoFetch, failed |-> FALSE, unsure |-> FALSE]
    /\ detail = NoDetail
    /\ rates = {}
    /\ dialog = Closed
    /\ calls = <<>>
    /\ faults = 0

Fault == faults < MaxFaults /\ faults' = faults + 1

-----------------------------------------------------------------------------
(***************************************************************************)
(* The list.                                                               *)
(***************************************************************************)

\* Mutant of Invalidate: a fetch that has been answered is left to finish.
InvalidateLazily ==
    list' = [list EXCEPT !.unsure = FALSE,
                         !.fetch = IF @.step = "read" THEN @ ELSE [step |-> "asked"]]

\* invalidatePortfolioCache: only the portfolio's keys, so neither detail nor
\* rates are read again.
Invalidate == list' = [list EXCEPT !.unsure = FALSE, !.fetch = [step |-> "asked"]]

\* GET /api/transactions is answered ...
ListRead ==
    /\ list.fetch.step = "asked"
    /\ list' = [list EXCEPT !.fetch = [step |-> "read", rows |-> rows, further |-> further]]
    /\ UNCHANGED <<server, detail, rates, dialog, calls, faults>>

\* ... and shown.
ListArrives ==
    /\ list.fetch.step = "read"
    /\ list' = [list EXCEPT !.rows = list.fetch.rows, !.further = list.fetch.further,
                            !.fetch = NoFetch, !.failed = FALSE]
    /\ UNCHANGED <<server, detail, rates, dialog, calls, faults>>

\* Four attempts have failed: the error takes the place of the list and of the
\* dialogs it holds, whose forms lose what was typed.
ListFails ==
    /\ list.fetch.step = "asked"
    /\ Fault
    /\ list' = [list EXCEPT !.fetch = NoFetch, !.failed = TRUE]
    /\ dialog' = IF dialog.kind = "edit" THEN [dialog EXCEPT !.form = NoForm, !.call = 0]
                 ELSE dialog
    /\ UNCHANGED <<server, detail, rates, calls>>

Retry ==
    /\ list.failed
    /\ list.fetch = NoFetch
    /\ list' = [list EXCEPT !.fetch = [step |-> "asked"]]
    /\ UNCHANGED <<server, detail, rates, dialog, calls, faults>>

-----------------------------------------------------------------------------
(***************************************************************************)
(* Opening and closing.                                                    *)
(***************************************************************************)

\* The last mutation's answer closes the story: nothing is opened after it was
\* sent.
MayOpen == dialog = Closed /\ Len(calls) < MaxCalls

\* AddButton; the provider's reducer.
OpenPicker ==
    /\ MayOpen
    /\ dialog' = [kind |-> "pick"]
    /\ UNCHANGED <<server, cache, calls, faults>>

AddTypes == {"buy", "sell", "trade", "spend", "yield"}

PickType(type) ==
    /\ dialog.kind = "pick"
    /\ dialog' = [kind |-> "add", type |-> type, call |-> 0]
    /\ UNCHANGED <<server, cache, calls, faults>>

\* TxnRowActions: what a row that is not deleted offers.
OnRow(i) == MayOpen /\ ~list.failed /\ list.rows[i].live

\* openEdit: the dialog's query answers from the cache if it can.
OpenEdit(i) ==
    /\ OnRow(i)
    /\ dialog' = [kind |-> "edit", id |-> i, form |-> NoForm, call |-> 0]
    /\ detail' = IF detail.id = i THEN detail ELSE NoDetail
    /\ UNCHANGED <<server, list, rates, calls, faults>>

OpenDelete(i) ==
    /\ OnRow(i)
    /\ dialog' = [kind |-> "delete", id |-> i, call |-> 0]
    /\ UNCHANGED <<server, cache, calls, faults>>

\* Cancel, Escape or a click outside, also while a mutation is pending.
Close ==
    /\ dialog # Closed
    /\ dialog' = Closed
    /\ UNCHANGED <<server, cache, calls, faults>>

\* GET /api/transactions/{id}, the first or one in the background.
DetailArrives ==
    /\ dialog.kind = "edit"
    /\ rows[dialog.id].live
    /\ detail' = [id |-> dialog.id, row |-> rows[dialog.id]]
    /\ detail' # detail
    /\ UNCHANGED <<server, list, rates, dialog, calls, faults>>

-----------------------------------------------------------------------------
(***************************************************************************)
(* The edit forms.                                                         *)
(***************************************************************************)

Unreadable == 0

\* formatQuantity groups by thousands and decimalField takes the first comma
\* for a decimal one: what a form reads back from its own rendering of a whole
\* number of thousands (or of less than a thousand).
Reread(q) == IF q < 1000 THEN q ELSE q \div 1000

\* A spend is shown with the sign it is stored with, which no form accepts.
InitialQty(i, row) == IF i = "spend" THEN Unreadable ELSE Reread(row.qty)

\* FxRateField: the ECB rate of the form's date replaces any that was not
\* typed, the one the row was saved with included.
Prefill(form) ==
    IF dialog.id = "buy" /\ form.date \in rates' /\ "rate" \notin form.typed
    THEN [form EXCEPT !.rate = form.date] ELSE form

\* pairedLeg comes from the list, whatever its age; the leg opened from detail.
Leg(i) == IF i = detail.id THEN detail.row ELSE list.rows[i]

\* The body's branches: an accrual shows a banner, a trade without its partner
\* a skeleton.  defaultValues are read once, when the form mounts; the date of
\* a trade is the sold leg's.
Mount ==
    /\ dialog.kind = "edit"
    /\ ~dialog.form.mounted
    /\ ~list.failed
    /\ detail.id = dialog.id
    /\ dialog.id # "accrual"
    /\ \A i \in Group(dialog.id) : Leg(i).live
    /\ rates' = rates
    /\ LET first == IF dialog.id \in Legs THEN "sold" ELSE dialog.id
           group == Group(dialog.id)
       IN  dialog' = [dialog EXCEPT
              !.form = Prefill([mounted |-> TRUE, date |-> Leg(first).date,
                                qty |-> [i \in group |-> InitialQty(i, Leg(i))],
                                rate |-> Leg(first).rate, typed |-> {}])]
    /\ UNCHANGED <<server, list, detail, calls, faults>>

InForm == dialog.kind = "edit" /\ dialog.form.mounted /\ ~list.failed

RateArrives ==
    /\ InForm
    /\ dialog.id = "buy"
    /\ dialog.form.date \notin rates
    /\ rates' = rates \cup {dialog.form.date}
    /\ dialog' = [dialog EXCEPT !.form = Prefill(@)]
    /\ UNCHANGED <<server, list, detail, calls, faults>>

\* A change of date forgets that the rate was typed.
TypeDate(d) ==
    /\ InForm
    /\ d # dialog.form.date
    /\ rates' = rates
    /\ LET form == [dialog.form EXCEPT !.date = d, !.typed = (@ \ {"rate"}) \cup {"date"}]
       IN  dialog' = [dialog EXCEPT !.form = Prefill(form)]
    /\ UNCHANGED <<server, list, detail, calls, faults>>

\* Leaving the field groups what was typed (onBlur), so that it is read as an
\* initial quantity is; Enter in the field itself, which sends it as it was
\* typed, is left out.
TypeQuantity(i, q) ==
    /\ InForm
    /\ i \in Group(dialog.id)
    /\ dialog' = [dialog EXCEPT !.form.qty[i] = Reread(q), !.form.typed = @ \cup {i}]
    /\ UNCHANGED <<server, cache, calls, faults>>

TypeRate ==
    /\ InForm
    /\ dialog.id = "buy"
    /\ dialog' = [dialog EXCEPT !.form.rate = BrokerRate, !.form.typed = @ \cup {"rate"}]
    /\ UNCHANGED <<server, cache, calls, faults>>

\* "Reset to ECB"
ResetRate ==
    /\ InForm
    /\ dialog.id = "buy"
    /\ "rate" \in dialog.form.typed
    /\ dialog.form.date \in rates
    /\ dialog' = [dialog EXCEPT !.form.rate = dialog.form.date, !.form.typed = @ \ {"rate"}]
    /\ UNCHANGED <<server, cache, calls, faults>>

-----------------------------------------------------------------------------
(***************************************************************************)
(* Mutations.  One part of a mutation is one request: a trade is edited by *)
(* two, its deletion is one that cascades.                                 *)
(***************************************************************************)

Done(told) == [kind |-> "done", told |-> told]
Outstanding == {n \in DOMAIN calls : calls[n].kind # "done"}

\* The submit button is disabled while the mutation of its own form is pending.
MaySend == dialog.call = 0 /\ Len(calls) < MaxCalls

Send(kind, parts, body) ==
    /\ MaySend
    /\ calls' = Append(
          [n \in DOMAIN calls |->
              IF n \in Outstanding THEN [calls[n] EXCEPT !.alone = FALSE] ELSE calls[n]],
          [kind |-> kind, parts |-> [p \in parts |-> "sent"], body |-> body,
           alone |-> Outstanding = {}])
    /\ dialog' = [dialog EXCEPT !.call = Len(calls) + 1]
    /\ UNCHANGED <<server, cache, faults>>

\* The form's values as the body of a PUT for each row.
Values ==
    [i \in Group(dialog.id) |->
        [date |-> dialog.form.date, qty |-> dialog.form.qty[i], live |-> TRUE,
         rate |-> dialog.form.rate]]

Put == Send("edit", Group(dialog.id), Values)

SaveBuy == InForm /\ dialog.id = "buy" /\ Put

\* Mutant of SaveSpend: the quantity is sent unchecked.
SaveSpendUnread == InForm /\ dialog.id = "spend" /\ Put

SaveSpend ==
    /\ InForm
    /\ dialog.id = "spend"
    /\ dialog.form.qty["spend"] # Unreadable
    /\ Put

SaveYield == InForm /\ dialog.id = "yield" /\ Put

SaveTrade == InForm /\ dialog.id \in Legs /\ Put

ConfirmDelete ==
    /\ dialog.kind = "delete"
    /\ ~list.failed
    /\ Send("delete", {dialog.id}, [i \in Group(dialog.id) |-> list.rows[i]])

SubmitNew ==
    /\ dialog.kind = "add"
    /\ Send("add", {dialog.type}, <<>>)

-----------------------------------------------------------------------------

SetPart(n, p, outcome) == calls' = [calls EXCEPT ![n].parts[p] = outcome]
Sent(n, p) == p \in DOMAIN calls[n].parts /\ calls[n].parts[p] = "sent"

\* PUT /api/transactions/{id}: a tombstone is not found.
ApplyPut(n, p) ==
    /\ calls[n].kind = "edit"
    /\ Sent(n, p)
    /\ IF rows[p].live
       THEN /\ rows' = [rows EXCEPT ![p] = calls[n].body[p]]
            /\ SetPart(n, p, "saved")
       ELSE /\ UNCHANGED rows
            /\ SetPart(n, p, "refused")
    /\ UNCHANGED <<further, cache, dialog, faults>>

ApplyDelete(n, p) ==
    /\ calls[n].kind = "delete"
    /\ Sent(n, p)
    /\ IF rows[p].live
       THEN /\ rows' = [i \in Ids |-> IF i \in Group(p) THEN [rows[i] EXCEPT !.live = FALSE]
                                      ELSE rows[i]]
            /\ SetPart(n, p, "saved")
       ELSE /\ UNCHANGED rows
            /\ SetPart(n, p, "refused")
    /\ UNCHANGED <<further, cache, dialog, faults>>

\* POST of a transaction or a trade.  A sell has to come as a trade.
ApplyPost(n, p) ==
    /\ calls[n].kind = "add"
    /\ Sent(n, p)
    /\ IF p # "sell"
       THEN /\ further' = further + 1
            /\ SetPart(n, p, "saved")
       ELSE /\ UNCHANGED further
            /\ SetPart(n, p, "refused")
    /\ UNCHANGED <<rows, cache, dialog, faults>>

\* Lots that do not suffice, a rate that cannot be had, a request that is lost.
Refuse(n, p) ==
    /\ Sent(n, p)
    /\ Fault
    /\ SetPart(n, p, "refused")
    /\ UNCHANGED <<server, cache, dialog>>

\* The request was served and its answer is lost.
LoseAnswer(n, p) ==
    /\ p \in DOMAIN calls[n].parts
    /\ calls[n].parts[p] = "saved"
    /\ Fault
    /\ SetPart(n, p, "unheard")
    /\ UNCHANGED <<server, cache, dialog>>

Answered(n) == \A p \in DOMAIN calls[n].parts : calls[n].parts[p] # "sent"
SomeSaved(n) == \E p \in DOMAIN calls[n].parts : calls[n].parts[p] = "saved"

\* Mutant of AllSaved: one leg will do.
AnySaved(n) == Answered(n) /\ SomeSaved(n)

AllSaved(n) == \A p \in DOMAIN calls[n].parts : calls[n].parts[p] = "saved"

\* closeEditDrawer, setDeleteTxn(null) and CLOSE do not ask whose dialog is open.
ClosedBy(kind) ==
    IF dialog.kind \in (IF kind = "add" THEN {"pick", "add"} ELSE {kind}) THEN Closed
    ELSE dialog

Released(n) ==
    IF dialog.kind \in {"edit", "delete", "add"} /\ dialog.call = n
    THEN [dialog EXCEPT !.call = 0] ELSE dialog

Succeed(n) ==
    /\ Answered(n)
    /\ AllSaved(n)
    /\ Invalidate
    /\ dialog' = ClosedBy(calls[n].kind)
    /\ calls' = [calls EXCEPT ![n] = Done("success")]
    /\ UNCHANGED <<server, detail, rates, faults>>

\* One leg only: the toast names the other, and the dialog stays for a retry.
SucceedInPart(n) ==
    /\ Answered(n)
    /\ SomeSaved(n)
    /\ ~AllSaved(n)
    /\ Invalidate
    /\ dialog' = Released(n)
    /\ calls' = [calls EXCEPT ![n] = Done("partial")]
    /\ UNCHANGED <<server, detail, rates, faults>>

\* "Could not save": nothing is read again.
Fail(n) ==
    /\ Answered(n)
    /\ ~SomeSaved(n)
    /\ list' = [list EXCEPT !.unsure =
                  @ \/ \E p \in DOMAIN calls[n].parts : calls[n].parts[p] = "unheard"]
    /\ dialog' = Released(n)
    /\ calls' = [calls EXCEPT ![n] = Done("failure")]
    /\ UNCHANGED <<server, detail, rates, faults>>

-----------------------------------------------------------------------------

Serve(n, p) == ApplyPut(n, p) \/ ApplyDelete(n, p) \/ ApplyPost(n, p)
Settle(n) == Succeed(n) \/ SucceedInPart(n) \/ Fail(n)

Next ==
    \/ ListRead \/ ListArrives \/ ListFails \/ Retry
    \/ OpenPicker \/ \E type \in AddTypes : PickType(type)
    \/ \E i \in Ids : OpenEdit(i) \/ OpenDelete(i)
    \/ Close \/ DetailArrives \/ Mount \/ RateArrives
    \/ \E d \in Dates : TypeDate(d)
    \/ \E i \in Ids, q \in Amounts : TypeQuantity(i, q)
    \/ TypeRate \/ ResetRate
    \/ SaveBuy \/ SaveSpend \/ SaveYield \/ SaveTrade \/ ConfirmDelete \/ SubmitNew
    \/ \E n \in Outstanding :
        \/ \E p \in DOMAIN calls[n].parts : Serve(n, p) \/ Refuse(n, p) \/ LoseAnswer(n, p)
        \/ Settle(n)

\* Requests are served and answers handled; the owner need not do anything.
Fairness ==
    /\ WF_vars(ListRead)
    /\ WF_vars(ListArrives)
    /\ WF_vars(\E n \in Outstanding : \E p \in DOMAIN calls[n].parts : Serve(n, p))
    /\ WF_vars(\E n \in Outstanding : Settle(n))

Spec == Init /\ [][Next]_vars /\ Fairness

-----------------------------------------------------------------------------

Rows == [date : Dates, qty : Nat \ {0}, rate : 0..BrokerRate, live : BOOLEAN]

\* Type invariant of the tab and the server.
TypeOK ==
    /\ rows \in [Ids -> Rows]
    /\ further \in 0..MaxCalls
    /\ list.rows \in [Ids -> Rows] /\ list.fetch.step \in {"none", "asked", "read"}
    /\ detail # NoDetail => detail.id \in Ids /\ detail.row \in Rows
    /\ rates \subseteq Dates
    /\ dialog.kind \in {"closed", "pick", "add", "edit", "delete"}
    /\ Len(calls) <= MaxCalls /\ faults \in 0..MaxFaults

\* The list on the screen comes to show what the server has, shows its error
\* with a Retry, or follows a save whose answer was lost: no read that was
\* under way when a change was saved is left standing for it.
ListsCatchUp ==
    []<>(list.failed \/ list.unsure \/ (list.rows = rows /\ list.further = further))

\* A dialog that reports success has saved everything it sent: both legs of a
\* trade, whatever was refused or lost before and retried.  Mutations that
\* overlap may overwrite each other and are left out.
SuccessMeansSaved ==
    [][\A n \in Outstanding :
          /\ calls[n].alone
          /\ calls'[n] = Done("success")
          => /\ calls[n].kind = "edit" => \A i \in DOMAIN calls[n].body : rows[i] = calls[n].body[i]
             /\ calls[n].kind = "delete" => \A i \in DOMAIN calls[n].body : ~rows[i].live]_vars

\* "decimalField rejects grouped thousands" (lib/__tests__/decimal-strings.test.ts:216):
\* no edit changes a quantity the owner did not type.
UntypedQuantityKept ==
    [][SaveBuy \/ SaveSpend \/ SaveYield \/ SaveTrade
       => \A i \in Group(dialog.id) :
              Values[i].qty = Leg(i).qty \/ i \in dialog.form.typed]_vars
=============================================================================
