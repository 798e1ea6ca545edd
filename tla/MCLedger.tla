------------------------------ MODULE MCLedger ------------------------------
(***************************************************************************)
(* One account with two instruments over two days.                         *)
(***************************************************************************)
EXTENDS Ledger

CONSTANTS broker, fund, cash

MCAccounts == {broker}
MCInstruments == {fund, cash}
MCDates == 1..2
MCQuantities == {2}

MCEdit(fields, date, quantity) ==
    [fields |-> fields, date |-> date, quantity |-> quantity]

\* A smaller amount (a trim, on an adjustment), a later date, and a note.
MCEdits ==
    {MCEdit({"quantity"}, 1, q) : q \in {-1, 1}}
    \cup {MCEdit({"date"}, 2, 0), MCEdit({"notes"}, 1, 0)}

\* A lot of the first instrument.
MCOpening == <<Txn(<<broker, fund>>, "buy", 1, 2, 0)>>

MCEvent(date, holdings, decisions, rejected) ==
    [account |-> broker, date |-> date, holdings |-> holdings,
     decisions |-> decisions, rejected |-> rejected]

MCDecision(instrument, action) == [instrument |-> instrument, action |-> action]

\* An accepted drift dated before some of the rows it corrects, beside a
\* dismissal, and a rejected drift entered as a disposal.
MCPayloads ==
    {MCEvent(1, fund :> 1 @@ cash :> 1,
             <<MCDecision(fund, "accept"), MCDecision(cash, "dismiss")>>, <<>>),
     MCEvent(1, fund :> 1,
             <<MCDecision(fund, "reject"), MCDecision(cash, "matched")>>,
             <<[instrument |-> fund, type |-> "spend", date |-> 2]>>)}

\* Fewer bodies where two requests race.
MCRacePayloads ==
    {MCEvent(1, fund :> 1, <<MCDecision(fund, "accept"), MCDecision(cash, "dismiss")>>, <<>>)}

MCRaceEdits == {MCEdit({"quantity"}, 1, 1), MCEdit({"date"}, 2, 0)}

\* The requests of two clients are interchangeable.
MCClientSymmetry == Permutations(Clients)
=============================================================================
