------------------------------ MODULE Screens ------------------------------
(***************************************************************************)
(* One tab of the application, on one of its two pages that change the     *)
(* ledger: the transaction list (/track) or the reconciliation of an       *)
(* account (/settings/accounts/[id]/reconcile).  Leaving a page unmounts   *)
(* its forms, so a tab is followed on the page it opened.                  *)
(***************************************************************************)
EXTENDS Integers, Sequences, FiniteSets

CONSTANTS Amounts, MaxCalls, MaxFaults,
          Instruments, MaxTyped, MaxStaged, MaxEvents, MaxOthers

ASSUME ScreensAssumption ==
    /\ Amounts \subseteq Nat \ {0}
    /\ {MaxCalls, MaxFaults, MaxTyped, MaxStaged, MaxEvents, MaxOthers} \subseteq Nat

VARIABLES page,
          rows, further, list, detail, rates, dialog, calls, faults,
          recorded, events, others, date, preview, typed, decisions, added, staged, drawer, sent

Ledger == INSTANCE TxnScreens
Recon == INSTANCE ReconScreen

ledgerVars == <<rows, further, list, detail, rates, dialog, calls, faults>>
reconVars ==
    <<recorded, events, others, date, preview, typed, decisions, added, staged, drawer, sent>>
vars == <<page, ledgerVars, reconVars>>

Pages == {"track", "reconcile"}

Init ==
    /\ page \in Pages
    /\ Ledger!Init
    /\ Recon!Init
    /\ page = "track" => recorded = [i \in Instruments |-> <<0, 0>>]
    /\ page = "reconcile" => rows["buy"].live

Track == page = "track" /\ Ledger!Next /\ UNCHANGED <<page, reconVars>>

Reconcile == page = "reconcile" /\ Recon!Next /\ UNCHANGED <<page, ledgerVars>>

Next == Track \/ Reconcile

Spec == Init /\ [][Next]_vars /\ Ledger!Fairness

-----------------------------------------------------------------------------

\* Type invariant of both pages.
TypeOK == page \in Pages /\ Ledger!TypeOK /\ Recon!TypeOK

\* A list that has loaded comes to show what the server has after the changes
\* its own dialogs made.
ListsCatchUp == Ledger!ListsCatchUp

\* A dialog that reports success has saved everything it sent.
SuccessMeansSaved == Ledger!SuccessMeansSaved

\* A saved reconciliation leaves the positions at the broker's figures.
GapsClose == Recon!GapsClose
=============================================================================
