----------------------------- MODULE Valuation -----------------------------
(***************************************************************************)
(* What a valuation is made of: the positions and the figures shown of     *)
(* them, the exchange rates, and the catalog of instruments.  The three    *)
(* write different tables and their pages share no form, so one of them is *)
(* followed at a time.                                                     *)
(***************************************************************************)
EXTENDS Integers, Sequences, FiniteSets

CONSTANTS Accounts, Banked, Instruments, Funds, Risky, Costs, Prices, Opening, MaxTrades,
          LastDay, Weekend, Manual, Requests, Bootstrap, MaxRestarts,
          Symbols, Types, MaxInstruments

ASSUME ValuationAssumption ==
    /\ Accounts \subseteq Nat /\ Banked \subseteq Accounts
    /\ IsFiniteSet(Accounts) /\ IsFiniteSet(Instruments)
    /\ Funds \subseteq Instruments /\ Risky \subseteq Instruments
    /\ Costs \subseteq Nat /\ Prices \subseteq Nat \ {0}
    /\ Opening \subseteq [Accounts \X Instruments -> Seq(Costs \cap {0})]
    /\ {MaxTrades, Bootstrap, MaxRestarts} \subseteq Nat
    /\ LastDay \in Nat \ {0, 1} /\ Weekend \subseteq 1..LastDay
    /\ Manual \subseteq Nat \ (0..LastDay)
    /\ "stock" \in Types
    /\ Types \subseteq {"stock", "etf", "fund", "crypto", "stablecoin", "cash", "metal"}
    /\ MaxInstruments \in Nat \ {0}

VARIABLES part,
          lots, yields, gains, closing, quote, traded, trades, drill, excludeClosed, chosen,
          stored, today, request, job, jobRun, restarts,
          catalog, made, form, creating, pricing, edit, told

Positions == INSTANCE Portfolio
Rates == INSTANCE FxRates
Catalog == INSTANCE InstrumentScreens

positionVars ==
    <<lots, yields, gains, closing, quote, traded, trades, drill, excludeClosed, chosen>>
rateVars == <<stored, today, request, job, jobRun, restarts>>
catalogVars == <<catalog, made, form, creating, pricing, edit, told>>
vars == <<part, positionVars, rateVars, catalogVars>>

Parts == {"positions", "rates", "catalog"}

Init ==
    /\ part \in Parts
    /\ Positions!Init
    /\ Rates!Init
    /\ Catalog!Init
    /\ part # "positions" => \A p \in DOMAIN lots : lots[p] = <<>>
    /\ part # "rates" => today = LastDay
    /\ part # "catalog" => made = 0

Value == part = "positions" /\ Positions!Next /\ UNCHANGED <<part, rateVars, catalogVars>>

Convert == part = "rates" /\ Rates!Next /\ UNCHANGED <<part, positionVars, catalogVars>>

Maintain == part = "catalog" /\ Catalog!Next /\ UNCHANGED <<part, positionVars, rateVars>>

Next == Value \/ Convert \/ Maintain

Spec == Init /\ [][Next]_vars

-----------------------------------------------------------------------------

\* Type invariant of the three parts.
TypeOK == part \in Parts /\ Positions!TypeOK /\ Rates!TypeOK /\ Catalog!TypeOK

\* The figures of one ledger agree, whichever page shows them.
FiguresAgree == Positions!FiguresAgree

\* Only a manual override replaces a stored rate.
StoredRatesStand == Rates!StoredRatesStand

\* A create dialog that closes as done has stored the instrument and its price.
CreatedMeansPriced == Catalog!CreatedMeansPriced
=============================================================================
