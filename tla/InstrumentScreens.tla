------------------------- MODULE InstrumentScreens -------------------------
(***************************************************************************)
(* The catalog of instruments and the dialogs that write it: the create    *)
(* dialog with its optional first price, the edit dialog, the NAV tab, the *)
(* delete and backfill buttons.                                            *)
(*                                                                         *)
(* Creating with a price takes two requests.  The form is only told of the *)
(* first while it is mounted (closing it drops the typed price); once the  *)
(* second is sent its answer closes the create dialog whichever form is in *)
(* it by then.  The server handles a request when its answer arrives; an   *)
(* answer that gets lost may have been handled or not.  Names, currencies, *)
(* risk levels and decimals are left out.                                  *)
(***************************************************************************)
EXTENDS Integers, FiniteSets

CONSTANTS
    Symbols,
    Types,            \* the instrument types used, "stock" among them
    MaxInstruments    \* bound on the instruments ever created

VARIABLES
    catalog,          \* per id: NoInstrument, or its symbol, type, source and quotes
    made,             \* ids used so far; they are never reused
    form,             \* the create dialog: Closed, or what it holds
    creating,         \* POST /api/instruments in flight
    pricing,          \* ids whose first price is in flight
    edit,             \* the edit dialog: Closed, or what it holds
    told              \* what the create dialog last reported as done

vars == <<catalog, made, form, creating, pricing, edit, told>>

NoInstrument == [symbol |-> "none"]
Closed == [type |-> "none"]
NoReport == [id |-> 0]
Ids == 1..MaxInstruments

\* The provider of a type; metal has none.
Automatic ==
    [stock |-> "finnhub", etf |-> "finnhub", fund |-> "ft", crypto |-> "coingecko",
     stablecoin |-> "coingecko", cash |-> "na", metal |-> "none"]

\* What the server accepts, and what the edit dialog lists (the first is its default).
Extra(type) == IF type \in {"etf", "metal"} THEN {"ft"} ELSE {}
Allowed(type) ==
    IF type = "cash" THEN {"na"} ELSE ({Automatic[type], "manual"} \ {"none"}) \cup Extra(type)

OfferedExtra(type) == Allowed(type) \cup {"manual"}
Offered(type) == Allowed(type) \ Extra(type)
Default(type) == IF type = "metal" THEN "manual" ELSE Automatic[type]

\* The modes of the create dialog.
Modes(type) ==
    CASE type = "cash" -> {"automatic"}
      [] type = "metal" -> {"manual"}
      [] OTHER -> {"automatic", "manual"}
Preferred(type) == IF "automatic" \in Modes(type) THEN "automatic" ELSE "manual"
Source(type, mode) == IF mode = "automatic" THEN Automatic[type] ELSE "manual"

Live == {id \in Ids : catalog[id] # NoInstrument}
Taken(symbol, type, id) ==
    \E other \in Live \ {id} : catalog[other].symbol = symbol /\ catalog[other].type = type

Entry(symbol, type, source) == [symbol |-> symbol, type |-> type, source |-> source, quotes |-> {}]

\* A new catalog, or one with an instrument of any accepted source.
Init ==
    /\ \E seed \in {NoInstrument} \cup
                   UNION {{Entry(s, t, source) : source \in Allowed(t)} : s \in Symbols, t \in Types} :
        /\ catalog = [id \in Ids |-> IF id = 1 THEN seed ELSE NoInstrument]
        /\ made = IF seed = NoInstrument THEN 0 ELSE 1
    /\ form = Closed
    /\ creating = {}
    /\ pricing = {}
    /\ edit = Closed
    /\ told = NoReport

-----------------------------------------------------------------------------
(* The create dialog.                                                      *)

OpenCreate ==
    /\ form = Closed /\ edit = Closed
    /\ form' = [type |-> "stock", mode |-> "automatic", typed |-> FALSE]
    /\ UNCHANGED <<catalog, made, creating, pricing, edit, told>>

\* Changing the type resets the mode.
ChangeType(type) ==
    /\ form # Closed /\ form.type # type
    /\ form' = [form EXCEPT !.type = type, !.mode = Preferred(type)]
    /\ UNCHANGED <<catalog, made, creating, pricing, edit, told>>

ChangeMode(mode) ==
    /\ form # Closed
    /\ mode \in Modes(form.type) \ {form.mode}
    /\ form' = [form EXCEPT !.mode = mode]
    /\ UNCHANGED <<catalog, made, creating, pricing, edit, told>>

\* The price field is shown in manual mode, and keeps its text when hidden.
TypePrice ==
    /\ form # Closed /\ form.mode = "manual"
    /\ form' = [form EXCEPT !.typed = ~@]
    /\ UNCHANGED <<catalog, made, creating, pricing, edit, told>>

\* The button is disabled while the create is pending, not while the price is.
Submit(symbol) ==
    /\ form # Closed
    /\ \A c \in creating : ~c.watched
    /\ made + Cardinality(creating) < MaxInstruments
    /\ creating' = creating \cup
            {[symbol |-> symbol, type |-> form.type, source |-> Source(form.type, form.mode),
              typed |-> form.mode = "manual" /\ form.typed, watched |-> TRUE]}
    /\ UNCHANGED <<catalog, made, form, pricing, edit, told>>

\* An unmounted form no longer hears of its create.
Unmount(requests) ==
    /\ form' = Closed
    /\ creating' = {[c EXCEPT !.watched = FALSE] : c \in requests}

Cancel ==
    /\ form # Closed
    /\ Unmount(creating)
    /\ UNCHANGED <<catalog, made, pricing, edit, told>>

Acceptable(c) == c.source \in Allowed(c.type) /\ ~Taken(c.symbol, c.type, 0)
Store(c) ==
    /\ Acceptable(c)
    /\ made' = made + 1
    /\ catalog' = [catalog EXCEPT ![made + 1] = Entry(c.symbol, c.type, c.source)]

\* With a price to save, the form sends it now; without one, it is done.
Created(c) ==
    /\ Store(c)
    /\ IF c.watched /\ ~c.typed
       THEN told' = [id |-> made + 1, typed |-> FALSE] /\ Unmount(creating \ {c})
       ELSE creating' = creating \ {c} /\ UNCHANGED <<form, told>>
    /\ pricing' = IF c.watched /\ c.typed THEN pricing \cup {made + 1} ELSE pricing
    /\ UNCHANGED edit

\* Refused (a duplicate is a 409), or unanswered: the form stays, with an error.
CreateFails(c) ==
    /\ creating' = creating \ {c}
    /\ UNCHANGED <<catalog, made>> \/ Store(c)
    /\ UNCHANGED <<form, pricing, edit, told>>

PriceSaved(id) ==
    /\ catalog[id] # NoInstrument
    /\ catalog' = [catalog EXCEPT ![id].quotes = @ \cup {"manual"}]
    /\ pricing' = pricing \ {id}
    /\ told' = [id |-> id, typed |-> TRUE]
    /\ Unmount(creating)
    /\ UNCHANGED <<made, edit>>

PriceFailsClosing(id) ==
    /\ catalog[id] = NoInstrument
    /\ pricing' = pricing \ {id}
    /\ told' = [id |-> id, typed |-> TRUE]
    /\ Unmount(creating)
    /\ UNCHANGED <<catalog, made, edit>>

\* The instrument is gone, or the answer is lost: the form stays, with an error.
PriceFails(id) ==
    /\ pricing' = pricing \ {id}
    /\ \/ UNCHANGED catalog
       \/ /\ catalog[id] # NoInstrument
          /\ catalog' = [catalog EXCEPT ![id].quotes = @ \cup {"manual"}]
    /\ UNCHANGED <<made, form, creating, edit, told>>

-----------------------------------------------------------------------------
(* The edit dialog: what is sent replaces the whole instrument.            *)

OpenEdit(id) ==
    /\ form = Closed /\ edit = Closed
    /\ catalog[id] # NoInstrument
    /\ edit' = [id |-> id, symbol |-> catalog[id].symbol, type |-> catalog[id].type,
                source |-> catalog[id].source]
    /\ UNCHANGED <<catalog, made, form, creating, pricing, told>>

\* Changing the type keeps a source it also has, and else takes its default.
EditType(type) ==
    /\ edit # Closed /\ edit.type # type
    /\ edit' = [edit EXCEPT !.type = type,
                            !.source = IF @ \in Offered(type) THEN @ ELSE Default(type)]
    /\ UNCHANGED <<catalog, made, form, creating, pricing, told>>

EditSource(source) ==
    /\ edit # Closed
    /\ source \in Offered(edit.type) \ {edit.source}
    /\ edit' = [edit EXCEPT !.source = source]
    /\ UNCHANGED <<catalog, made, form, creating, pricing, told>>

CloseEdit ==
    /\ edit # Closed
    /\ edit' = Closed
    /\ UNCHANGED <<catalog, made, form, creating, pricing, told>>

\* A saved edit closes the dialog, unless its answer is lost.  A refused one (the
\* instrument is gone, the name is taken) leaves everything as it is.
SaveEdit ==
    /\ edit # Closed
    /\ catalog[edit.id] # NoInstrument
    /\ edit.source \in Allowed(edit.type)
    /\ ~Taken(edit.symbol, edit.type, edit.id)
    /\ catalog' = [catalog EXCEPT ![edit.id].type = edit.type, ![edit.id].source = edit.source]
    /\ edit' \in {edit, Closed}
    /\ UNCHANGED <<made, form, creating, pricing, told>>

-----------------------------------------------------------------------------
(* The other writers, of this tab or another.                              *)

\* POST /api/prices/manual takes any instrument. The page offers it for funds and
\* manual ones (canHaveManualNav), as loaded: the type may have been edited since.
SaveNav(id) ==
    /\ catalog[id] # NoInstrument
    /\ catalog' = [catalog EXCEPT ![id].quotes = @ \cup {"manual"}]
    /\ UNCHANGED <<made, form, creating, pricing, edit, told>>

DeleteNav(id) ==
    /\ catalog[id] # NoInstrument /\ "manual" \in catalog[id].quotes
    /\ catalog' = [catalog EXCEPT ![id].quotes = @ \ {"manual"}]
    /\ UNCHANGED <<made, form, creating, pricing, edit, told>>

\* A backfill or the nightly refresh adds days a provider has, and no manual price.
Backfill(id) ==
    /\ catalog[id] # NoInstrument /\ catalog[id].source \in {"finnhub", "coingecko", "ft"}
    /\ catalog' = [catalog EXCEPT ![id].quotes = @ \cup {"live"}]
    /\ UNCHANGED <<made, form, creating, pricing, edit, told>>

\* An instrument without transactions is deleted with its prices.
Delete(id) ==
    /\ catalog[id] # NoInstrument
    /\ catalog' = [catalog EXCEPT ![id] = NoInstrument]
    /\ UNCHANGED <<made, form, creating, pricing, edit, told>>

Next ==
    \/ OpenCreate \/ TypePrice \/ Cancel \/ CloseEdit \/ SaveEdit
    \/ \E type \in Types : ChangeType(type) \/ EditType(type)
    \/ \E mode \in {"automatic", "manual"} : ChangeMode(mode)
    \/ \E symbol \in Symbols : Submit(symbol)
    \/ \E c \in creating : Created(c) \/ CreateFails(c)
    \/ \E id \in pricing : PriceSaved(id) \/ PriceFails(id)
    \/ \E source \in {"finnhub", "coingecko", "ft", "manual", "na"} : EditSource(source)
    \/ \E id \in Ids : OpenEdit(id) \/ SaveNav(id) \/ DeleteNav(id) \/ Backfill(id) \/ Delete(id)

Spec == Init /\ [][Next]_vars

-----------------------------------------------------------------------------

\* Neither dialog can hold a source the server refuses for its type: "the toggle
\* should make this unreachable".
OffersAccepted ==
    /\ form # Closed => Source(form.type, form.mode) \in Allowed(form.type)
    /\ edit # Closed => edit.source \in Allowed(edit.type)

\* Names are unique per type, and every instrument has an accepted source.
CatalogOK ==
    \A id \in Live :
        /\ id <= made
        /\ catalog[id].symbol \in Symbols /\ catalog[id].type \in Types
        /\ catalog[id].source \in Allowed(catalog[id].type)
        /\ catalog[id].quotes \subseteq {"manual", "live"}
        /\ ~Taken(catalog[id].symbol, catalog[id].type, id)

TypeOK ==
    /\ made \in 0..MaxInstruments
    /\ CatalogOK
    /\ OffersAccepted
    /\ pricing \subseteq 1..made
    /\ Cardinality({c \in creating : c.watched}) <= 1
    /\ told = NoReport \/ told.id \in 1..made

\* When the create dialog closes as done, the instrument is in the catalog, and
\* its price too if one was typed.
CreatedMeansPriced ==
    [][told' # told =>
        /\ catalog'[told'.id] # NoInstrument
        /\ told'.typed => "manual" \in catalog'[told'.id].quotes]_vars
=============================================================================
