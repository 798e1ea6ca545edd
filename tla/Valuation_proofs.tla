-------------------------- MODULE Valuation_proofs --------------------------
(***************************************************************************)
(* What valuations rest on, for calendars of any length, any number of     *)
(* concurrent requests and catalogs of any size: every stored rate is a    *)
(* real one and only a manual override replaces it, the create dialog      *)
(* reports nothing that is not stored, and the figures that the pages show *)
(* of one ledger agree.                                                    *)
(***************************************************************************)
EXTENDS Valuation, Induction_proofs, FiniteSetTheorems, SequenceTheorems

-----------------------------------------------------------------------------
(* The rates.                                                              *)

\* What may be shown as the rate of a day: one typed in, or one published for
\* that day or an earlier one.
Plausible(d, rate) ==
    rate \in Manual \/ (rate \in Rates!Days \ Weekend /\ rate <= d)

RowSets == UNION {[S -> Nat] : S \in SUBSET Rates!Days}

PlausibleRows(rows) == \A d \in DOMAIN rows : Plausible(d, rows[d])

Slots ==
    [pc : {"idle", "fetch", "commit", "update", "record"}, kind : {"none", "date", "range"},
     first : Int, last : Int, rows : RowSets]

\* A request asks for a day of the calendar, and what it is about to write is
\* plausible; it replaces rows only by what the user typed.
RequestOK(slot) ==
    /\ slot.pc # "record"
    /\ slot.pc = "fetch" => slot.last \in Rates!Days
    /\ slot.pc = "commit" => PlausibleRows(slot.rows)
    /\ slot.pc = "update" => \A d \in DOMAIN slot.rows : slot.rows[d] \in Manual

JobOK(slot) ==
    /\ slot.pc # "update"
    /\ slot.pc = "commit" => PlausibleRows(slot.rows)

RatesInv ==
    /\ stored \in [Rates!Days -> Nat]
    /\ \A d \in Rates!Days : Rates!Known(d) => Plausible(d, stored[d])
    /\ today \in Rates!Days
    /\ request \in [Requests -> Slots]
    /\ \A r \in Requests : RequestOK(request[r])
    /\ job \in Slots /\ JobOK(job)
    /\ jobRun \in {"none", "failed", "ok"}
    /\ restarts \in 0..MaxRestarts

LEMMA Calendar ==
    /\ LastDay \in Nat /\ LastDay > 1
    /\ Rates!Days = 1..LastDay /\ Weekend \subseteq Rates!Days
    /\ Manual \subseteq Nat
    /\ MaxRestarts \in Nat /\ Bootstrap \in Nat /\ MaxTrades \in Nat
  BY ValuationAssumption DEF Rates!Days

LEMMA RowSet ==
    ASSUME NEW S \in SUBSET Rates!Days, NEW f \in [S -> Nat]
    PROVE  f \in RowSets
  BY DEF RowSets

LEMMA RowsOfSet ==
    ASSUME NEW rows \in RowSets
    PROVE  /\ DOMAIN rows \subseteq Rates!Days
           /\ \A d \in DOMAIN rows : rows[d] \in Nat
  BY DEF RowSets

LEMMA NoRowsOK == Rates!NoRows \in RowSets
  <1>1. Rates!NoRows \in [{} -> Nat]
    BY DEF Rates!NoRows
  <1> QED BY <1>1, RowSet

LEMMA IdleOK == Rates!Idle \in Slots /\ Rates!Idle.pc = "idle"
  BY NoRowsOK DEF Rates!Idle, Slots

LEMMA WritingOK ==
    ASSUME NEW pc \in {"commit", "update", "record"}, NEW rows \in RowSets
    PROVE  /\ Rates!Writing(pc, rows) \in Slots
           /\ Rates!Writing(pc, rows).pc = pc
           /\ Rates!Writing(pc, rows).rows = rows
  <1> DEFINE slot == [Rates!Idle EXCEPT !.pc = pc, !.rows = rows]
  <1>1. slot \in Slots /\ slot.pc = pc /\ slot.rows = rows
    BY IdleOK DEF Slots
  <1>2. Rates!Writing(pc, rows) = slot
    BY DEF Rates!Writing
  <1> QED BY <1>1, <1>2

\* The provider's answer for a date is the last published day's rate, and it is
\* stored under both days or, if that day has a row, the row is copied.
LEMMA WalkedBackOK ==
    ASSUME RatesInv, NEW d \in Rates!Days, \E p \in Rates!Published : p <= d
    PROVE  Rates!WalkedBack(d) \in RowSets /\ PlausibleRows(Rates!WalkedBack(d))
  <1> DEFINE S == {p \in Rates!Published : p <= d}
             actual == Rates!Max(S)
             rate == IF Rates!Known(actual) THEN stored[actual] ELSE actual
             W == [x \in {d} \cup (IF Rates!Known(actual) THEN {} ELSE {actual}) |-> rate]
  <1>1. Rates!WalkedBack(d) = W
    BY DEF Rates!WalkedBack
  <1>2. S \in SUBSET (0..LastDay) /\ S # {}
    BY Calendar DEF Rates!Published
  <1>3. actual \in S
    BY <1>2, Calendar, GreatestNatural DEF Rates!Max
  <1> HIDE DEF actual
  <1>4. actual \in Rates!Days \ Weekend /\ actual <= d
    BY <1>3 DEF Rates!Published
  <1>5. Plausible(d, rate) /\ rate \in Nat
    BY <1>4, Calendar DEF RatesInv, Plausible
  <1>6. ~Rates!Known(actual) => Plausible(actual, rate)
    BY <1>4, Calendar DEF Plausible
  <1> HIDE DEF rate
  <1>7. /\ DOMAIN W \subseteq Rates!Days
        /\ \A x \in DOMAIN W : W[x] = rate /\ (x = d \/ (x = actual /\ ~Rates!Known(actual)))
    BY <1>4
  <1>8. W \in [DOMAIN W -> Nat]
    BY <1>5
  <1>9. W \in RowSets
    BY <1>7, <1>8, RowSet
  <1>10. PlausibleRows(W)
    BY <1>5, <1>6, <1>7 DEF PlausibleRows
  <1> QED BY <1>1, <1>9, <1>10

\* A range inserts the published days that the table lacks.
LEMMA MissingOK ==
    ASSUME RatesInv, NEW first \in Int, NEW last \in Int
    PROVE  Rates!Missing(first, last) \in RowSets /\ PlausibleRows(Rates!Missing(first, last))
  <1> DEFINE W == Rates!Missing(first, last)
             S == {x \in Rates!Published \cap (first..last) : ~Rates!Known(x)}
  <1>1. W = [x \in S |-> x]
    BY DEF Rates!Missing, Rates!Absent
  <1>2. S \subseteq Rates!Days \ Weekend
    BY DEF Rates!Published
  <1>3. W \in [S -> Nat]
    BY <1>1, <1>2, Calendar
  <1>4. W \in RowSets
    BY <1>2, <1>3, RowSet
  <1>5. PlausibleRows(W)
    BY <1>1, <1>2, Calendar DEF PlausibleRows, Plausible
  <1> QED BY <1>4, <1>5

\* An insert leaves the days that have a rate alone.
LEMMA InsertOK ==
    ASSUME RatesInv, NEW rows \in RowSets, PlausibleRows(rows), Rates!Insert(rows)
    PROVE  /\ stored' \in [Rates!Days -> Nat]
           /\ \A d \in Rates!Days : Rates!Known(d)' => Plausible(d, stored'[d])
           /\ \A d \in Rates!Days : Rates!Known(d) => stored'[d] = stored[d]
  <1>1. CASE Rates!Conflict(rows)
    BY <1>1 DEF Rates!Insert, RatesInv, Rates!Known
  <1>2. CASE ~Rates!Conflict(rows)
    <2>1. stored' = [d \in Rates!Days |-> IF d \in DOMAIN rows THEN rows[d] ELSE stored[d]]
      BY <1>2 DEF Rates!Insert
    <2>2. \A d \in DOMAIN rows : d \in Rates!Days /\ rows[d] \in Nat /\ Plausible(d, rows[d])
      BY RowsOfSet DEF PlausibleRows
    <2>3. \A d \in DOMAIN rows : ~Rates!Known(d)
      BY <1>2 DEF Rates!Conflict
    <2> QED BY <2>1, <2>2, <2>3 DEF RatesInv, Rates!Known
  <1> QED BY <1>1, <1>2

\* What StoredRatesStand says of a step.
RatesStand ==
    \A d \in Rates!Days : Rates!Known(d) /\ stored'[d] # stored[d] => stored'[d] \in Manual

\* A request that goes on without touching the table.
LEMMA RequestGoesOn ==
    ASSUME RatesInv, NEW r \in Requests, NEW slot \in Slots, RequestOK(slot),
           request' = [request EXCEPT ![r] = slot],
           UNCHANGED <<stored, today, job, jobRun, restarts>>
    PROVE  RatesInv' /\ RatesStand
  BY DEF RatesInv, RatesStand, Rates!Known, Plausible, JobOK, PlausibleRows

LEMMA RequestsStart ==
    ASSUME RatesInv, NEW r \in Requests, NEW d \in Rates!Days,
           Rates!Ask(r, d) \/ Rates!AskRange(r, d)
    PROVE  RatesInv' /\ RatesStand
  <1>1. UNCHANGED <<stored, today, job, jobRun, restarts>>
    BY DEF Rates!Ask, Rates!AskRange
  <1>2. CASE Rates!Ask(r, d)
    <2> DEFINE slot == [Rates!Idle EXCEPT !.pc = "fetch", !.kind = "date", !.last = d]
    <2>1. request' = [request EXCEPT ![r] = slot]
      BY <1>2 DEF Rates!Ask
    <2>2. slot \in Slots /\ slot.pc = "fetch" /\ slot.last = d
      <3>1. d \in Int
        BY Calendar
      <3> QED BY <3>1, IdleOK DEF Slots
    <2> HIDE DEF slot
    <2> QED BY <1>1, <2>1, <2>2, RequestGoesOn DEF RequestOK
  <1>3. CASE Rates!AskRange(r, d)
    <2> DEFINE slot ==
          [Rates!Idle EXCEPT !.pc = "fetch", !.kind = "range", !.first = d, !.last = today]
    <2>1. request' = [request EXCEPT ![r] = slot]
      BY <1>3 DEF Rates!AskRange
    <2>2. slot \in Slots /\ slot.pc = "fetch" /\ slot.last \in Rates!Days
      <3>1. d \in Int /\ today \in Int /\ today \in Rates!Days
        BY Calendar DEF RatesInv
      <3> QED BY <3>1, IdleOK DEF Slots
    <2> HIDE DEF slot
    <2> QED BY <1>1, <2>1, <2>2, RequestGoesOn DEF RequestOK
  <1> QED BY <1>2, <1>3

LEMMA AnswersArrive ==
    ASSUME RatesInv, NEW r \in Requests,
           Rates!Fetched(r) \/ Rates!RangeFetched(r) \/ Rates!Unanswered(r)
    PROVE  RatesInv' /\ RatesStand
  <1>1. request[r] \in Slots /\ RequestOK(request[r])
    BY DEF RatesInv
  <1>2. UNCHANGED <<stored, today, job, jobRun, restarts>>
    BY DEF Rates!Fetched, Rates!RangeFetched, Rates!Unanswered
  <1>3. CASE Rates!Unanswered(r)
    BY <1>2, <1>3, IdleOK, RequestGoesOn DEF Rates!Unanswered, RequestOK
  <1>4. CASE Rates!Fetched(r) \/ Rates!RangeFetched(r)
    <2>1. PICK rows \in RowSets :
              /\ PlausibleRows(rows)
              /\ request' = [request EXCEPT ![r] = Rates!Writing("commit", rows)]
      <3>1. CASE Rates!Fetched(r)
        <4>1. request[r].last \in Rates!Days
          BY <1>1, <3>1 DEF Rates!Fetched, RequestOK
        <4> QED BY <3>1, <4>1, WalkedBackOK DEF Rates!Fetched
      <3>2. CASE Rates!RangeFetched(r)
        <4>1. request[r].first \in Int /\ request[r].last \in Int
          BY <1>1 DEF Slots
        <4> QED BY <3>2, <4>1, MissingOK DEF Rates!RangeFetched
      <3> QED BY <1>4, <3>1, <3>2
    <2>2. Rates!Writing("commit", rows) \in Slots /\ RequestOK(Rates!Writing("commit", rows))
      BY <2>1, WritingOK DEF RequestOK
    <2> QED BY <1>2, <2>1, <2>2, RequestGoesOn
  <1> QED BY <1>3, <1>4

\* The override looks its day up before it writes.
LEMMA OverrideStarts ==
    ASSUME RatesInv, NEW r \in Requests, NEW d \in Rates!Days, NEW rate \in Manual,
           Rates!Override(r, d, rate)
    PROVE  RatesInv' /\ RatesStand
  <1> DEFINE S == {d} \ {y \in Rates!Days : stored[y] = rate}
             rows == [x \in S |-> rate]
             pc == IF Rates!Known(d) THEN "update" ELSE "commit"
             slot == Rates!Writing(pc, rows)
  <1>1. request' = [request EXCEPT ![r] = slot] /\ UNCHANGED <<stored, today, job, jobRun, restarts>>
    BY DEF Rates!Override
  <1>2. S \in SUBSET Rates!Days /\ rows \in [S -> Nat]
    BY Calendar
  <1>3. rows \in RowSets
    BY <1>2, RowSet
  <1>4. PlausibleRows(rows) /\ \A x \in DOMAIN rows : rows[x] \in Manual
    BY DEF PlausibleRows, Plausible
  <1>5. pc \in {"update", "commit"}
    OBVIOUS
  <1> HIDE DEF rows, pc
  <1>6. slot \in Slots /\ slot.pc = pc /\ slot.rows = rows
    BY <1>3, <1>5, WritingOK
  <1>7. RequestOK(slot)
    BY <1>4, <1>5, <1>6 DEF RequestOK
  <1> QED BY <1>1, <1>6, <1>7, RequestGoesOn

\* A commit that does not conflict adds days, an update writes what was typed.
LEMMA RequestsWrite ==
    ASSUME RatesInv, NEW r \in Requests, Rates!Commit(r) \/ Rates!Update(r)
    PROVE  RatesInv' /\ RatesStand
  <1>1. request[r] \in Slots /\ RequestOK(request[r]) /\ request[r].rows \in RowSets
    BY DEF RatesInv, Slots
  <1>2. /\ stored' \in [Rates!Days -> Nat]
        /\ \A d \in Rates!Days : Rates!Known(d)' => Plausible(d, stored'[d])
        /\ RatesStand
    <2>1. CASE Rates!Commit(r)
      BY <1>1, <2>1, InsertOK DEF Rates!Commit, RequestOK, RatesStand
    <2>2. CASE Rates!Update(r)
      <3> DEFINE rows == request[r].rows
      <3>1. stored' = [d \in Rates!Days |-> IF d \in DOMAIN rows THEN rows[d] ELSE stored[d]]
        BY <2>2 DEF Rates!Update
      <3>2. \A d \in DOMAIN rows : rows[d] \in Manual /\ rows[d] \in Nat
        BY <1>1, <2>2, Calendar DEF Rates!Update, RequestOK
      <3> HIDE DEF rows
      <3> QED BY <3>1, <3>2 DEF RatesInv, RatesStand, Plausible, Rates!Known
    <2> QED BY <2>1, <2>2
  <1>3. /\ request' = [request EXCEPT ![r] = Rates!Idle]
        /\ UNCHANGED <<today, job, jobRun, restarts>>
    BY DEF Rates!Commit, Rates!Update
  <1>4. request' \in [Requests -> Slots] /\ \A q \in Requests : RequestOK(request'[q])
    BY <1>3, IdleOK DEF RatesInv, RequestOK
  <1> QED BY <1>2, <1>3, <1>4 DEF RatesInv, JobOK, PlausibleRows, Plausible

\* The job fetches the published days the table lacks, up to yesterday.
LEMMA JobGoesOn ==
    ASSUME RatesInv,
           \/ Rates!JobBegin \/ Rates!JobFetched \/ Rates!JobFails
           \/ Rates!JobCommit \/ Rates!JobRecord
    PROVE  RatesInv' /\ RatesStand
  <1>1. job \in Slots /\ JobOK(job) /\ job.rows \in RowSets /\ job.first \in Int /\ job.last \in Int
    BY DEF RatesInv, Slots
  <1>2. UNCHANGED <<today, request, restarts>>
    BY DEF Rates!JobBegin, Rates!JobFetched, Rates!JobFails, Rates!JobCommit, Rates!JobRecord
  <1>3. jobRun' \in {"none", "failed", "ok"}
    BY DEF RatesInv, Rates!JobBegin, Rates!JobFetched, Rates!JobFails, Rates!JobCommit, Rates!JobRecord
  <1>4. job' \in Slots /\ JobOK(job')
    <2>1. CASE Rates!JobBegin
      <3>1. Rates!Target \in Int
        BY Calendar DEF RatesInv, Rates!Target
      <3>2. Rates!Start \in Int
        <4>1. CASE Rates!Newest = {}
          BY <3>1, <4>1, Calendar DEF Rates!Start
        <4>2. CASE Rates!Newest # {}
          <5>1. Rates!Newest \in SUBSET (0..LastDay)
            BY Calendar DEF Rates!Newest
          <5>2. Rates!Max(Rates!Newest) \in Rates!Newest
            BY <4>2, <5>1, Calendar, GreatestNatural DEF Rates!Max
          <5>3. Rates!Max(Rates!Newest) \in 0..LastDay
            BY <5>1, <5>2
          <5>4. Rates!Start = Rates!Max(Rates!Newest) + 1
            BY <4>2 DEF Rates!Start
          <5> QED BY <5>3, <5>4, Calendar
        <4> QED BY <4>1, <4>2
      <3> HIDE DEF Rates!Start, Rates!Target
      <3>3. CASE job' = Rates!Writing("record", Rates!NoRows)
        BY <3>3, NoRowsOK, WritingOK DEF JobOK
      <3>4. CASE job' = [Rates!Idle EXCEPT !.pc = "fetch", !.first = Rates!Start, !.last = Rates!Target]
        BY <3>1, <3>2, <3>4, IdleOK DEF Slots, JobOK
      <3> QED BY <2>1, <3>3, <3>4 DEF Rates!JobBegin
    <2>2. CASE Rates!JobFetched
      <3> DEFINE rows == Rates!Missing(job.first, job.last)
      <3>1. rows \in RowSets /\ PlausibleRows(rows)
        BY <1>1, MissingOK
      <3>2. job' = Rates!Writing("commit", rows)
        BY <2>2 DEF Rates!JobFetched
      <3> HIDE DEF rows
      <3> QED BY <3>1, <3>2, WritingOK DEF JobOK
    <2>3. CASE Rates!JobFails \/ Rates!JobRecord
      BY <2>3, IdleOK DEF Rates!JobFails, Rates!JobRecord, JobOK
    <2>4. CASE Rates!JobCommit
      BY <2>4, NoRowsOK, WritingOK DEF Rates!JobCommit, JobOK
    <2> QED BY <2>1, <2>2, <2>3, <2>4
  <1>5. /\ stored' \in [Rates!Days -> Nat]
        /\ \A d \in Rates!Days : Rates!Known(d)' => Plausible(d, stored'[d])
        /\ RatesStand
    <2>1. CASE Rates!JobCommit
      BY <1>1, <2>1, InsertOK DEF Rates!JobCommit, JobOK, RatesStand
    <2>2. CASE ~Rates!JobCommit
      BY <2>2 DEF Rates!JobBegin, Rates!JobFetched, Rates!JobFails, Rates!JobRecord, RatesInv,
          RatesStand, Rates!Known, Plausible
    <2> QED BY <2>1, <2>2
  <1> QED BY <1>2, <1>3, <1>4, <1>5 DEF RatesInv, RequestOK, PlausibleRows, Plausible

\* What is in flight ends with the process; a day that passes publishes a rate.
LEMMA TimePasses ==
    ASSUME RatesInv, Rates!Restart \/ Rates!NextDay
    PROVE  RatesInv' /\ RatesStand
  <1>1. UNCHANGED stored
    BY DEF Rates!Restart, Rates!NextDay
  <1>2. /\ stored' \in [Rates!Days -> Nat]
        /\ \A d \in Rates!Days : Rates!Known(d)' => Plausible(d, stored'[d])
        /\ RatesStand
    BY <1>1 DEF RatesInv, RatesStand, Rates!Known, Plausible
  <1>3. today' \in Rates!Days /\ restarts' \in 0..MaxRestarts /\ jobRun' \in {"none", "failed", "ok"}
    BY Calendar DEF Rates!Restart, Rates!NextDay, RatesInv
  <1>4. job' \in Slots /\ JobOK(job')
    BY IdleOK DEF Rates!Restart, Rates!NextDay, RatesInv, JobOK, PlausibleRows, Plausible
  <1>5. request' \in [Requests -> Slots] /\ \A q \in Requests : RequestOK(request'[q])
    BY IdleOK DEF Rates!Restart, Rates!NextDay, RatesInv, RequestOK
  <1> QED BY <1>2, <1>3, <1>4, <1>5 DEF RatesInv, JobOK, RequestOK, PlausibleRows, Plausible

LEMMA RatesInit == Rates!Init => RatesInv
  <1> SUFFICES ASSUME Rates!Init PROVE RatesInv
    OBVIOUS
  <1>1. stored \in [Rates!Days -> Nat] /\ \A d \in Rates!Days : ~Rates!Known(d)
    BY DEF Rates!Init, Rates!NoRate, Rates!Known
  <1>2. today \in Rates!Days /\ jobRun \in {"none", "failed", "ok"} /\ restarts \in 0..MaxRestarts
    BY Calendar DEF Rates!Init
  <1>3. job \in Slots /\ JobOK(job)
    BY IdleOK DEF Rates!Init, JobOK
  <1>4. request \in [Requests -> Slots] /\ \A r \in Requests : RequestOK(request[r])
    BY IdleOK DEF Rates!Init, RequestOK
  <1> QED BY <1>1, <1>2, <1>3, <1>4 DEF RatesInv

LEMMA RatesNext ==
    ASSUME RatesInv, Rates!Next
    PROVE  RatesInv' /\ RatesStand
  <1>1. CASE \E r \in Requests, d \in Rates!Days :
                Rates!Ask(r, d) \/ Rates!AskRange(r, d) \/ \E rate \in Manual : Rates!Override(r, d, rate)
    BY <1>1, RequestsStart, OverrideStarts
  <1>2. CASE \E r \in Requests :
                \/ Rates!Fetched(r) \/ Rates!RangeFetched(r) \/ Rates!Unanswered(r)
                \/ Rates!Commit(r) \/ Rates!Update(r)
    BY <1>2, AnswersArrive, RequestsWrite
  <1>3. CASE \/ Rates!JobBegin \/ Rates!JobFetched \/ Rates!JobFails
             \/ Rates!JobCommit \/ Rates!JobRecord
    BY <1>3, JobGoesOn
  <1>4. CASE Rates!Restart \/ Rates!NextDay
    BY <1>4, TimePasses
  <1> QED BY <1>1, <1>2, <1>3, <1>4 DEF Rates!Next

LEMMA RatesTyped == RatesInv => Rates!TypeOK
  <1> SUFFICES ASSUME RatesInv PROVE Rates!TypeOK
    OBVIOUS
  <1>1. Rates!RatesAreReal
    BY DEF RatesInv, Rates!RatesAreReal, Plausible
  <1>2. \A r \in Requests :
            /\ request[r].pc \in {"idle", "fetch", "commit", "update"}
            /\ DOMAIN request[r].rows \subseteq Rates!Days
    <2> TAKE r \in Requests
    <2>1. request[r] \in Slots /\ RequestOK(request[r])
      BY DEF RatesInv
    <2> QED BY <2>1, RowsOfSet DEF Slots, RequestOK
  <1>3. job.pc \in {"idle", "fetch", "commit", "record"}
    BY DEF RatesInv, JobOK, Slots
  <1> QED BY <1>1, <1>2, <1>3 DEF RatesInv, Rates!TypeOK

-----------------------------------------------------------------------------
(* The catalog.                                                            *)

Sources == {"finnhub", "coingecko", "ft", "manual", "na"}

Entries ==
    [symbol : Symbols, type : Types, source : Sources, quotes : SUBSET {"manual", "live"}]

Ids == 1..MaxInstruments
Listed(id) == catalog[id] # Catalog!NoInstrument

\* An id that is in use is one of those made, and no two share name and type.
EntriesOK ==
    /\ made \in 0..MaxInstruments
    /\ catalog \in [Ids -> Entries \cup {Catalog!NoInstrument}]
    /\ \A id \in Ids : Listed(id) => id <= made /\ catalog[id].source \in Catalog!Allowed(catalog[id].type)
    /\ \A id, other \in Ids :
        /\ Listed(id) /\ Listed(other)
        /\ catalog[id].symbol = catalog[other].symbol /\ catalog[id].type = catalog[other].type
        => id = other

FormOK ==
    form = Catalog!Closed \/
        /\ DOMAIN form = {"type", "mode", "typed"}
        /\ form.type \in Types
        /\ form.mode \in Catalog!Modes(form.type)

\* Every create in flight has an id in reserve; the form waits for one of them.
CreatingOK ==
    /\ IsFiniteSet(creating)
    /\ made + Cardinality(creating) <= MaxInstruments
    /\ \A c \in creating :
        /\ DOMAIN c = {"symbol", "type", "source", "typed", "watched"}
        /\ c.symbol \in Symbols /\ c.type \in Types
    /\ \A c, other \in creating : c.watched /\ other.watched => c = other

\* Names do not change, so the dialog still shows the name of its instrument.
EditOK ==
    edit = Catalog!Closed \/
        /\ edit \in [id : Ids, symbol : Symbols, type : Types, source : Sources]
        /\ edit.id <= made
        /\ edit.source \in Catalog!Allowed(edit.type)
        /\ Listed(edit.id) => catalog[edit.id].symbol = edit.symbol

ReportsOK ==
    /\ pricing \subseteq 1..made
    /\ told = Catalog!NoReport \/ told.id \in 1..made

CatalogInv == EntriesOK /\ FormOK /\ CreatingOK /\ EditOK /\ ReportsOK

\* What CreatedMeansPriced says of a step.
ReportsHold ==
    told' # told =>
        /\ catalog'[told'.id] # Catalog!NoInstrument
        /\ told'.typed => "manual" \in catalog'[told'.id].quotes

LEMMA CatalogBounds ==
    /\ MaxInstruments \in Nat /\ Ids = Catalog!Ids
    /\ "stock" \in Types
    /\ Types \subseteq {"stock", "etf", "fund", "crypto", "stablecoin", "cash", "metal"}
  BY ValuationAssumption DEF Ids, Catalog!Ids

\* The module of the catalog counts as this one does.
LEMMA SameCount == \A S : Catalog!Cardinality(S) = Cardinality(S)
  BY DEF Catalog!Cardinality, Cardinality

LEMMA EntriesAreListed == \A e \in Entries : e # Catalog!NoInstrument
  <1> TAKE e \in Entries
  <1>1. "type" \in DOMAIN e
    BY DEF Entries
  <1>2. "type" \notin DOMAIN Catalog!NoInstrument
    BY DEF Catalog!NoInstrument
  <1> QED BY <1>1, <1>2

\* Whatever a type allows is a source, and so is what its dialogs offer.
LEMMA SourcesOffered ==
    ASSUME NEW type \in Types
    PROVE  /\ Catalog!Allowed(type) \subseteq Sources
           /\ Catalog!Offered(type) \subseteq Catalog!Allowed(type)
           /\ Catalog!Default(type) \in Catalog!Allowed(type)
           /\ Catalog!Preferred(type) \in Catalog!Modes(type)
           /\ \A mode \in Catalog!Modes(type) : Catalog!Source(type, mode) \in Catalog!Allowed(type)
  BY CatalogBounds DEF Catalog!Allowed, Catalog!Offered, Catalog!Default, Catalog!Preferred,
      Catalog!Modes, Catalog!Source, Catalog!Extra, Catalog!Automatic, Sources

\* The form changes alone.
LEMMA FormChanges ==
    ASSUME CatalogInv,
           \/ Catalog!OpenCreate \/ Catalog!TypePrice
           \/ \E type \in Types : Catalog!ChangeType(type)
           \/ \E mode \in {"automatic", "manual"} : Catalog!ChangeMode(mode)
    PROVE  CatalogInv' /\ ReportsHold
  <1>1. UNCHANGED <<catalog, made, creating, pricing, edit, told>>
    BY DEF Catalog!OpenCreate, Catalog!TypePrice, Catalog!ChangeType, Catalog!ChangeMode
  <1>2. FormOK'
    <2>1. CASE Catalog!OpenCreate
      BY <2>1, CatalogBounds DEF Catalog!OpenCreate, FormOK, Catalog!Modes
    <2>2. CASE Catalog!TypePrice
      BY <2>2 DEF Catalog!TypePrice, FormOK, CatalogInv
    <2>3. CASE \E type \in Types : Catalog!ChangeType(type)
      BY <2>3, SourcesOffered DEF Catalog!ChangeType, FormOK, CatalogInv
    <2>4. CASE \E mode \in {"automatic", "manual"} : Catalog!ChangeMode(mode)
      BY <2>4 DEF Catalog!ChangeMode, FormOK, CatalogInv
    <2> QED BY <2>1, <2>2, <2>3, <2>4
  <1> QED BY <1>1, <1>2 DEF CatalogInv, EntriesOK, CreatingOK, EditOK, ReportsOK, ReportsHold, Listed

\* Forgetting the form's create in flight keeps the reserve of ids.
LEMMA UnmountOK ==
    ASSUME NEW requests \in SUBSET creating, CreatingOK, Catalog!Unmount(requests)
    PROVE  /\ FormOK'
           /\ IsFiniteSet(creating') /\ Cardinality(creating') <= Cardinality(requests)
           /\ \A c \in creating' :
                /\ DOMAIN c = {"symbol", "type", "source", "typed", "watched"}
                /\ c.symbol \in Symbols /\ c.type \in Types
           /\ \A c \in creating' : ~c.watched
  <1> DEFINE f == [c \in requests |-> [c EXCEPT !.watched = FALSE]]
  <1>1. creating' = {f[c] : c \in requests}
    BY DEF Catalog!Unmount
  <1>2. IsFiniteSet(requests)
    BY FS_Subset DEF CreatingOK
  <1>3. IsFiniteSet(creating') /\ Cardinality(creating') <= Cardinality(requests)
    <2>1. f \in Surjection(requests, creating')
      BY <1>1 DEF Surjection
    <2> QED BY <1>2, <2>1, FS_Surjection
  <1>4. \A c \in requests :
            /\ DOMAIN f[c] = {"symbol", "type", "source", "typed", "watched"}
            /\ f[c].symbol \in Symbols /\ f[c].type \in Types /\ f[c].watched = FALSE
    BY DEF CreatingOK
  <1> HIDE DEF f
  <1>5. FormOK'
    BY DEF Catalog!Unmount, FormOK
  <1>6. \A c \in creating' :
            /\ DOMAIN c = {"symbol", "type", "source", "typed", "watched"}
            /\ c.symbol \in Symbols /\ c.type \in Types /\ ~c.watched
    <2> SUFFICES ASSUME NEW c \in creating'
                 PROVE  /\ DOMAIN c = {"symbol", "type", "source", "typed", "watched"}
                        /\ c.symbol \in Symbols /\ c.type \in Types /\ ~c.watched
      OBVIOUS
    <2>1. PICK before \in requests : c = f[before]
      BY <1>1
    <2> QED BY <1>4, <2>1
  <1> QED BY <1>3, <1>5, <1>6

\* Sending a create takes an id from the reserve; closing the form takes none.
LEMMA CreatesStart ==
    ASSUME CatalogInv, Catalog!Cancel \/ \E symbol \in Symbols : Catalog!Submit(symbol)
    PROVE  CatalogInv' /\ ReportsHold
  <1>1. UNCHANGED <<catalog, made, pricing, edit, told>>
    BY DEF Catalog!Cancel, Catalog!Submit
  <1>2. FormOK' /\ CreatingOK'
    <2>1. CASE Catalog!Cancel
      <3>1. Catalog!Unmount(creating) /\ CreatingOK
        BY <2>1 DEF Catalog!Cancel, CatalogInv
      <3>2. /\ IsFiniteSet(creating) /\ IsFiniteSet(creating')
            /\ Cardinality(creating') <= Cardinality(creating)
        BY <3>1, UnmountOK DEF CreatingOK
      <3>3. Cardinality(creating) \in Nat /\ Cardinality(creating') \in Nat /\ made \in Nat
        BY <3>2, FS_CardinalityType DEF CatalogInv, EntriesOK
      <3>4. made' + Cardinality(creating') <= MaxInstruments
        BY <1>1, <3>2, <3>3, CatalogBounds DEF CatalogInv, CreatingOK
      <3> QED BY <3>1, <3>4, UnmountOK DEF CreatingOK
    <2>2. CASE \E symbol \in Symbols : Catalog!Submit(symbol)
      <3>1. PICK symbol \in Symbols : Catalog!Submit(symbol)
        BY <2>2
      <3> DEFINE new == [symbol |-> symbol, type |-> form.type,
                         source |-> Catalog!Source(form.type, form.mode),
                         typed |-> form.mode = "manual" /\ form.typed, watched |-> TRUE]
      <3>2. /\ creating' = creating \cup {new} /\ form' = form
            /\ \A c \in creating : ~c.watched
            /\ made + Cardinality(creating) < MaxInstruments
        BY <3>1, SameCount DEF Catalog!Submit
      <3>3. form.type \in Types
        BY <3>1 DEF Catalog!Submit, CatalogInv, FormOK
      <3>4. /\ DOMAIN new = {"symbol", "type", "source", "typed", "watched"}
            /\ new.symbol \in Symbols /\ new.type \in Types
        BY <3>3
      <3> HIDE DEF new
      <3>5. /\ IsFiniteSet(creating')
            /\ Cardinality(creating') \in {Cardinality(creating), Cardinality(creating) + 1}
        BY <3>2, FS_AddElement DEF CatalogInv, CreatingOK
      <3>6. Cardinality(creating) \in Nat /\ made \in Nat
        BY FS_CardinalityType DEF CreatingOK, CatalogInv, EntriesOK
      <3>7. made' + Cardinality(creating') <= MaxInstruments
        BY <1>1, <3>2, <3>5, <3>6, CatalogBounds
      <3>8. CreatingOK'
        BY <3>2, <3>4, <3>5, <3>7 DEF CatalogInv, CreatingOK
      <3> QED BY <3>2, <3>8 DEF CatalogInv, FormOK
    <2> QED BY <2>1, <2>2
  <1> QED BY <1>1, <1>2 DEF CatalogInv, EntriesOK, EditOK, ReportsOK, ReportsHold, Listed

\* A stored instrument takes the next id, a name that is free and no quotes.
LEMMA StoreOK ==
    ASSUME CatalogInv, NEW c \in creating, Catalog!Store(c)
    PROVE  /\ made' = made + 1 /\ made' \in Ids
           /\ EntriesOK'
           /\ catalog'[made + 1] # Catalog!NoInstrument
           /\ edit' = edit => EditOK'
           /\ \A id \in Ids \ {made + 1} : catalog'[id] = catalog[id]
  <1> DEFINE new == Catalog!Entry(c.symbol, c.type, c.source)
  <1>1. /\ made' = made + 1
        /\ catalog' = [catalog EXCEPT ![made + 1] = new]
        /\ c.source \in Catalog!Allowed(c.type)
        /\ \A other \in Ids : Listed(other) => ~(catalog[other].symbol = c.symbol /\ catalog[other].type = c.type)
    <2>1. 0 \notin Catalog!Live
      BY CatalogBounds DEF Catalog!Live, Ids
    <2> QED BY <2>1, CatalogBounds
        DEF Catalog!Store, Catalog!Acceptable, Catalog!Taken, Catalog!Live, Listed
  <1>2. made' \in Ids
    <2>1. Cardinality(creating) \in Nat /\ Cardinality(creating) # 0
      BY FS_CardinalityType, FS_EmptySet DEF CatalogInv, CreatingOK
    <2> QED BY <1>1, <2>1, CatalogBounds DEF CatalogInv, CreatingOK, EntriesOK, Ids
  <1>3. new \in Entries /\ new.symbol = c.symbol /\ new.type = c.type /\ new.source = c.source
    <2>1. c.symbol \in Symbols /\ c.type \in Types
      BY DEF CatalogInv, CreatingOK
    <2>2. c.source \in Sources
      BY <1>1, <2>1, SourcesOffered
    <2> QED BY <2>1, <2>2 DEF Entries, Catalog!Entry
  <1> HIDE DEF new
  <1>4. new # Catalog!NoInstrument
    BY <1>3, EntriesAreListed
  <1>5. /\ catalog' \in [Ids -> Entries \cup {Catalog!NoInstrument}]
        /\ \A id \in Ids : catalog'[id] = IF id = made + 1 THEN new ELSE catalog[id]
    BY <1>1, <1>2, <1>3 DEF CatalogInv, EntriesOK
  <1>6. EntriesOK'
    <2>1. \A id \in Ids : Listed(id)' =>
              id <= made' /\ catalog'[id].source \in Catalog!Allowed(catalog'[id].type)
      BY <1>1, <1>3, <1>5 DEF CatalogInv, EntriesOK, Listed, Ids
    <2>2. \A id, other \in Ids :
            /\ Listed(id)' /\ Listed(other)'
            /\ catalog'[id].symbol = catalog'[other].symbol /\ catalog'[id].type = catalog'[other].type
            => id = other
      BY <1>1, <1>3, <1>5 DEF CatalogInv, EntriesOK, Listed
    <2>3. made' \in 0..MaxInstruments
      BY <1>2, CatalogBounds DEF Ids
    <2> QED BY <1>5, <2>1, <2>2, <2>3 DEF EntriesOK
  <1>7. edit' = edit => EditOK'
    <2> SUFFICES ASSUME edit' = edit, edit # Catalog!Closed PROVE EditOK'
      BY DEF EditOK
    <2>1. /\ edit \in [id : Ids, symbol : Symbols, type : Types, source : Sources]
          /\ edit.id \in Ids /\ edit.id <= made
          /\ edit.source \in Catalog!Allowed(edit.type)
          /\ Listed(edit.id) => catalog[edit.id].symbol = edit.symbol
      BY DEF CatalogInv, EditOK
    <2>2. edit.id <= made' /\ edit.id # made + 1
      BY <1>1, <2>1 DEF CatalogInv, EntriesOK, Ids
    <2> QED BY <1>5, <2>1, <2>2 DEF EditOK, Listed
  <1> QED BY <1>1, <1>2, <1>4, <1>5, <1>6, <1>7

\* A create in flight that is answered gives its id up.
LEMMA ReserveShrinks ==
    ASSUME CatalogInv, NEW c \in creating
    PROVE  /\ IsFiniteSet(creating \ {c})
           /\ Cardinality(creating \ {c}) \in Nat
           /\ made + 1 + Cardinality(creating \ {c}) <= MaxInstruments
  <1>1. IsFiniteSet(creating) /\ Cardinality(creating) \in Nat /\ made \in Nat
    BY FS_CardinalityType DEF CatalogInv, CreatingOK, EntriesOK
  <1>2. IsFiniteSet(creating \ {c}) /\ Cardinality(creating \ {c}) = Cardinality(creating) - 1
    BY <1>1, FS_RemoveElement
  <1>3. Cardinality(creating \ {c}) \in Nat
    BY <1>2, FS_CardinalityType
  <1>4. made + Cardinality(creating) <= MaxInstruments
    BY DEF CatalogInv, CreatingOK
  <1> QED BY <1>1, <1>2, <1>3, <1>4, CatalogBounds

\* The create is handled: the form goes on to the price, or is done.
LEMMA CreatesEnd ==
    ASSUME CatalogInv, NEW c \in creating, Catalog!Created(c) \/ Catalog!CreateFails(c)
    PROVE  CatalogInv' /\ ReportsHold
  <1>1. \/ Catalog!Store(c)
        \/ UNCHANGED <<catalog, made>> /\ Catalog!CreateFails(c)
    BY DEF Catalog!Created, Catalog!CreateFails
  <1>2. edit' = edit
    BY DEF Catalog!Created, Catalog!CreateFails
  <1>3. EntriesOK' /\ EditOK' /\ made' \in {made, made + 1} /\ made \in Nat
    <2>1. CASE Catalog!Store(c)
      BY <1>2, <2>1, StoreOK DEF CatalogInv, EntriesOK
    <2>2. CASE UNCHANGED <<catalog, made>>
      BY <1>2, <2>2 DEF CatalogInv, EntriesOK, EditOK, Listed
    <2> QED BY <1>1, <2>1, <2>2
  <1>4. CASE Catalog!Created(c) /\ c.watched /\ ~c.typed
    <2>1. /\ Catalog!Store(c) /\ told' = [id |-> made + 1, typed |-> FALSE]
          /\ Catalog!Unmount(creating \ {c}) /\ pricing' = pricing
      BY <1>4 DEF Catalog!Created
    <2>2. /\ FormOK' /\ IsFiniteSet(creating')
          /\ Cardinality(creating') <= Cardinality(creating \ {c})
          /\ \A d \in creating' :
                /\ DOMAIN d = {"symbol", "type", "source", "typed", "watched"}
                /\ d.symbol \in Symbols /\ d.type \in Types /\ ~d.watched
      BY <2>1, UnmountOK DEF CatalogInv
    <2>3. Cardinality(creating') \in Nat
      BY <2>2, FS_CardinalityType
    <2>4. made' + Cardinality(creating') <= MaxInstruments
      BY <1>3, <2>2, <2>3, ReserveShrinks, CatalogBounds
    <2>5. CreatingOK'
      BY <2>2, <2>4 DEF CreatingOK
    <2>6. told'.id = made + 1 /\ ~told'.typed
      BY <2>1
    <2>7. made' = made + 1 /\ catalog'[made + 1] # Catalog!NoInstrument
      BY <2>1, StoreOK
    <2>8. ReportsOK' /\ ReportsHold
      BY <1>3, <2>1, <2>6, <2>7 DEF ReportsOK, ReportsHold, CatalogInv
    <2> QED BY <1>3, <2>2, <2>5, <2>8 DEF CatalogInv
  <1>5. CASE ~(Catalog!Created(c) /\ c.watched /\ ~c.typed)
    <2>1. /\ creating' = creating \ {c} /\ UNCHANGED <<form, told>>
          /\ pricing' \subseteq pricing \cup (IF Catalog!Created(c) THEN {made + 1} ELSE {})
          /\ Catalog!Created(c) => Catalog!Store(c)
      BY <1>5 DEF Catalog!Created, Catalog!CreateFails
    <2>2. made' + Cardinality(creating') <= MaxInstruments
      BY <1>3, <2>1, ReserveShrinks, CatalogBounds
    <2>3. CreatingOK'
      BY <2>1, <2>2, ReserveShrinks DEF CatalogInv, CreatingOK
    <2>4. FormOK' /\ ReportsHold
      BY <2>1 DEF CatalogInv, FormOK, ReportsHold
    <2>5. ReportsOK'
      <3>1. Catalog!Created(c) => made' = made + 1
        BY <2>1, StoreOK
      <3> QED BY <1>3, <2>1, <3>1 DEF CatalogInv, ReportsOK
    <2> QED BY <1>3, <2>3, <2>4, <2>5 DEF CatalogInv
  <1> QED BY <1>4, <1>5

\* Quotes come and go without a change of the instrument.
LEMMA QuotesChange ==
    ASSUME CatalogInv, NEW id \in Ids, Listed(id), NEW quotes \in SUBSET {"manual", "live"},
           catalog' = [catalog EXCEPT ![id].quotes = quotes], made' = made
    PROVE  /\ EntriesOK'
           /\ Listed(id)' /\ catalog'[id].quotes = quotes
           /\ edit' = edit => EditOK'
  <1>1. catalog[id] \in Entries /\ catalog \in [Ids -> Entries \cup {Catalog!NoInstrument}]
    BY DEF CatalogInv, EntriesOK, Listed
  <1> DEFINE new == [catalog[id] EXCEPT !.quotes = quotes]
  <1>2. /\ new \in Entries /\ new.quotes = quotes
        /\ new.symbol = catalog[id].symbol /\ new.type = catalog[id].type
        /\ new.source = catalog[id].source
    BY <1>1 DEF Entries
  <1>3. catalog' = [catalog EXCEPT ![id] = new]
    OBVIOUS
  <1> HIDE DEF new
  <1>4. new # Catalog!NoInstrument
    BY <1>2, EntriesAreListed
  <1>5. /\ catalog' \in [Ids -> Entries \cup {Catalog!NoInstrument}]
        /\ \A other \in Ids : catalog'[other] = IF other = id THEN new ELSE catalog[other]
    BY <1>1, <1>2, <1>3
  <1>6. \A other \in Ids :
            /\ Listed(other)' <=> Listed(other)
            /\ catalog'[other].symbol = catalog[other].symbol
            /\ catalog'[other].type = catalog[other].type
            /\ catalog'[other].source = catalog[other].source
    BY <1>2, <1>4, <1>5 DEF Listed
  <1>7. EntriesOK'
    BY <1>5, <1>6 DEF CatalogInv, EntriesOK
  <1>8. edit' = edit => EditOK'
    <2> SUFFICES ASSUME edit' = edit, edit # Catalog!Closed PROVE EditOK'
      BY DEF EditOK
    <2>1. /\ edit \in [id : Ids, symbol : Symbols, type : Types, source : Sources]
          /\ edit.id \in Ids /\ edit.id <= made
          /\ edit.source \in Catalog!Allowed(edit.type)
          /\ Listed(edit.id) => catalog[edit.id].symbol = edit.symbol
      BY DEF CatalogInv, EditOK
    <2> QED BY <1>6, <2>1 DEF EditOK
  <1> QED BY <1>2, <1>5, <1>6, <1>7, <1>8

\* The answer to a first price: the dialog closes as done, or shows an error.
LEMMA PricesEnd ==
    ASSUME CatalogInv, NEW id \in pricing, Catalog!PriceSaved(id) \/ Catalog!PriceFails(id)
    PROVE  CatalogInv' /\ ReportsHold
  <1>1. id \in 1..made /\ id \in Ids /\ made \in Nat
    BY CatalogBounds DEF CatalogInv, ReportsOK, EntriesOK, Ids
  <1>2. Listed(id) => catalog[id].quotes \cup {"manual"} \in SUBSET {"manual", "live"}
    BY <1>1 DEF CatalogInv, EntriesOK, Listed, Entries
  <1>3. CASE Catalog!PriceSaved(id)
    <2>1. /\ Listed(id) /\ catalog' = [catalog EXCEPT ![id].quotes = @ \cup {"manual"}]
          /\ pricing' = pricing \ {id} /\ told' = [id |-> id, typed |-> TRUE]
          /\ Catalog!Unmount(creating) /\ made' = made /\ edit' = edit
      BY <1>3 DEF Catalog!PriceSaved, Listed
    <2>2. /\ EntriesOK' /\ EditOK' /\ Listed(id)'
          /\ catalog'[id].quotes = catalog[id].quotes \cup {"manual"}
      BY <1>1, <1>2, <2>1, QuotesChange
    <2>3. /\ FormOK' /\ IsFiniteSet(creating) /\ IsFiniteSet(creating')
          /\ Cardinality(creating') <= Cardinality(creating)
          /\ \A c \in creating' :
                /\ DOMAIN c = {"symbol", "type", "source", "typed", "watched"}
                /\ c.symbol \in Symbols /\ c.type \in Types /\ ~c.watched
      BY <2>1, UnmountOK DEF CatalogInv, CreatingOK
    <2>4. Cardinality(creating) \in Nat /\ Cardinality(creating') \in Nat
      BY <2>3, FS_CardinalityType
    <2>5. made' + Cardinality(creating') <= MaxInstruments
      BY <1>1, <2>1, <2>3, <2>4, CatalogBounds DEF CatalogInv, CreatingOK
    <2>6. CreatingOK'
      BY <2>3, <2>5 DEF CreatingOK
    <2>7. told'.id = id
      BY <2>1
    <2>8. ReportsOK' /\ ReportsHold
      BY <1>1, <2>1, <2>2, <2>7 DEF CatalogInv, ReportsOK, ReportsHold, Listed
    <2> QED BY <2>2, <2>3, <2>6, <2>8 DEF CatalogInv
  <1>4. CASE Catalog!PriceFails(id)
    <2>1. /\ \/ UNCHANGED catalog
             \/ Listed(id) /\ catalog' = [catalog EXCEPT ![id].quotes = @ \cup {"manual"}]
          /\ pricing' = pricing \ {id} /\ UNCHANGED <<made, form, creating, edit, told>>
      BY <1>4 DEF Catalog!PriceFails, Listed
    <2>2. EntriesOK' /\ EditOK'
      <3>1. CASE UNCHANGED catalog
        BY <2>1, <3>1 DEF CatalogInv, EntriesOK, EditOK, Listed
      <3>2. CASE Listed(id) /\ catalog' = [catalog EXCEPT ![id].quotes = @ \cup {"manual"}]
        BY <1>1, <1>2, <2>1, <3>2, QuotesChange
      <3> QED BY <2>1, <3>1, <3>2
    <2> QED BY <2>1, <2>2 DEF CatalogInv, FormOK, CreatingOK, ReportsOK, ReportsHold
  <1> QED BY <1>3, <1>4

\* The edit dialog shows what it was opened with, or a choice it offers.
LEMMA EditChanges ==
    ASSUME CatalogInv,
           \/ Catalog!CloseEdit
           \/ \E id \in Ids : Catalog!OpenEdit(id)
           \/ \E type \in Types : Catalog!EditType(type)
           \/ \E source \in Sources : Catalog!EditSource(source)
    PROVE  CatalogInv' /\ ReportsHold
  <1>1. UNCHANGED <<catalog, made, form, creating, pricing, told>>
    BY DEF Catalog!CloseEdit, Catalog!OpenEdit, Catalog!EditType, Catalog!EditSource
  <1>2. EditOK'
    <2>1. CASE Catalog!CloseEdit
      BY <2>1 DEF Catalog!CloseEdit, EditOK
    <2>2. CASE \E id \in Ids : Catalog!OpenEdit(id)
      <3>1. PICK id \in Ids : Catalog!OpenEdit(id)
        BY <2>2
      <3>2. /\ catalog[id] \in Entries /\ Listed(id) /\ id <= made
            /\ catalog[id].source \in Catalog!Allowed(catalog[id].type)
        BY <3>1 DEF Catalog!OpenEdit, CatalogInv, EntriesOK, Listed
      <3> QED BY <1>1, <3>1, <3>2 DEF Catalog!OpenEdit, EditOK, Entries, Listed
    <2>3. CASE \E type \in Types : Catalog!EditType(type)
      <3>1. PICK type \in Types : Catalog!EditType(type)
        BY <2>3
      <3>2. /\ edit \in [id : Ids, symbol : Symbols, type : Types, source : Sources]
            /\ edit.id <= made
            /\ Listed(edit.id) => catalog[edit.id].symbol = edit.symbol
        BY <3>1 DEF Catalog!EditType, CatalogInv, EditOK
      <3>3. PICK source \in Catalog!Allowed(type) :
                edit' = [edit EXCEPT !.type = type, !.source = source]
        BY <3>1, SourcesOffered DEF Catalog!EditType
      <3>4. source \in Sources
        BY SourcesOffered
      <3> QED BY <1>1, <3>2, <3>3, <3>4 DEF EditOK, Listed
    <2>4. CASE \E source \in Sources : Catalog!EditSource(source)
      <3>1. PICK source \in Sources : Catalog!EditSource(source)
        BY <2>4
      <3>2. /\ edit \in [id : Ids, symbol : Symbols, type : Types, source : Sources]
            /\ edit.id <= made
            /\ Listed(edit.id) => catalog[edit.id].symbol = edit.symbol
        BY <3>1 DEF Catalog!EditSource, CatalogInv, EditOK
      <3>3. edit' = [edit EXCEPT !.source = source] /\ source \in Catalog!Allowed(edit.type)
        BY <3>1, <3>2, SourcesOffered DEF Catalog!EditSource
      <3> QED BY <1>1, <3>2, <3>3 DEF EditOK, Listed
    <2> QED BY <2>1, <2>2, <2>3, <2>4
  <1> QED BY <1>1, <1>2 DEF CatalogInv, EntriesOK, FormOK, CreatingOK, ReportsOK, ReportsHold, Listed

\* A saved edit gives the instrument a type under which its name is free.
LEMMA EditSaves ==
    ASSUME CatalogInv, Catalog!SaveEdit
    PROVE  CatalogInv' /\ ReportsHold
  <1>1. /\ edit \in [id : Ids, symbol : Symbols, type : Types, source : Sources]
        /\ edit.id \in Ids /\ edit.id <= made
        /\ edit.source \in Catalog!Allowed(edit.type)
        /\ Listed(edit.id) /\ catalog[edit.id].symbol = edit.symbol
    BY DEF Catalog!SaveEdit, CatalogInv, EditOK, Listed
  <1>2. catalog[edit.id] \in Entries
    BY <1>1 DEF CatalogInv, EntriesOK, Listed
  <1> DEFINE new == [catalog[edit.id] EXCEPT !.type = edit.type, !.source = edit.source]
  <1>3. /\ new \in Entries /\ new.symbol = edit.symbol /\ new.type = edit.type
        /\ new.source = edit.source
    BY <1>1, <1>2 DEF Entries
  <1>4. catalog' = [catalog EXCEPT ![edit.id] = new]
    BY DEF Catalog!SaveEdit
  <1>5. UNCHANGED <<made, form, creating, pricing, told>> /\ edit' \in {edit, Catalog!Closed}
    BY DEF Catalog!SaveEdit
  <1>6. \A other \in Ids \ {edit.id} :
            Listed(other) => ~(catalog[other].symbol = edit.symbol /\ catalog[other].type = edit.type)
    BY CatalogBounds DEF Catalog!SaveEdit, Catalog!Taken, Catalog!Live, Listed
  <1> HIDE DEF new
  <1>7. new # Catalog!NoInstrument
    BY <1>3, EntriesAreListed
  <1>8. /\ catalog' \in [Ids -> Entries \cup {Catalog!NoInstrument}]
        /\ \A id \in Ids : catalog'[id] = IF id = edit.id THEN new ELSE catalog[id]
    BY <1>1, <1>3, <1>4 DEF CatalogInv, EntriesOK
  <1>9. EntriesOK'
    <2>1. \A id \in Ids : Listed(id)' =>
              id <= made' /\ catalog'[id].source \in Catalog!Allowed(catalog'[id].type)
      BY <1>1, <1>3, <1>5, <1>8 DEF CatalogInv, EntriesOK, Listed
    <2>2. \A id, other \in Ids :
            /\ Listed(id)' /\ Listed(other)'
            /\ catalog'[id].symbol = catalog'[other].symbol /\ catalog'[id].type = catalog'[other].type
            => id = other
      BY <1>3, <1>6, <1>8 DEF CatalogInv, EntriesOK, Listed
    <2> QED BY <1>5, <1>8, <2>1, <2>2 DEF CatalogInv, EntriesOK
  <1>10. EditOK'
    BY <1>1, <1>3, <1>5, <1>8 DEF EditOK, Listed
  <1> QED BY <1>5, <1>9, <1>10 DEF CatalogInv, FormOK, CreatingOK, ReportsOK, ReportsHold

\* The other writers change the quotes of an instrument, or remove it.
LEMMA OthersWrite ==
    ASSUME CatalogInv, NEW id \in Ids,
           Catalog!SaveNav(id) \/ Catalog!DeleteNav(id) \/ Catalog!Backfill(id) \/ Catalog!Delete(id)
    PROVE  CatalogInv' /\ ReportsHold
  <1>1. UNCHANGED <<made, form, creating, pricing, edit, told>> /\ Listed(id)
    BY DEF Catalog!SaveNav, Catalog!DeleteNav, Catalog!Backfill, Catalog!Delete, Listed
  <1>2. EntriesOK' /\ EditOK'
    <2>1. CASE Catalog!SaveNav(id) \/ Catalog!DeleteNav(id) \/ Catalog!Backfill(id)
      <3>1. catalog[id].quotes \in SUBSET {"manual", "live"}
        BY <1>1 DEF CatalogInv, EntriesOK, Entries, Listed
      <3>2. PICK quotes \in SUBSET {"manual", "live"} : catalog' = [catalog EXCEPT ![id].quotes = quotes]
        <4> DEFINE q == catalog[id].quotes
        <4>1. q \cup {"manual"} \in SUBSET {"manual", "live"} /\ q \cup {"live"} \in SUBSET {"manual", "live"}
              /\ q \ {"manual"} \in SUBSET {"manual", "live"}
          BY <3>1
        <4> QED BY <2>1, <4>1 DEF Catalog!SaveNav, Catalog!DeleteNav, Catalog!Backfill
      <3> QED BY <1>1, <3>2, QuotesChange
    <2>2. CASE Catalog!Delete(id)
      <3>1. /\ catalog' \in [Ids -> Entries \cup {Catalog!NoInstrument}]
            /\ \A other \in Ids :
                  catalog'[other] = IF other = id THEN Catalog!NoInstrument ELSE catalog[other]
        BY <2>2 DEF Catalog!Delete, CatalogInv, EntriesOK
      <3>2. EntriesOK'
        BY <1>1, <3>1 DEF CatalogInv, EntriesOK, Listed
      <3>3. EditOK'
        BY <1>1, <3>1 DEF CatalogInv, EditOK, Listed
      <3> QED BY <3>2, <3>3
    <2> QED BY <2>1, <2>2
  <1> QED BY <1>1, <1>2 DEF CatalogInv, FormOK, CreatingOK, ReportsOK, ReportsHold

LEMMA CatalogInit ==
    ASSUME Catalog!Init
    PROVE  CatalogInv
  <1>1. PICK seed :
          /\ \/ seed = Catalog!NoInstrument
             \/ \E s \in Symbols, t \in Types : \E source \in Catalog!Allowed(t) :
                    seed = Catalog!Entry(s, t, source)
          /\ catalog = [id \in Ids |-> IF id = 1 THEN seed ELSE Catalog!NoInstrument]
          /\ made = IF seed = Catalog!NoInstrument THEN 0 ELSE 1
    BY CatalogBounds DEF Catalog!Init
  <1>2. seed = Catalog!NoInstrument \/ (seed \in Entries /\ seed.source \in Catalog!Allowed(seed.type))
    <2> SUFFICES ASSUME seed # Catalog!NoInstrument
                 PROVE  seed \in Entries /\ seed.source \in Catalog!Allowed(seed.type)
      OBVIOUS
    <2>1. PICK s \in Symbols, t \in Types : \E source \in Catalog!Allowed(t) :
              seed = Catalog!Entry(s, t, source)
      BY <1>1
    <2>2. PICK source \in Catalog!Allowed(t) : seed = Catalog!Entry(s, t, source)
      BY <2>1
    <2>3. source \in Sources
      BY SourcesOffered
    <2> QED BY <2>2, <2>3 DEF Catalog!Entry, Entries
  <1>3. EntriesOK
    <2>1. /\ catalog \in [Ids -> Entries \cup {Catalog!NoInstrument}]
          /\ \A id \in Ids : Listed(id) => id = 1 /\ catalog[id] = seed /\ made = 1
      BY <1>1, <1>2 DEF Listed
    <2>2. made \in 0..MaxInstruments
      BY <1>1, CatalogBounds, ValuationAssumption
    <2> QED BY <1>2, <2>1, <2>2 DEF EntriesOK, Listed
  <1>4. FormOK /\ EditOK /\ ReportsOK
    BY DEF Catalog!Init, FormOK, EditOK, ReportsOK
  <1>5. CreatingOK
    <2>1. creating = {}
      BY DEF Catalog!Init
    <2>2. IsFiniteSet(creating) /\ Cardinality(creating) = 0
      BY <2>1, FS_EmptySet
    <2>3. made + Cardinality(creating) <= MaxInstruments
      BY <1>3, <2>2, CatalogBounds DEF EntriesOK
    <2> QED BY <2>1, <2>2, <2>3 DEF CreatingOK
  <1> QED BY <1>3, <1>4, <1>5 DEF CatalogInv

LEMMA CatalogNext ==
    ASSUME CatalogInv, Catalog!Next
    PROVE  CatalogInv' /\ ReportsHold
  <1>1. CASE \/ Catalog!OpenCreate \/ Catalog!TypePrice
             \/ \E type \in Types : Catalog!ChangeType(type)
             \/ \E mode \in {"automatic", "manual"} : Catalog!ChangeMode(mode)
    BY <1>1, FormChanges
  <1>2. CASE Catalog!Cancel \/ \E symbol \in Symbols : Catalog!Submit(symbol)
    BY <1>2, CreatesStart
  <1>3. CASE \E c \in creating : Catalog!Created(c) \/ Catalog!CreateFails(c)
    BY <1>3, CreatesEnd
  <1>4. CASE \E id \in pricing : Catalog!PriceSaved(id) \/ Catalog!PriceFails(id)
    BY <1>4, PricesEnd
  <1>5. CASE \/ Catalog!CloseEdit
             \/ \E id \in Ids : Catalog!OpenEdit(id)
             \/ \E type \in Types : Catalog!EditType(type)
             \/ \E source \in Sources : Catalog!EditSource(source)
    BY <1>5, EditChanges
  <1>6. CASE Catalog!SaveEdit
    BY <1>6, EditSaves
  <1>7. CASE \E id \in Ids : \/ Catalog!SaveNav(id) \/ Catalog!DeleteNav(id)
                             \/ Catalog!Backfill(id) \/ Catalog!Delete(id)
    BY <1>7, OthersWrite
  <1> QED BY <1>1, <1>2, <1>3, <1>4, <1>5, <1>6, <1>7, CatalogBounds DEF Catalog!Next, Sources

LEMMA CatalogTyped ==
    ASSUME CatalogInv
    PROVE  Catalog!TypeOK
  <1>1. Catalog!CatalogOK
    <2> SUFFICES ASSUME NEW id \in Ids, Listed(id)
                 PROVE  /\ id <= made
                        /\ catalog[id].symbol \in Symbols /\ catalog[id].type \in Types
                        /\ catalog[id].source \in Catalog!Allowed(catalog[id].type)
                        /\ catalog[id].quotes \subseteq {"manual", "live"}
                        /\ ~Catalog!Taken(catalog[id].symbol, catalog[id].type, id)
      BY CatalogBounds DEF Catalog!CatalogOK, Catalog!Live, Listed
    <2>1. catalog[id] \in Entries
      BY DEF CatalogInv, EntriesOK, Listed
    <2>2. ~Catalog!Taken(catalog[id].symbol, catalog[id].type, id)
      BY CatalogBounds DEF Catalog!Taken, Catalog!Live, CatalogInv, EntriesOK, Listed
    <2> QED BY <2>1, <2>2 DEF CatalogInv, EntriesOK, Entries
  <1>2. Catalog!OffersAccepted
    BY SourcesOffered DEF Catalog!OffersAccepted, CatalogInv, FormOK, EditOK
  <1>3. Catalog!Cardinality({c \in creating : c.watched}) <= 1
    <2> DEFINE W == {c \in creating : c.watched}
    <2>1. W = {} \/ \E c \in creating : W = {c}
      BY DEF CatalogInv, CreatingOK
    <2>2. Cardinality({}) = 0 /\ \A c : Cardinality({c}) = 1
      BY FS_EmptySet, FS_Singleton
    <2>3. Cardinality(W) <= 1
      BY <2>1, <2>2
    <2> QED BY <2>3, SameCount
  <1> QED BY <1>1, <1>2, <1>3 DEF Catalog!TypeOK, CatalogInv, EntriesOK, ReportsOK

-----------------------------------------------------------------------------
(* The positions and their pages.                                          *)

Places == Positions!Positions
Quotes == {{}} \cup {{q} : q \in Prices}

PositionsInv ==
    /\ lots \in [Places -> Seq(Costs)]
    /\ yields \in [Places -> Nat]
    /\ gains \in [Places -> Int]
    /\ closing \in [Places -> {<<>>} \cup (Quotes \X BOOLEAN)]
    /\ quote \in [Instruments -> Quotes]
    /\ traded \in [Instruments -> SUBSET (Costs \cup Prices)]
    /\ trades \in 0..MaxTrades
    /\ drill = {} \/ \E dimension \in Positions!Dimensions : \E label : drill = {<<dimension, label>>}
    /\ excludeClosed \in BOOLEAN
    /\ chosen \subseteq Instruments
    /\ \A p \in Places : closing[p] = <<>> => gains[p] = 0

\* The price of a disposal, if it has one, less the cost of the unit.
LEMMA GainOfDisposal ==
    ASSUME NEW price \in Quotes, NEW cost \in Int, Prices \subseteq Nat
    PROVE  Positions!Total(price, LAMBDA paid : paid - cost) \in Int
  <1> DEFINE any(s) == CHOOSE x \in s : TRUE
             Step(f, s) == IF s = {} THEN 0 ELSE (any(s) - cost) + f[s \ {any(s)}]
             iter[s \in SUBSET price] == Step(iter, s)
             sum == [s \in SUBSET price |-> IF s = {} THEN 0 ELSE any(s) - cost]
  <1>1. Positions!Total(price, LAMBDA paid : paid - cost) = iter[price]
    BY DEF Positions!Total, Positions!MapThenSumSet, Positions!MapThenFoldSet
  <1>2. \A s \in SUBSET price : s # {} => any(s) \in Int /\ s \ {any(s)} = {}
    BY DEF Quotes
  <1> HIDE DEF any
  <1>3. \A s \in SUBSET price : sum[s] = Step(sum, s)
    <2>1. sum[{}] = 0
      OBVIOUS
    <2> QED BY <1>2, <2>1
  <1>4. iter = [s \in SUBSET price |-> Step(iter, s)]
    <2>1. sum = [s \in SUBSET price |-> Step(sum, s)]
      BY <1>3
    <2> HIDE DEF sum
    <2> QED BY <2>1
  <1> HIDE DEF iter, sum
  <1>5. \A s \in SUBSET price : iter[s] = Step(iter, s)
    BY <1>4
  <1>6. iter[{}] = 0
    BY <1>5
  <1>7. price # {} => iter[price] = (any(price) - cost) + 0
    BY <1>2, <1>5, <1>6
  <1>8. iter[price] \in Int
    BY <1>2, <1>6, <1>7
  <1> QED BY <1>1, <1>8

LEMMA LedgerMoves ==
    ASSUME PositionsInv, Positions!Ledger
    PROVE  PositionsInv'
  <1>1. Costs \subseteq Nat /\ Prices \subseteq Nat /\ MaxTrades \in Nat
    BY ValuationAssumption
  <1>2. UNCHANGED <<drill, excludeClosed, chosen>>
    BY DEF Positions!Ledger, Positions!Buy, Positions!Dispose, Positions!Accrue, Positions!Quote,
        Positions!Trade, Positions!page
  <1>3. trades' \in 0..MaxTrades
    <2>1. trades' = trades \/ (trades < MaxTrades /\ trades' = trades + 1)
      BY DEF Positions!Ledger, Positions!Buy, Positions!Dispose, Positions!Accrue,
          Positions!Quote, Positions!Trade
    <2>2. trades \in 0..MaxTrades
      BY DEF PositionsInv
    <2> QED BY <1>1, <2>1, <2>2
  <1>4. CASE \E p \in Places, cost \in Costs : Positions!Buy(p, cost)
    <2>1. PICK p \in Places, cost \in Costs : Positions!Buy(p, cost)
      BY <1>4
    <2>2. p[2] \in Instruments
      BY DEF Places, Positions!Positions
    <2>3. lots' \in [Places -> Seq(Costs)]
      BY <2>1 DEF Positions!Buy, PositionsInv
    <2>4. traded' \in [Instruments -> SUBSET (Costs \cup Prices)]
      BY <2>1, <2>2 DEF Positions!Buy, PositionsInv
    <2>5. UNCHANGED <<yields, gains, closing, quote>>
      BY <2>1 DEF Positions!Buy
    <2> QED BY <1>2, <1>3, <2>3, <2>4, <2>5 DEF PositionsInv
  <1>5. CASE \E p \in Places, price \in Quotes : Positions!Dispose(p, price)
    <2>1. PICK p \in Places, price \in Quotes : Positions!Dispose(p, price)
      BY <1>5
    <2>2. p[2] \in Instruments
      BY DEF Places, Positions!Positions
    <2>3. lots[p] \in Seq(Costs) /\ lots[p] # <<>>
      BY <2>1 DEF Positions!Dispose, PositionsInv
    <2>4. Head(lots[p]) \in Costs /\ Tail(lots[p]) \in Seq(Costs)
      BY <2>3
    <2>5. lots' = [lots EXCEPT ![p] = Tail(@)]
      BY <2>1 DEF Positions!Dispose
    <2>6. lots' \in [Places -> Seq(Costs)]
      BY <2>4, <2>5 DEF PositionsInv
    <2>7. gains' \in [Places -> Int]
      <3> DEFINE gain == Positions!Total(price, LAMBDA paid : paid - Head(lots[p]))
      <3>1. gains' = [gains EXCEPT ![p] = @ + gain]
        BY <2>1 DEF Positions!Dispose
      <3>2. gain \in Int
        <4> DEFINE cost == Head(lots[p])
        <4>1. cost \in Costs
          BY <2>4
        <4> HIDE DEF cost
        <4>2. cost \in Int
          BY <1>1, <4>1
        <4>3. Positions!Total(price, LAMBDA paid : paid - cost) \in Int
          BY <1>1, <4>2, GainOfDisposal
        <4> USE DEF cost
        <4> QED BY <4>3
      <3> HIDE DEF gain
      <3> QED BY <3>1, <3>2 DEF PositionsInv
    <2>8. closing' \in [Places -> {<<>>} \cup (Quotes \X BOOLEAN)]
      <3>1. quote[p[2]] \in Quotes
        BY <2>2 DEF PositionsInv
      <3>2. PICK costly \in BOOLEAN : closing' = [closing EXCEPT ![p] = <<quote[p[2]], costly>>]
        BY <2>1 DEF Positions!Dispose
      <3> DEFINE entry == <<quote[p[2]], costly>>
      <3>3. entry \in Quotes \X BOOLEAN
        BY <3>1
      <3>4. closing' = [closing EXCEPT ![p] = entry]
        BY <3>2
      <3>5. closing \in [Places -> {<<>>} \cup (Quotes \X BOOLEAN)]
        BY DEF PositionsInv
      <3> HIDE DEF entry
      <3> QED BY <3>3, <3>4, <3>5
    <2>9. traded' \in [Instruments -> SUBSET (Costs \cup Prices)]
      <3>1. traded' = IF price = {} THEN traded ELSE [traded EXCEPT ![p[2]] = price]
        BY <2>1 DEF Positions!Dispose
      <3>2. price \subseteq Prices
        BY DEF Quotes
      <3>3. traded \in [Instruments -> SUBSET (Costs \cup Prices)]
        BY DEF PositionsInv
      <3> QED BY <2>2, <3>1, <3>2, <3>3
    <2>10. UNCHANGED <<yields, quote>>
      BY <2>1 DEF Positions!Dispose
    <2>11. \A other \in Places : closing'[other] = <<>> => gains'[other] = 0
      <3>1. /\ \A other \in Places \ {p} : closing'[other] = closing[other]
            /\ closing'[p] # <<>>
        BY <2>1 DEF Positions!Dispose, PositionsInv
      <3>2. \A other \in Places \ {p} : gains'[other] = gains[other]
        BY <2>1 DEF Positions!Dispose, PositionsInv
      <3> QED BY <3>1, <3>2 DEF PositionsInv
    <2> QED BY <1>2, <1>3, <2>6, <2>7, <2>8, <2>9, <2>10, <2>11 DEF PositionsInv
  <1>6. CASE \E p \in Places : Positions!Accrue(p)
    <2>1. PICK p \in Places : Positions!Accrue(p)
      BY <1>6
    <2>2. yields' = [yields EXCEPT ![p] = @ + 1] /\ UNCHANGED <<lots, gains, closing, quote, traded>>
      BY <2>1 DEF Positions!Accrue
    <2>3. yields' \in [Places -> Nat]
      BY <2>2 DEF PositionsInv
    <2> QED BY <1>2, <1>3, <2>2, <2>3 DEF PositionsInv
  <1>7. CASE \E i \in Instruments, price \in Prices : Positions!Quote(i, price)
    <2>1. PICK i \in Instruments, price \in Prices : Positions!Quote(i, price)
      BY <1>7
    <2>2. quote' \in [Instruments -> Quotes]
      BY <2>1 DEF Positions!Quote, PositionsInv, Quotes
    <2>3. PICK sold \in SUBSET {p \in Places : p[2] = i /\ closing[p] # <<>>} :
              closing' = [p \in Places |-> IF p \in sold THEN <<{price}, closing[p][2]>>
                                           ELSE closing[p]]
      BY <2>1 DEF Positions!Quote, Places
    <2>4. ASSUME NEW p \in Places
          PROVE  /\ closing'[p] \in {<<>>} \cup (Quotes \X BOOLEAN)
                 /\ closing'[p] = <<>> => closing[p] = <<>>
      <3>1. CASE p \in sold
        <4>1. closing[p] \in Quotes \X BOOLEAN
          BY <3>1 DEF PositionsInv
        <4>2. closing[p][2] \in BOOLEAN /\ {price} \in Quotes
          BY <4>1 DEF Quotes
        <4>3. closing'[p] = <<{price}, closing[p][2]>>
          BY <2>3, <3>1
        <4> DEFINE row == <<{price}, closing[p][2]>>
        <4>4. row \in Quotes \X BOOLEAN
          BY <4>2
        <4>5. row # <<>>
          BY <4>2
        <4> HIDE DEF row
        <4>6. closing'[p] = row
          BY <4>3 DEF row
        <4> QED BY <4>4, <4>5, <4>6
      <3>2. CASE p \notin sold
        BY <2>3, <3>2 DEF PositionsInv
      <3> QED BY <3>1, <3>2
    <2>5. closing' \in [Places -> {<<>>} \cup (Quotes \X BOOLEAN)]
      BY <2>3, <2>4
    <2>6. UNCHANGED <<lots, yields, gains, traded>>
      BY <2>1 DEF Positions!Quote
    <2>7. \A p \in Places : closing'[p] = <<>> => gains'[p] = 0
      BY <2>4, <2>6 DEF PositionsInv
    <2> QED BY <1>2, <1>3, <2>2, <2>5, <2>6, <2>7 DEF PositionsInv
  <1> QED BY <1>4, <1>5, <1>6, <1>7 DEF Positions!Ledger, Places, Quotes

LEMMA PagesMove ==
    ASSUME PositionsInv, Positions!Pages
    PROVE  PositionsInv'
  <1>1. UNCHANGED <<lots, yields, gains, closing, quote, traded, trades>>
    BY DEF Positions!Pages, Positions!ClickSlice, Positions!CloseDrill, Positions!ToggleClosed,
        Positions!Choose, Positions!ClearChosen, Positions!ledger
  <1>2. drill' = {} \/ \E dimension \in Positions!Dimensions : \E label : drill' = {<<dimension, label>>}
    <2>1. CASE \E dimension \in Positions!Dimensions : \E label \in Positions!Slices(dimension) :
                  Positions!ClickSlice(dimension, label)
      BY <2>1 DEF Positions!ClickSlice
    <2>2. CASE \/ Positions!CloseDrill \/ Positions!ToggleClosed \/ Positions!ClearChosen
               \/ \E i \in Instruments : Positions!Choose(i)
      BY <2>2 DEF Positions!CloseDrill, Positions!ToggleClosed, Positions!Choose,
          Positions!ClearChosen, PositionsInv
    <2> QED BY <2>1, <2>2 DEF Positions!Pages
  <1>3. excludeClosed' \in BOOLEAN
    BY DEF Positions!Pages, Positions!ClickSlice, Positions!CloseDrill, Positions!ToggleClosed,
        Positions!Choose, Positions!ClearChosen, PositionsInv
  <1>4. chosen' \subseteq Instruments
    BY DEF Positions!Pages, Positions!ClickSlice, Positions!CloseDrill, Positions!ToggleClosed,
        Positions!Choose, Positions!ClearChosen, PositionsInv
  <1> QED BY <1>1, <1>2, <1>3, <1>4 DEF PositionsInv

LEMMA PositionsTyped ==
    ASSUME PositionsInv
    PROVE  Positions!TypeOK
  <1>1. Positions!Cardinality(drill) <= 1
    <2>1. Cardinality({}) = 0 /\ \A slice : Cardinality({slice}) = 1
      BY FS_EmptySet, FS_Singleton
    <2>2. drill = {} \/ \E slice : drill = {slice}
      BY Zenon DEF PositionsInv
    <2>3. Cardinality(drill) <= 1
      <3>1. CASE drill = {}
        BY <2>1, <3>1
      <3>2. CASE \E slice : drill = {slice}
        <4>1. PICK slice : drill = {slice}
          BY <3>2
        <4>2. Cardinality(drill) = 1
          BY <2>1, <4>1
        <4> QED BY <4>2
      <3> QED BY <2>2, <3>1, <3>2
    <2> QED BY <2>3 DEF Positions!Cardinality, Cardinality
  <1>2. \A p \in Places :
            closing[p] \in {<<>>} \cup (({{}} \cup {{q} : q \in Prices}) \X BOOLEAN)
    <2>1. \A p \in Places : closing[p] \in {<<>>} \cup (Quotes \X BOOLEAN)
      BY DEF PositionsInv
    <2> QED BY <2>1 DEF Quotes
  <1>3. \A i \in Instruments : quote[i] \subseteq Prices /\ traded[i] \subseteq Costs \cup Prices
    <2>1. \A i \in Instruments : quote[i] \in Quotes /\ traded[i] \subseteq Costs \cup Prices
      BY DEF PositionsInv
    <2>2. \A q \in Quotes : q \subseteq Prices
      BY DEF Quotes
    <2> QED BY <2>1, <2>2
  <1>4. /\ lots \in [Places -> Seq(Costs)] /\ yields \in [Places -> Nat] /\ gains \in [Places -> Int]
        /\ trades \in 0..MaxTrades /\ excludeClosed \in BOOLEAN /\ chosen \subseteq Instruments
    BY DEF PositionsInv
  <1> QED BY <1>1, <1>2, <1>3, <1>4 DEF Positions!TypeOK, Places

LEMMA PositionsInit ==
    ASSUME Positions!Init
    PROVE  PositionsInv
  <1>0. lots \in [Places -> Seq(Costs)]
    <2>1. lots \in [Places -> Seq(Costs \cap {0})]
      BY ValuationAssumption DEF Positions!Init, Places, Positions!Positions
    <2>2. ASSUME NEW s \in Seq(Costs \cap {0})
          PROVE  s \in Seq(Costs)
      <3>1. Costs \cap {0} \subseteq Costs
        OBVIOUS
      <3> QED BY <3>1, SeqMonotonic
    <2> QED BY <2>1, <2>2
  <1>1. lots \in [Places -> Seq(Costs)] /\ closing \in [Places -> {<<>>} \cup (Quotes \X BOOLEAN)]
    BY <1>0 DEF Positions!Init, Places
  <1>2. yields \in [Places -> Nat] /\ gains \in [Places -> Int] /\ trades \in 0..MaxTrades
    BY ValuationAssumption DEF Positions!Init, Places
  <1>3. quote \in [Instruments -> Quotes] /\ traded \in [Instruments -> SUBSET (Costs \cup Prices)]
    BY DEF Positions!Init, Quotes
  <1>4. drill = {} /\ excludeClosed \in BOOLEAN /\ chosen \subseteq Instruments
    BY DEF Positions!Init
  <1>5. \A p \in Places : closing[p] = <<>> => gains[p] = 0
    BY DEF Positions!Init, Places
  <1> QED BY <1>1, <1>2, <1>3, <1>4, <1>5 DEF PositionsInv

-----------------------------------------------------------------------------
(* The three parts together.                                               *)

IInv == part \in Parts /\ PositionsInv /\ RatesInv /\ CatalogInv

LEMMA PositionsStay ==
    ASSUME PositionsInv, UNCHANGED positionVars
    PROVE  PositionsInv'
  BY DEF PositionsInv, positionVars

LEMMA RatesStay ==
    ASSUME RatesInv, UNCHANGED rateVars
    PROVE  RatesInv' /\ RatesStand
  BY DEF RatesInv, RatesStand, rateVars, Rates!Known, Plausible, RequestOK, JobOK, PlausibleRows

LEMMA CatalogStays ==
    ASSUME CatalogInv, UNCHANGED catalogVars
    PROVE  CatalogInv' /\ ReportsHold
  BY DEF CatalogInv, EntriesOK, FormOK, CreatingOK, EditOK, ReportsOK, ReportsHold, Listed, catalogVars

LEMMA StepOK ==
    ASSUME IInv, [Next]_vars
    PROVE  IInv' /\ RatesStand /\ ReportsHold
  <1>1. CASE Value
    <2>1. Positions!Next /\ UNCHANGED <<part, rateVars, catalogVars>>
      BY <1>1 DEF Value
    <2>2. PositionsInv'
      BY <2>1, LedgerMoves, PagesMove DEF Positions!Next, IInv
    <2> QED BY <2>1, <2>2, RatesStay, CatalogStays DEF IInv
  <1>2. CASE Convert
    BY <1>2, RatesNext, PositionsStay, CatalogStays DEF Convert, IInv
  <1>3. CASE Maintain
    BY <1>3, CatalogNext, PositionsStay, RatesStay DEF Maintain, IInv
  <1>4. CASE UNCHANGED vars
    BY <1>4, PositionsStay, RatesStay, CatalogStays DEF vars, IInv
  <1> QED BY <1>1, <1>2, <1>3, <1>4 DEF Next

\* The inductive invariant of the three parts: services/fx.py with its writers,
\* the catalog with its dialogs, and the figures of the pages.
THEOREM Invariance == Spec => []IInv
  <1>1. Init => IInv
    BY PositionsInit, RatesInit, CatalogInit DEF Init, IInv
  <1>2. IInv /\ [Next]_vars => IInv'
    BY StepOK
  <1> QED BY <1>1, <1>2, PTL DEF Spec

\* Whatever races, a row of the table of rates holds the rate published for its
\* day or an earlier one, or one typed in; and the catalog never holds two
\* instruments of one name, nor a source the server refuses for the type.
THEOREM TypeCorrect == Spec => []TypeOK
  <1>1. IInv => TypeOK
    BY PositionsTyped, RatesTyped, CatalogTyped DEF IInv, TypeOK
  <1> QED BY Invariance, <1>1, PTL

\* A lookup, a backfill, the nightly job and a restart, however they overlap,
\* never replace a stored rate (services/fx.py commits inserts only).
THEOREM RatesAreKept == Spec => StoredRatesStand
  <1>1. IInv /\ [Next]_vars =>
          [\A d \in Rates!Days : Rates!Known(d) /\ stored'[d] # stored[d] => stored'[d] \in Manual]_(Rates!vars)
    BY StepOK DEF RatesStand
  <1> QED BY Invariance, <1>1, PTL DEF Spec, StoredRatesStand, Rates!StoredRatesStand

\* The create dialog closes as done only over a stored instrument, and a stored
\* price if one was typed, whatever else writes the catalog meanwhile.
THEOREM ReportsAreTrue == Spec => CreatedMeansPriced
  <1>1. IInv /\ [Next]_vars =>
          [told' # told =>
              /\ catalog'[told'.id] # Catalog!NoInstrument
              /\ told'.typed => "manual" \in catalog'[told'.id].quotes]_(Catalog!vars)
    BY StepOK DEF ReportsHold
  <1> QED BY Invariance, <1>1, PTL DEF Spec, CreatedMeansPriced, Catalog!CreatedMeansPriced

-----------------------------------------------------------------------------
(* The figures of one ledger.  Each page adds up its own rows; every sum is *)
(* brought down to one over the positions that the rows stand for.          *)

\* A function that adds up has the sum at its last set.
LEMMA SumIsSumOf ==
    ASSUME NEW S, IsFiniteSet(S), NEW f, \A x \in S : f[x] \in Int, NEW h, IsSum(h, f, S)
    PROVE  h[S] = SumOf(f, S)
  <1>1. PICK k : IsSum(k, f, S) /\ SumOf(f, S) = k[S]
    BY SumOfSum
  <1> QED BY <1>1, SumUnique

\* Quantities of rows.
LEMMA TotalOfQuantity ==
    ASSUME NEW S, IsFiniteSet(S), NEW f, \A x \in S : f[x] \in Int /\ x.quantity = f[x]
    PROVE  Positions!Total(S, LAMBDA r : r.quantity) = SumOf(f, S)
  <1> DEFINE sum[s \in SUBSET S] ==
                 IF s = {} THEN 0
                 ELSE LET x == CHOOSE x \in s : TRUE IN x.quantity + sum[s \ {x}]
             Is(u) == u = [s \in SUBSET S |->
                              IF s = {} THEN 0
                              ELSE LET x == CHOOSE x \in s : TRUE IN x.quantity + u[s \ {x}]]
  <1>1. Positions!Total(S, LAMBDA r : r.quantity) = sum[S] /\ sum = CHOOSE u : Is(u)
    BY DEF Positions!Total, Positions!MapThenSumSet, Positions!MapThenFoldSet
  <1>2. \A u : Is(u) <=> IsSum(u, f, S)
    <2> TAKE u
    <2>1. \A s \in SUBSET S : AddUp(f, u, s) =
              IF s = {} THEN 0 ELSE LET x == CHOOSE x \in s : TRUE IN x.quantity + u[s \ {x}]
      BY DEF AddUp, AnyOf
    <2> QED BY <2>1 DEF IsSum
  <1> HIDE DEF Is, sum
  <1>3. IsSum(sum, f, S)
    BY <1>1, <1>2, SumExists
  <1> QED BY <1>1, <1>3, SumIsSumOf

\* Realized totals of rows.
LEMMA TotalOfRealized ==
    ASSUME NEW S, IsFiniteSet(S), NEW f, \A x \in S : f[x] \in Int /\ x.realized = f[x]
    PROVE  Positions!Total(S, LAMBDA r : r.realized) = SumOf(f, S)
  <1> DEFINE sum[s \in SUBSET S] ==
                 IF s = {} THEN 0
                 ELSE LET x == CHOOSE x \in s : TRUE IN x.realized + sum[s \ {x}]
             Is(u) == u = [s \in SUBSET S |->
                              IF s = {} THEN 0
                              ELSE LET x == CHOOSE x \in s : TRUE IN x.realized + u[s \ {x}]]
  <1>1. Positions!Total(S, LAMBDA r : r.realized) = sum[S] /\ sum = CHOOSE u : Is(u)
    BY DEF Positions!Total, Positions!MapThenSumSet, Positions!MapThenFoldSet
  <1>2. \A u : Is(u) <=> IsSum(u, f, S)
    <2> TAKE u
    <2>1. \A s \in SUBSET S : AddUp(f, u, s) =
              IF s = {} THEN 0 ELSE LET x == CHOOSE x \in s : TRUE IN x.realized + u[s \ {x}]
      BY DEF AddUp, AnyOf
    <2> QED BY <2>1 DEF IsSum
  <1> HIDE DEF Is, sum
  <1>3. IsSum(sum, f, S)
    BY <1>1, <1>2, SumExists
  <1> QED BY <1>1, <1>3, SumIsSumOf

\* Values of rows that have one.
LEMMA TotalOfMarket ==
    ASSUME NEW S, IsFiniteSet(S), NEW f, \A x \in S : f[x] \in Int /\ Positions!Max(Positions!Market(x)) = f[x]
    PROVE  Positions!Total(S, LAMBDA r : Positions!Max(Positions!Market(r))) = SumOf(f, S)
  <1> DEFINE sum[s \in SUBSET S] ==
                 IF s = {} THEN 0
                 ELSE LET x == CHOOSE x \in s : TRUE IN Positions!Max(Positions!Market(x)) + sum[s \ {x}]
             Is(u) == u = [s \in SUBSET S |->
                              IF s = {} THEN 0
                              ELSE LET x == CHOOSE x \in s : TRUE IN Positions!Max(Positions!Market(x)) + u[s \ {x}]]
  <1>1. Positions!Total(S, LAMBDA r : Positions!Max(Positions!Market(r))) = sum[S] /\ sum = CHOOSE u : Is(u)
    BY DEF Positions!Total, Positions!MapThenSumSet, Positions!MapThenFoldSet
  <1>2. \A u : Is(u) <=> IsSum(u, f, S)
    <2> TAKE u
    <2>1. \A s \in SUBSET S : AddUp(f, u, s) =
              IF s = {} THEN 0 ELSE LET x == CHOOSE x \in s : TRUE IN Positions!Max(Positions!Market(x)) + u[s \ {x}]
      BY DEF AddUp, AnyOf
    <2> QED BY <2>1 DEF IsSum
  <1> HIDE DEF Is, sum
  <1>3. IsSum(sum, f, S)
    BY <1>1, <1>2, SumExists
  <1> QED BY <1>1, <1>3, SumIsSumOf

\* Values of positions that have one.
LEMMA TotalOfValue ==
    ASSUME NEW S, IsFiniteSet(S), NEW f, \A x \in S : f[x] \in Int /\ Positions!Max(Positions!Value(x)) = f[x]
    PROVE  Positions!Total(S, LAMBDA p : Positions!Max(Positions!Value(p))) = SumOf(f, S)
  <1> DEFINE sum[s \in SUBSET S] ==
                 IF s = {} THEN 0
                 ELSE LET x == CHOOSE x \in s : TRUE IN Positions!Max(Positions!Value(x)) + sum[s \ {x}]
             Is(u) == u = [s \in SUBSET S |->
                              IF s = {} THEN 0
                              ELSE LET x == CHOOSE x \in s : TRUE IN Positions!Max(Positions!Value(x)) + u[s \ {x}]]
  <1>1. Positions!Total(S, LAMBDA p : Positions!Max(Positions!Value(p))) = sum[S] /\ sum = CHOOSE u : Is(u)
    BY DEF Positions!Total, Positions!MapThenSumSet, Positions!MapThenFoldSet
  <1>2. \A u : Is(u) <=> IsSum(u, f, S)
    <2> TAKE u
    <2>1. \A s \in SUBSET S : AddUp(f, u, s) =
              IF s = {} THEN 0 ELSE LET x == CHOOSE x \in s : TRUE IN Positions!Max(Positions!Value(x)) + u[s \ {x}]
      BY DEF AddUp, AnyOf
    <2> QED BY <2>1 DEF IsSum
  <1> HIDE DEF Is, sum
  <1>3. IsSum(sum, f, S)
    BY <1>1, <1>2, SumExists
  <1> QED BY <1>1, <1>3, SumIsSumOf

\* What the chart carries positions at.
LEMMA TotalOfWorth ==
    ASSUME NEW S, IsFiniteSet(S), NEW f, \A x \in S : f[x] \in Int /\ Positions!Worth(x) = f[x]
    PROVE  Positions!Total(S, Positions!Worth) = SumOf(f, S)
  <1> DEFINE sum[s \in SUBSET S] ==
                 IF s = {} THEN 0
                 ELSE LET x == CHOOSE x \in s : TRUE IN Positions!Worth(x) + sum[s \ {x}]
             Is(u) == u = [s \in SUBSET S |->
                              IF s = {} THEN 0
                              ELSE LET x == CHOOSE x \in s : TRUE IN Positions!Worth(x) + u[s \ {x}]]
  <1>1. Positions!Total(S, Positions!Worth) = sum[S] /\ sum = CHOOSE u : Is(u)
    BY DEF Positions!Total, Positions!MapThenSumSet, Positions!MapThenFoldSet
  <1>2. \A u : Is(u) <=> IsSum(u, f, S)
    <2> TAKE u
    <2>1. \A s \in SUBSET S : AddUp(f, u, s) =
              IF s = {} THEN 0 ELSE LET x == CHOOSE x \in s : TRUE IN Positions!Worth(x) + u[s \ {x}]
      BY DEF AddUp, AnyOf
    <2> QED BY <2>1 DEF IsSum
  <1> HIDE DEF Is, sum
  <1>3. IsSum(sum, f, S)
    BY <1>1, <1>2, SumExists
  <1> QED BY <1>1, <1>3, SumIsSumOf

\* Headline values.
LEMMA TotalOfHeadlines ==
    ASSUME NEW S, IsFiniteSet(S), NEW f, \A x \in S : f[x] \in Int /\ Positions!Max(Positions!Headline(x).value) = f[x]
    PROVE  Positions!Total(S, LAMBDA i : Positions!Max(Positions!Headline(i).value)) = SumOf(f, S)
  <1> DEFINE sum[s \in SUBSET S] ==
                 IF s = {} THEN 0
                 ELSE LET x == CHOOSE x \in s : TRUE IN Positions!Max(Positions!Headline(x).value) + sum[s \ {x}]
             Is(u) == u = [s \in SUBSET S |->
                              IF s = {} THEN 0
                              ELSE LET x == CHOOSE x \in s : TRUE IN Positions!Max(Positions!Headline(x).value) + u[s \ {x}]]
  <1>1. Positions!Total(S, LAMBDA i : Positions!Max(Positions!Headline(i).value)) = sum[S] /\ sum = CHOOSE u : Is(u)
    BY DEF Positions!Total, Positions!MapThenSumSet, Positions!MapThenFoldSet
  <1>2. \A u : Is(u) <=> IsSum(u, f, S)
    <2> TAKE u
    <2>1. \A s \in SUBSET S : AddUp(f, u, s) =
              IF s = {} THEN 0 ELSE LET x == CHOOSE x \in s : TRUE IN Positions!Max(Positions!Headline(x).value) + u[s \ {x}]
      BY DEF AddUp, AnyOf
    <2> QED BY <2>1 DEF IsSum
  <1> HIDE DEF Is, sum
  <1>3. IsSum(sum, f, S)
    BY <1>1, <1>2, SumExists
  <1> QED BY <1>1, <1>3, SumIsSumOf

\* Realized totals of instruments.
LEMMA TotalOfInstruments ==
    ASSUME NEW S, IsFiniteSet(S), NEW f, \A x \in S : f[x] \in Int /\ Positions!Realized(x) = f[x]
    PROVE  Positions!Total(S, Positions!Realized) = SumOf(f, S)
  <1> DEFINE sum[s \in SUBSET S] ==
                 IF s = {} THEN 0
                 ELSE LET x == CHOOSE x \in s : TRUE IN Positions!Realized(x) + sum[s \ {x}]
             Is(u) == u = [s \in SUBSET S |->
                              IF s = {} THEN 0
                              ELSE LET x == CHOOSE x \in s : TRUE IN Positions!Realized(x) + u[s \ {x}]]
  <1>1. Positions!Total(S, Positions!Realized) = sum[S] /\ sum = CHOOSE u : Is(u)
    BY DEF Positions!Total, Positions!MapThenSumSet, Positions!MapThenFoldSet
  <1>2. \A u : Is(u) <=> IsSum(u, f, S)
    <2> TAKE u
    <2>1. \A s \in SUBSET S : AddUp(f, u, s) =
              IF s = {} THEN 0 ELSE LET x == CHOOSE x \in s : TRUE IN Positions!Realized(x) + u[s \ {x}]
      BY DEF AddUp, AnyOf
    <2> QED BY <2>1 DEF IsSum
  <1> HIDE DEF Is, sum
  <1>3. IsSum(sum, f, S)
    BY <1>1, <1>2, SumExists
  <1> QED BY <1>1, <1>3, SumIsSumOf

\* Gains of one instrument over accounts.
LEMMA TotalOfGains ==
    ASSUME NEW i, NEW S, IsFiniteSet(S), NEW f, \A x \in S : f[x] \in Int /\ gains[<<x, i>>] = f[x]
    PROVE  Positions!Total(S, LAMBDA a : gains[<<a, i>>]) = SumOf(f, S)
  <1> DEFINE sum[s \in SUBSET S] ==
                 IF s = {} THEN 0
                 ELSE LET x == CHOOSE x \in s : TRUE IN gains[<<x, i>>] + sum[s \ {x}]
             Is(u) == u = [s \in SUBSET S |->
                              IF s = {} THEN 0
                              ELSE LET x == CHOOSE x \in s : TRUE IN gains[<<x, i>>] + u[s \ {x}]]
  <1>1. Positions!Total(S, LAMBDA a : gains[<<a, i>>]) = sum[S] /\ sum = CHOOSE u : Is(u)
    BY DEF Positions!Total, Positions!MapThenSumSet, Positions!MapThenFoldSet
  <1>2. \A u : Is(u) <=> IsSum(u, f, S)
    <2> TAKE u
    <2>1. \A s \in SUBSET S : s # {} => gains[<<AnyOf(s), i>>] = f[AnyOf(s)]
      BY DEF AnyOf
    <2>2. \A s \in SUBSET S : AddUp(f, u, s) =
              IF s = {} THEN 0 ELSE LET x == CHOOSE x \in s : TRUE IN gains[<<x, i>>] + u[s \ {x}]
      BY <2>1 DEF AddUp, AnyOf
    <2> QED BY <2>2 DEF IsSum
  <1> HIDE DEF Is, sum
  <1>3. IsSum(sum, f, S)
    BY <1>1, <1>2, SumExists
  <1> QED BY <1>1, <1>3, SumIsSumOf

\* Units and values of positions, and the rows that show them.
Units == [p \in Places |-> Positions!Held(p)]
PriceOf(i) == Positions!Max(quote[i])
Values == [p \in Places |-> Positions!Held(p) * PriceOf(p[2])]
OpenRows(S) == {Positions!OpenRow(p) : p \in S}
ClosedRows(S) == {Positions!ClosedRow(p) : p \in S}
RealizedOf(rows) == Positions!Total(rows, LAMBDA r : r.realized)
CostOf(rows) == Positions!Total(rows, LAMBDA r : Positions!Max(r.cost))

\* The greatest of one number.
LEMMA MaxOfOne ==
    ASSUME NEW n \in Int
    PROVE  Positions!Max({n}) = n
  BY DEF Positions!Max

\* A position is an account and an instrument; there are finitely many.
LEMMA PlacesAreFinite ==
    /\ IsFiniteSet(Places) /\ IsFiniteSet(Accounts) /\ IsFiniteSet(Instruments)
    /\ \A p \in Places : p[1] \in Accounts /\ p[2] \in Instruments /\ p = <<p[1], p[2]>>
    /\ \A a \in Accounts, i \in Instruments : <<a, i>> \in Places
    /\ Accounts \subseteq Nat
  BY ValuationAssumption, FS_Product DEF Places, Positions!Positions

\* Open, quoted and closed positions.
LEMMA PositionFacts ==
    ASSUME PositionsInv
    PROVE  /\ \A p \in Places : Positions!Held(p) \in Nat /\ Units[p] = Positions!Held(p)
           /\ Positions!Open = {p \in Places : Units[p] > 0}
           /\ Positions!Closed = {p \in Places : Units[p] = 0 /\ closing[p] # <<>>}
           /\ Positions!Quoted = {p \in Positions!Open : quote[p[2]] # {}}
           /\ \A i : Positions!OpenOf(i) = {p \in Positions!Open : p[2] = i}
           /\ \A S \in SUBSET Places : IsFiniteSet(S)
  <1>1. \A p \in Places : Positions!Held(p) \in Nat
    <2> TAKE p \in Places
    <2>1. lots[p] \in Seq(Costs) /\ yields[p] \in Nat
      BY DEF PositionsInv
    <2>2. Len(lots[p]) \in Nat
      BY <2>1
    <2> QED BY <2>1, <2>2 DEF Positions!Held
  <1>2. \A S \in SUBSET Places : IsFiniteSet(S)
    BY PlacesAreFinite, FS_Subset
  <1> QED BY <1>1, <1>2 DEF Units, Places, Positions!Open, Positions!Closed, Positions!Quoted, Positions!OpenOf

\* The latest quote of an instrument that has one.
LEMMA QuoteFacts ==
    ASSUME PositionsInv, NEW i \in Instruments
    PROVE  quote[i] = {} \/ (quote[i] = {PriceOf(i)} /\ PriceOf(i) \in Nat)
  <1>1. quote[i] \in Quotes /\ Prices \subseteq Nat
    BY ValuationAssumption DEF PositionsInv
  <1> SUFFICES ASSUME NEW q \in Prices, quote[i] = {q}
               PROVE  PriceOf(i) = q /\ q \in Nat
    BY <1>1 DEF Quotes
  <1> QED BY <1>1, MaxOfOne DEF PriceOf

\* Quantities times prices are no less than nothing.
LEMMA TimesNat ==
    ASSUME NEW m \in Nat, NEW n \in Nat
    PROVE  m * n \in Nat
  OBVIOUS

\* What a position is worth.
LEMMA ValueFacts ==
    ASSUME PositionsInv, NEW p \in Places
    PROVE  /\ quote[p[2]] = {} => Positions!Value(p) = {}
           /\ quote[p[2]] # {} =>
                /\ Positions!Value(p) = {Values[p]} /\ Positions!Max(Positions!Value(p)) = Values[p]
                /\ Values[p] = Units[p] * PriceOf(p[2])
                /\ Values[p] \in Nat /\ PriceOf(p[2]) \in Nat
  <1>1. p[2] \in Instruments /\ Units[p] \in Nat /\ Units[p] = Positions!Held(p)
    BY PlacesAreFinite, PositionFacts
  <1>2. Positions!Value(p) = {Units[p] * q : q \in quote[p[2]]}
    BY <1>1 DEF Positions!Value
  <1>3. CASE quote[p[2]] = {}
    BY <1>2, <1>3
  <1>4. CASE quote[p[2]] # {}
    <2>1. quote[p[2]] = {PriceOf(p[2])} /\ PriceOf(p[2]) \in Nat
      BY <1>1, <1>4, QuoteFacts
    <2>2. Values[p] = Units[p] * PriceOf(p[2])
      BY <1>1 DEF Values
    <2>3. Values[p] \in Nat
      BY <1>1, <2>1, <2>2, TimesNat
    <2>4. Positions!Value(p) = {Values[p]}
      BY <1>2, <2>1, <2>2
    <2> QED BY <1>4, <2>1, <2>2, <2>3, <2>4, MaxOfOne
  <1> QED BY <1>3, <1>4

\* What the rows of open and of closed positions show.
LEMMA OpenRowFacts ==
    ASSUME PositionsInv, NEW p \in Positions!Open
    PROVE  LET r == Positions!OpenRow(p)
           IN  /\ r.account = p[1] /\ r.instrument = p[2] /\ r.open = TRUE
               /\ r.quantity = Units[p] /\ r.price = quote[p[2]]
               /\ r.cost # {}
               /\ r.realized = Positions!Attributed(p)
               /\ Positions!Market(r) = Positions!Value(p)
  <1> DEFINE r == Positions!OpenRow(p)
  <1>1. p \in Places /\ Units[p] = Positions!Held(p)
    BY PositionFacts
  <1>2. /\ r.account = p[1] /\ r.instrument = p[2] /\ r.open = TRUE
        /\ r.quantity = Positions!Held(p) /\ r.price = quote[p[2]]
        /\ r.cost = {Positions!OpenBasis(p)}
        /\ r.realized = Positions!Attributed(p)
    BY DEF Positions!OpenRow
  <1>3. Positions!Market(r) = Positions!Value(p)
    BY <1>2 DEF Positions!Market, Positions!Value
  <1> QED BY <1>1, <1>2, <1>3

\* What the row of a closed position shows: its own gains, and no quantity.
LEMMA ClosedRowFacts ==
    ASSUME PositionsInv, NEW p \in Positions!Closed
    PROVE  LET r == Positions!ClosedRow(p)
           IN  /\ r.account = p[1] /\ r.instrument = p[2] /\ r.open = FALSE
               /\ r.quantity = 0 /\ r.realized = gains[p]
               /\ r.price \in Quotes
               /\ Positions!Market(r) = {} \/ Positions!Market(r) = {0}
  <1> DEFINE r == Positions!ClosedRow(p)
  <1>1. p \in Places /\ closing[p] # <<>>
    BY PositionFacts
  <1>2. /\ r.account = p[1] /\ r.instrument = p[2] /\ r.open = FALSE
        /\ r.quantity = 0 /\ r.realized = gains[p] /\ r.price = closing[p][1]
    BY DEF Positions!ClosedRow
  <1>3. PICK q \in Quotes, costly \in BOOLEAN : closing[p] = <<q, costly>>
    BY <1>1 DEF PositionsInv
  <1>4. r.price = q
    BY <1>2, <1>3
  <1>5. \A x \in Nat : 0 * x = 0
    OBVIOUS
  <1>6. \A x \in q : 0 * x = 0
    BY <1>5, ValuationAssumption DEF Quotes
  <1>7. Positions!Market(r) = {0 * x : x \in q}
    BY <1>2, <1>4 DEF Positions!Market
  <1>8. Positions!Market(r) = {} \/ Positions!Market(r) = {0}
    BY <1>6, <1>7
  <1> QED BY <1>2, <1>4, <1>8

\* A sum over rows is the sum over their positions.
LEMMA SumOverOpenRows ==
    ASSUME PositionsInv, NEW S, S \subseteq Positions!Open, NEW f, NEW g,
           \A p \in S : g[p] \in Int /\ f[Positions!OpenRow(p)] = g[p]
    PROVE  /\ IsFiniteSet(S) /\ IsFiniteSet(OpenRows(S))
           /\ \A r \in OpenRows(S) : f[r] \in Int
           /\ SumOf(f, OpenRows(S)) = SumOf(g, S)
  <1> DEFINE e == [p \in S |-> Positions!OpenRow(p)]
             T == OpenRows(S)
  <1>1. S \subseteq Places /\ IsFiniteSet(S)
    BY PositionFacts
  <1>2. \A p, q \in S : e[p] = e[q] => p = q
    <2> SUFFICES ASSUME NEW p \in S, NEW q \in S, e[p] = e[q] PROVE p = q
      OBVIOUS
    <2>1. /\ Positions!OpenRow(p).account = p[1] /\ Positions!OpenRow(p).instrument = p[2]
          /\ Positions!OpenRow(q).account = q[1] /\ Positions!OpenRow(q).instrument = q[2]
      BY OpenRowFacts
    <2>2. Positions!OpenRow(p) = Positions!OpenRow(q)
      OBVIOUS
    <2>3. p[1] = q[1] /\ p[2] = q[2]
      BY <2>1, <2>2
    <2> QED BY <1>1, <2>3, PlacesAreFinite
  <1>3. e \in [S -> T] /\ \A r \in T : \E p \in S : e[p] = r
    BY DEF OpenRows
  <1>4. \A p \in S : g[p] \in Int /\ f[e[p]] = g[p]
    OBVIOUS
  <1>5. T = {e[p] : p \in S}
    BY DEF OpenRows
  <1> HIDE DEF e, T
  <1>6. SumOf(f, T) = SumOf(g, S)
    BY <1>1, <1>2, <1>3, <1>4, SumOfRenamed
  <1>7. IsFiniteSet(T)
    <2>1. e \in Surjection(S, T)
      BY <1>3 DEF Surjection
    <2> QED BY <1>1, <2>1, FS_Surjection
  <1>8. \A r \in T : f[r] \in Int
    BY <1>3, <1>4
  <1> QED BY <1>1, <1>6, <1>7, <1>8 DEF T

\* The same for closed positions.
LEMMA SumOverClosedRows ==
    ASSUME PositionsInv, NEW S, S \subseteq Positions!Closed, NEW f, NEW g,
           \A p \in S : g[p] \in Int /\ f[Positions!ClosedRow(p)] = g[p]
    PROVE  /\ IsFiniteSet(S) /\ IsFiniteSet(ClosedRows(S))
           /\ \A r \in ClosedRows(S) : f[r] \in Int
           /\ SumOf(f, ClosedRows(S)) = SumOf(g, S)
  <1> DEFINE e == [p \in S |-> Positions!ClosedRow(p)]
             T == ClosedRows(S)
  <1>1. S \subseteq Places /\ IsFiniteSet(S)
    BY PositionFacts
  <1>2. \A p, q \in S : e[p] = e[q] => p = q
    <2> SUFFICES ASSUME NEW p \in S, NEW q \in S, e[p] = e[q] PROVE p = q
      OBVIOUS
    <2>1. /\ Positions!ClosedRow(p).account = p[1] /\ Positions!ClosedRow(p).instrument = p[2]
          /\ Positions!ClosedRow(q).account = q[1] /\ Positions!ClosedRow(q).instrument = q[2]
      BY ClosedRowFacts
    <2>2. Positions!ClosedRow(p) = Positions!ClosedRow(q)
      OBVIOUS
    <2>3. p[1] = q[1] /\ p[2] = q[2]
      BY <2>1, <2>2
    <2> QED BY <1>1, <2>3, PlacesAreFinite
  <1>3. e \in [S -> T] /\ \A r \in T : \E p \in S : e[p] = r
    BY DEF ClosedRows
  <1>4. \A p \in S : g[p] \in Int /\ f[e[p]] = g[p]
    OBVIOUS
  <1> HIDE DEF e, T
  <1>6. SumOf(f, T) = SumOf(g, S)
    BY <1>1, <1>2, <1>3, <1>4, SumOfRenamed
  <1>7. IsFiniteSet(T)
    <2>1. e \in Surjection(S, T)
      BY <1>3 DEF Surjection
    <2> QED BY <1>1, <2>1, FS_Surjection
  <1>8. \A r \in T : f[r] \in Int
    BY <1>3, <1>4
  <1> QED BY <1>1, <1>6, <1>7, <1>8 DEF T

\* The totals of open rows and of positions.
LEMMA UnitsOfRows ==
    ASSUME PositionsInv, NEW S, S \subseteq Positions!Open
    PROVE  /\ Positions!Total(OpenRows(S), LAMBDA r : r.quantity) = SumOf(Units, S)
           /\ SumOf(Units, S) \in Int
  <1> DEFINE R == OpenRows(S)
             f == [r \in R |-> r.quantity]
  <1>1. \A p \in S : Units[p] \in Int /\ f[Positions!OpenRow(p)] = Units[p]
    <2> TAKE p \in S
    <2>1. Positions!OpenRow(p) \in R /\ p \in Places
      BY PositionFacts DEF OpenRows
    <2>2. Positions!OpenRow(p).quantity = Units[p] /\ Units[p] \in Nat
      BY <2>1, OpenRowFacts, PositionFacts
    <2> QED BY <2>1, <2>2
  <1>2. \A r \in R : r.quantity = f[r]
    OBVIOUS
  <1> HIDE DEF f
  <1>3. IsFiniteSet(R) /\ (\A r \in R : f[r] \in Int) /\ SumOf(f, R) = SumOf(Units, S) /\ IsFiniteSet(S)
    BY <1>1, SumOverOpenRows
  <1> HIDE DEF R
  <1>4. Positions!Total(R, LAMBDA r : r.quantity) = SumOf(f, R)
    BY <1>2, <1>3, TotalOfQuantity
  <1> QED BY <1>1, <1>3, <1>4, SumOfInt DEF R

\* The values of quoted positions are the same in rows, in slices and on the chart.
LEMMA ValuesOfRows ==
    ASSUME PositionsInv, NEW S, S \subseteq Positions!Quoted
    PROVE  /\ Positions!Total(OpenRows(S), LAMBDA r : Positions!Max(Positions!Market(r))) = SumOf(Values, S)
           /\ Positions!Total(S, LAMBDA p : Positions!Max(Positions!Value(p))) = SumOf(Values, S)
           /\ Positions!Total(S, Positions!Worth) = SumOf(Values, S)
           /\ SumOf(Values, S) \in Int
  <1> DEFINE R == OpenRows(S)
             f == [r \in R |-> Positions!Max(Positions!Market(r))]
  <1>1. S \subseteq Positions!Open /\ S \subseteq Places /\ \A p \in S : quote[p[2]] # {}
    BY PositionFacts
  <1>2. \A p \in S : Values[p] \in Int /\ Positions!Max(Positions!Value(p)) = Values[p]
    BY <1>1, ValueFacts
  <1>3. \A p \in S : Values[p] \in Int /\ f[Positions!OpenRow(p)] = Values[p]
    BY <1>1, <1>2, OpenRowFacts DEF OpenRows
  <1>4. \A r \in R : Positions!Max(Positions!Market(r)) = f[r]
    OBVIOUS
  <1> HIDE DEF f
  <1>5. IsFiniteSet(R) /\ (\A r \in R : f[r] \in Int) /\ SumOf(f, R) = SumOf(Values, S) /\ IsFiniteSet(S)
    BY <1>1, <1>3, SumOverOpenRows
  <1> HIDE DEF R
  <1>6. Positions!Total(R, LAMBDA r : Positions!Max(Positions!Market(r))) = SumOf(f, R)
    BY <1>4, <1>5, TotalOfMarket
  <1>7. Positions!Total(S, LAMBDA p : Positions!Max(Positions!Value(p))) = SumOf(Values, S)
    BY <1>2, <1>5, TotalOfValue
  <1>8. \A p \in S : Positions!Worth(p) = Values[p]
    BY <1>1 DEF Positions!Worth, Values, PriceOf
  <1>9. Positions!Total(S, Positions!Worth) = SumOf(Values, S)
    BY <1>2, <1>5, <1>8, TotalOfWorth
  <1> QED BY <1>2, <1>5, <1>6, <1>7, <1>9, SumOfInt DEF R

\* Units at one price.
LEMMA ValuesOfOnePrice ==
    ASSUME PositionsInv, NEW i \in Instruments, quote[i] # {},
           NEW S, S \subseteq Positions!Quoted, \A p \in S : p[2] = i
    PROVE  SumOf(Units, S) * PriceOf(i) = SumOf(Values, S)
  <1>1. \A p \in S : Units[p] \in Int /\ Values[p] = Units[p] * PriceOf(i)
    BY PositionFacts, ValueFacts
  <1>2. IsFiniteSet(S) /\ PriceOf(i) \in Int
    BY PositionFacts, QuoteFacts
  <1> DEFINE c == PriceOf(i)
  <1>3. c \in Int /\ \A p \in S : Values[p] = Units[p] * c
    BY <1>1, <1>2
  <1> HIDE DEF c
  <1>4. SumOf(Values, S) = SumOf(Units, S) * c
    BY <1>1, <1>2, <1>3, SumOfTimes
  <1> QED BY <1>4 DEF c

\* The realized total of an instrument is the sum over its positions.
OfInstrument(i) == {p \in Places : p[2] = i}

\* What has been realized on an instrument, position by position.
LEMMA RealizedFacts ==
    ASSUME PositionsInv, NEW i \in Instruments
    PROVE  Positions!Realized(i) \in Int /\ Positions!Realized(i) = SumOf(gains, OfInstrument(i))
  <1> DEFINE f == [a \in Accounts |-> gains[<<a, i>>]]
             e == [a \in Accounts |-> <<a, i>>]
             T == OfInstrument(i)
  <1>1. \A a \in Accounts : <<a, i>> \in Places /\ f[a] \in Int /\ gains[<<a, i>>] = f[a]
    BY PlacesAreFinite DEF PositionsInv
  <1>2. e \in [Accounts -> T] /\ (\A a, b \in Accounts : e[a] = e[b] => a = b)
        /\ \A p \in T : \E a \in Accounts : e[a] = p
    BY PlacesAreFinite DEF OfInstrument
  <1>3. \A a \in Accounts : gains[e[a]] = f[a]
    OBVIOUS
  <1> HIDE DEF f, e, T
  <1>4. IsFiniteSet(Accounts) /\ \A a \in Accounts : f[a] \in Int
    BY <1>1, PlacesAreFinite
  <1>5. SumOf(gains, T) = SumOf(f, Accounts)
    BY <1>2, <1>3, <1>4, SumOfRenamed
  <1>6. Positions!Total(Accounts, LAMBDA a : gains[<<a, i>>]) = SumOf(f, Accounts)
    BY <1>1, <1>4, TotalOfGains
  <1>7. SumOf(f, Accounts) \in Int
    BY <1>4, SumOfInt
  <1> QED BY <1>5, <1>6, <1>7 DEF T, Positions!Realized

\* Of the open positions of an instrument one comes first.
LEMMA RepresentativeFacts ==
    ASSUME PositionsInv, NEW i \in Instruments, Positions!OpenOf(i) # {}
    PROVE  Positions!Representative(i) \in Positions!OpenOf(i)
  <1> DEFINE S == Positions!OpenOf(i)
             rank == [p \in S |-> Positions!Rank(p)]
             First(p) == \A other \in S :
                 Positions!Rank(p) > Positions!Rank(other)
                 \/ (Positions!Rank(p) = Positions!Rank(other) /\ p[1] <= other[1])
  <1>1. S \subseteq Places /\ IsFiniteSet(S)
    BY PositionFacts
  <1>2. \A p \in S : rank[p] = Positions!Rank(p) /\ rank[p] \in Int /\ p[1] \in Nat
    <2> TAKE p \in S
    <2>1. p \in Places /\ p[1] \in Nat
      BY <1>1, PlacesAreFinite
    <2>2. Positions!Rank(p) \in Int
      BY <2>1, ValueFacts DEF Positions!Rank
    <2> QED BY <2>1, <2>2
  <1> HIDE DEF S, rank
  <1>3. PICK p \in S : \A other \in S : rank[p] >= rank[other]
    BY <1>1, <1>2, GreatestElement DEF S
  <1> DEFINE best == {other \in S : rank[other] = rank[p]}
             place == [other \in best |-> 0 - other[1]]
  <1>4. IsFiniteSet(best) /\ best # {} /\ \A other \in best : place[other] \in Int
    BY <1>1, <1>2, <1>3, FS_Subset
  <1> HIDE DEF best, place
  <1>5. PICK q \in best : \A other \in best : place[q] >= place[other]
    BY <1>4, GreatestElement
  <1>6. q \in S /\ First(q)
    <2>1. q \in S /\ rank[q] = rank[p]
      BY <1>5 DEF best
    <2> SUFFICES ASSUME NEW other \in S
                 PROVE  rank[q] > rank[other] \/ (rank[q] = rank[other] /\ q[1] <= other[1])
      BY <1>2, <2>1
    <2>2. rank[q] >= rank[other] /\ rank[q] \in Int /\ rank[other] \in Int
      BY <1>2, <1>3, <2>1
    <2>3. CASE rank[q] = rank[other]
      <3>1. other \in best /\ place[other] = 0 - other[1] /\ place[q] = 0 - q[1]
        BY <1>5, <2>1, <2>3 DEF best, place
      <3>2. other[1] \in Nat /\ q[1] \in Nat
        BY <1>2, <2>1
      <3> QED BY <1>5, <2>3, <3>1, <3>2
    <2> QED BY <2>2, <2>3
  <1>7. Positions!Representative(i) = CHOOSE r \in S : First(r)
    BY DEF Positions!Representative, S
  <1> QED BY <1>6, <1>7 DEF S

\* It carries the realized total of its instrument; the others carry none.
LEMMA AttributedTotal ==
    ASSUME PositionsInv, NEW i \in Instruments, Positions!OpenOf(i) # {}
    PROVE  RealizedOf(OpenRows(Positions!OpenOf(i))) = Positions!Realized(i)
  <1> DEFINE S == Positions!OpenOf(i)
             g == [p \in S |-> Positions!Attributed(p)]
             R == OpenRows(S)
             f == [r \in R |-> r.realized]
             rep == Positions!Representative(i)
  <1>1. S \subseteq Positions!Open /\ IsFiniteSet(S) /\ \A p \in S : p[2] = i
    BY PositionFacts
  <1>2. rep \in S /\ Positions!Realized(i) \in Int
    BY RepresentativeFacts, RealizedFacts
  <1>3. \A p \in S : g[p] = IF p = rep THEN Positions!Realized(i) ELSE 0
    BY <1>1 DEF Positions!Attributed
  <1>4. \A p \in S : g[p] \in Int /\ f[Positions!OpenRow(p)] = g[p]
    <2> TAKE p \in S
    <2>1. Positions!OpenRow(p) \in R
      BY DEF OpenRows
    <2>2. Positions!OpenRow(p).realized = Positions!Attributed(p)
      BY <1>1, OpenRowFacts
    <2> QED BY <1>2, <1>3, <2>1, <2>2
  <1>5. \A r \in R : r.realized = f[r]
    OBVIOUS
  <1> HIDE DEF S, g, f, rep
  <1>6. IsFiniteSet(R) /\ (\A r \in R : f[r] \in Int) /\ SumOf(f, R) = SumOf(g, S)
    BY <1>1, <1>4, SumOverOpenRows
  <1> HIDE DEF R
  <1>7. Positions!Total(R, LAMBDA r : r.realized) = SumOf(f, R)
    BY <1>5, <1>6, TotalOfRealized
  <1>8. SumOf(g, S) = g[rep]
    <2>1. SumOf(g, S) = SumOf(g, {rep})
      <3>1. {rep} \subseteq S /\ \A p \in S \ {rep} : g[p] = 0
        BY <1>2, <1>3
      <3> QED BY <1>1, <1>4, <3>1, SumOfSupport
    <2>2. SumOf(g, {rep}) = g[rep] + SumOf(g, {rep} \ {rep})
      <3>1. rep \in {rep} /\ IsFiniteSet({rep}) /\ \A p \in {rep} : g[p] \in Int
        BY <1>2, <1>4, FS_Singleton
      <3> QED BY <3>1, SumOfRemove
    <2>3. {rep} \ {rep} = {}
      OBVIOUS
    <2>4. SumOf(g, {}) = 0 /\ g[rep] \in Int
      BY <1>2, <1>4, SumOfEmpty
    <2>5. SumOf(g, {rep}) = g[rep] + 0
      BY <2>2, <2>3, <2>4
    <2> QED BY <2>1, <2>4, <2>5
  <1> QED BY <1>2, <1>3, <1>6, <1>7, <1>8 DEF R, S, RealizedOf

\* The rows of /api/perf, and those of one instrument.
LEMMA TableRows ==
    /\ Positions!PerfRows(FALSE) = OpenRows(Positions!Open)
    /\ Positions!PerfRows(TRUE) = OpenRows(Positions!Open) \cup ClosedRows(Positions!Closed)
    /\ Positions!ClosedTable = ClosedRows(Positions!Closed)
  <1>1. Positions!PerfRows(FALSE) = OpenRows(Positions!Open)
    BY DEF Positions!PerfRows, OpenRows
  <1>2. Positions!PerfRows(TRUE) = OpenRows(Positions!Open) \cup ClosedRows(Positions!Closed)
    BY DEF Positions!PerfRows, OpenRows, ClosedRows
  <1>3. Positions!ClosedTable = ClosedRows(Positions!Closed)
    BY DEF Positions!ClosedTable, ClosedRows
  <1> QED BY <1>1, <1>2, <1>3

\* Of one instrument, the open rows are those of its open positions.
LEMMA RowsOfOne ==
    ASSUME PositionsInv, NEW i
    PROVE  /\ {r \in Positions!PerfRows(FALSE) : r.instrument = i} = OpenRows(Positions!OpenOf(i))
           /\ {r \in Positions!RowsOf(i) : r.open} = OpenRows(Positions!OpenOf(i))
  <1>1. \A p \in Positions!Open : /\ Positions!OpenRow(p).instrument = p[2]
                                  /\ Positions!OpenRow(p).open = TRUE
    BY OpenRowFacts
  <1>2. \A p \in Positions!Closed : Positions!ClosedRow(p).open = FALSE
    BY ClosedRowFacts
  <1>3. Positions!OpenOf(i) = {p \in Positions!Open : p[2] = i}
    BY PositionFacts
  <1>4. {r \in Positions!PerfRows(FALSE) : r.instrument = i} = OpenRows(Positions!OpenOf(i))
    BY <1>1, <1>3, TableRows DEF OpenRows
  <1>5. {r \in Positions!RowsOf(i) : r.open} = OpenRows(Positions!OpenOf(i))
    <2>1. ASSUME NEW r, r \in Positions!RowsOf(i), r.open PROVE r \in OpenRows(Positions!OpenOf(i))
      BY <1>1, <1>2, <1>3, <2>1, TableRows DEF OpenRows, ClosedRows, Positions!RowsOf
    <2>2. ASSUME NEW p \in Positions!OpenOf(i)
          PROVE  Positions!OpenRow(p) \in Positions!RowsOf(i) /\ Positions!OpenRow(p).open
      BY <1>1, <1>3, TableRows DEF OpenRows, Positions!RowsOf
    <2> DEFINE L == {r \in Positions!RowsOf(i) : r.open}
    <2>3. \A r \in L : r \in OpenRows(Positions!OpenOf(i))
      BY <2>1
    <2>4. \A r \in OpenRows(Positions!OpenOf(i)) : r \in L
      BY <2>2 DEF OpenRows
    <2> HIDE DEF L
    <2>5. L = OpenRows(Positions!OpenOf(i))
      BY <2>3, <2>4
    <2> QED BY <2>5 DEF L
  <1> QED BY <1>4, <1>5

\* Rows have a first one, by account.
LEMMA FirstRow ==
    ASSUME NEW G, IsFiniteSet(G), G # {}, \A r \in G : r.account \in Nat
    PROVE  \E r \in G : \A other \in G : r.account <= other.account
  <1> DEFINE f == [r \in G |-> 0 - r.account]
  <1>1. \A r \in G : f[r] \in Int /\ f[r] = 0 - r.account
    OBVIOUS
  <1>2. \A r \in G : f[r] \in Int
    BY <1>1
  <1> HIDE DEF f
  <1>3. PICK r \in G : \A other \in G : f[r] >= f[other]
    BY <1>2, GreatestElement
  <1>4. ASSUME NEW other \in G PROVE r.account <= other.account
    BY <1>1, <1>3
  <1> QED BY <1>4

\* Rows of one instrument put into one.
LEMMA AggregatedFacts ==
    ASSUME PositionsInv, NEW i \in Instruments,
           NEW S, S \subseteq Positions!Open, NEW C, C \subseteq Positions!Closed,
           S # {} \/ C # {}, \A p \in S \cup C : p[2] = i
    PROVE  LET G == OpenRows(S) \cup ClosedRows(C)
           IN  /\ Positions!Aggregated(G).instrument = i
               /\ Positions!Aggregated(G).quantity = SumOf(Units, S)
               /\ S # {} => Positions!Aggregated(G).price = quote[i]
               /\ Positions!Aggregated(G).price \in Quotes
               /\ S # {} => Positions!Aggregated(G).cost = {CostOf(OpenRows(S))}
               /\ Positions!Aggregated(G).realized = RealizedOf(G)
  <1> DEFINE G == OpenRows(S) \cup ClosedRows(C)
             open == {r \in G : r.open}
             source == IF open = {} THEN G ELSE open
             first == CHOOSE r \in source : \A other \in source : r.account <= other.account
             f == [r \in G |-> r.quantity]
  <1>1. \A p \in S : LET r == Positions!OpenRow(p)
                     IN  /\ r.account \in Nat /\ r.instrument = i /\ r.open = TRUE
                         /\ r.price = quote[i] /\ r.quantity = Units[p] /\ Units[p] \in Int
    <2> TAKE p \in S
    <2>1. p \in Places /\ p[1] \in Nat /\ p[2] = i
      BY PositionFacts, PlacesAreFinite
    <2>2. Units[p] \in Int
      BY <2>1, PositionFacts
    <2> QED BY <2>1, <2>2, OpenRowFacts
  <1>2. \A p \in C : LET r == Positions!ClosedRow(p)
                     IN  /\ r.account \in Nat /\ r.instrument = i /\ r.open = FALSE
                         /\ r.price \in Quotes /\ r.quantity = 0
    <2> TAKE p \in C
    <2>1. p \in Places /\ p[1] \in Nat /\ p[2] = i
      BY PositionFacts, PlacesAreFinite
    <2> QED BY <2>1, ClosedRowFacts
  <1>3. open = OpenRows(S) /\ (open = {} <=> S = {})
    BY <1>1, <1>2 DEF OpenRows, ClosedRows
  <1>4. IsFiniteSet(G) /\ G # {} /\ \A r \in G : r.account \in Nat /\ r.instrument = i
    <2>1. IsFiniteSet(OpenRows(S)) /\ IsFiniteSet(ClosedRows(C))
      <3>1. IsFiniteSet(S) /\ IsFiniteSet(C)
        BY PositionFacts
      <3> DEFINE e == [p \in S |-> Positions!OpenRow(p)]
                 c == [p \in C |-> Positions!ClosedRow(p)]
      <3>2. e \in Surjection(S, OpenRows(S)) /\ c \in Surjection(C, ClosedRows(C))
        BY DEF Surjection, OpenRows, ClosedRows
      <3> QED BY <3>1, <3>2, FS_Surjection
    <2>2. G # {}
      BY DEF OpenRows, ClosedRows
    <2>3. \A r \in G : r.account \in Nat /\ r.instrument = i
      BY <1>1, <1>2 DEF OpenRows, ClosedRows
    <2> QED BY <2>1, <2>2, <2>3, FS_Union
  <1>5. first \in source
    <2> HIDE DEF open
    <2>1. IsFiniteSet(source) /\ source # {} /\ \A r \in source : r.account \in Nat
      <3>1. open \subseteq G
        BY DEF open
      <3> QED BY <1>4, <3>1, FS_Subset
    <2> HIDE DEF source
    <2> QED BY <2>1, FirstRow
  <1>6. first.instrument = i /\ (S # {} => first.price = quote[i]) /\ first.price \in Quotes
    <2>1. first \in G /\ (S # {} => first \in OpenRows(S))
      BY <1>3, <1>5
    <2> HIDE DEF first
    <2>2. quote[i] \in Quotes
      BY DEF PositionsInv
    <2>3. \A r \in OpenRows(S) : r.price = quote[i]
      BY <1>1 DEF OpenRows
    <2>4. \A r \in ClosedRows(C) : r.price \in Quotes
      BY <1>2 DEF ClosedRows
    <2> QED BY <1>4, <2>1, <2>2, <2>3, <2>4
  <1>7. Positions!Total(G, LAMBDA r : r.quantity) = SumOf(Units, S)
    <2>1. \A p \in S : Units[p] \in Int /\ f[Positions!OpenRow(p)] = Units[p]
      BY <1>1 DEF OpenRows
    <2>2. \A r \in G : f[r] = r.quantity
      OBVIOUS
    <2>3. \A r \in G : f[r] \in Int
      BY <1>1, <1>2 DEF OpenRows, ClosedRows
    <2>4. \A r \in G \ OpenRows(S) : f[r] = 0
      BY <1>2 DEF ClosedRows
    <2> HIDE DEF f
    <2>5. SumOf(f, OpenRows(S)) = SumOf(Units, S)
      BY <2>1, SumOverOpenRows
    <2>6. SumOf(f, G) = SumOf(f, OpenRows(S))
      BY <1>4, <2>3, <2>4, SumOfSupport
    <2>7. Positions!Total(G, LAMBDA r : r.quantity) = SumOf(f, G)
      BY <1>4, <2>2, <2>3, TotalOfQuantity
    <2> QED BY <2>5, <2>6, <2>7
  <1> HIDE DEF f
  <1> DEFINE quantity == Positions!Total(G, LAMBDA r : r.quantity)
             cost == IF open = {} THEN {} ELSE {CostOf(open)}
             realized == RealizedOf(G)
  <1>8. Positions!Aggregated(G) =
            [instrument |-> first.instrument, open |-> open # {}, quantity |-> quantity,
             cost |-> cost, price |-> first.price, realized |-> realized]
    BY Zenon DEF Positions!Aggregated, RealizedOf, CostOf
  <1> HIDE DEF first, open
  <1>9. S # {} => cost = {CostOf(OpenRows(S))}
    <2>1. S # {} => cost = {CostOf(open)}
      BY <1>3
    <2> QED BY <1>3, <2>1
  <1> HIDE DEF quantity, cost, realized
  <1>10. /\ Positions!Aggregated(G).instrument = first.instrument
         /\ Positions!Aggregated(G).price = first.price
         /\ Positions!Aggregated(G).quantity = quantity
         /\ Positions!Aggregated(G).cost = cost
         /\ Positions!Aggregated(G).realized = realized
    BY <1>8
  <1>11. quantity = SumOf(Units, S) /\ realized = RealizedOf(G)
    BY <1>7 DEF quantity, realized
  <1> QED BY <1>6, <1>7, <1>9, <1>10, <1>11

\* The value of rows: absent when one of their positions has no quote.
LEMMA ValueOfRows ==
    ASSUME PositionsInv, NEW S, S \subseteq Positions!Open
    PROVE  Positions!SumIfAll(OpenRows(S), Positions!Market) =
               IF S \subseteq Positions!Quoted THEN {SumOf(Values, S)} ELSE {}
  <1>1. \A p \in S : /\ Positions!Market(Positions!OpenRow(p)) = {} <=> quote[p[2]] = {}
                     /\ p \in Positions!Quoted <=> quote[p[2]] # {}
    <2> TAKE p \in S
    <2>1. p \in Places /\ p \in Positions!Open
      BY PositionFacts
    <2>2. Positions!Market(Positions!OpenRow(p)) = Positions!Value(p)
      BY <2>1, OpenRowFacts
    <2>3. Positions!Value(p) = {} <=> quote[p[2]] = {}
      BY <2>1, ValueFacts
    <2> QED BY <2>1, <2>2, <2>3 DEF Positions!Quoted
  <1>2. (\E r \in OpenRows(S) : Positions!Market(r) = {}) <=> ~(S \subseteq Positions!Quoted)
    BY <1>1 DEF OpenRows
  <1> DEFINE total == Positions!Total(OpenRows(S), LAMBDA r : Positions!Max(Positions!Market(r)))
  <1>3. Positions!SumIfAll(OpenRows(S), Positions!Market) =
            IF \E r \in OpenRows(S) : Positions!Market(r) = {} THEN {} ELSE {total}
    BY Zenon DEF Positions!SumIfAll
  <1>4. S \subseteq Positions!Quoted => total = SumOf(Values, S)
    BY ValuesOfRows
  <1> HIDE DEF total
  <1> QED BY <1>2, <1>3, <1>4

\* The cost of open rows, which all have one.
LEMMA CostOfRows ==
    ASSUME PositionsInv, NEW S, S \subseteq Positions!Open
    PROVE  Positions!SumIfAll(OpenRows(S), LAMBDA r : r.cost) =
               {CostOf(OpenRows(S))}
  <1>1. \A r \in OpenRows(S) : r.cost # {}
    BY OpenRowFacts DEF OpenRows
  <1> DEFINE total == CostOf(OpenRows(S))
  <1>2. Positions!SumIfAll(OpenRows(S), LAMBDA r : r.cost) =
            IF \E r \in OpenRows(S) : r.cost = {} THEN {} ELSE {total}
    BY Zenon DEF Positions!SumIfAll, CostOf
  <1> HIDE DEF total
  <1>3. Positions!SumIfAll(OpenRows(S), LAMBDA r : r.cost) = {total}
    BY <1>1, <1>2
  <1> QED BY <1>3 DEF total

\* The headline figures of an instrument that is held.
LEMMA HeadlineFacts ==
    ASSUME PositionsInv, NEW i, Positions!OpenOf(i) # {}
    PROVE  /\ Positions!Headline(i).quantity = SumOf(Units, Positions!OpenOf(i))
           /\ Positions!Headline(i).cost = {CostOf(OpenRows(Positions!OpenOf(i)))}
           /\ Positions!Headline(i).value =
                IF Positions!OpenOf(i) \subseteq Positions!Quoted
                THEN {SumOf(Values, Positions!OpenOf(i))} ELSE {}
  <1> DEFINE S == Positions!OpenOf(i)
             open == {r \in Positions!RowsOf(i) : r.open}
             quantity == Positions!Total(open, LAMBDA r : r.quantity)
             value == IF open = {} THEN {} ELSE Positions!SumIfAll(open, Positions!Market)
             cost == IF open = {} THEN {} ELSE Positions!SumIfAll(open, LAMBDA r : r.cost)
             realized == Positions!Total(Positions!RowsOf(i), LAMBDA r : r.realized)
  <1>1. S \subseteq Positions!Open
    BY PositionFacts
  <1>2. open = OpenRows(S) /\ OpenRows(S) # {}
    <2>1. open = OpenRows(S)
      BY RowsOfOne
    <2>2. OpenRows(S) # {}
      BY DEF OpenRows
    <2> QED BY <2>1, <2>2
  <1>3. Positions!Headline(i) =
            [quantity |-> quantity, value |-> value, cost |-> cost, realized |-> realized]
    BY Zenon DEF Positions!Headline, Positions!InstrumentFigures
  <1> HIDE DEF open
  <1>4. quantity = SumOf(Units, S)
    BY <1>1, <1>2, UnitsOfRows
  <1>5. value = IF S \subseteq Positions!Quoted THEN {SumOf(Values, S)} ELSE {}
    BY <1>1, <1>2, ValueOfRows
  <1>6. cost = {CostOf(OpenRows(S))}
    BY <1>1, <1>2, CostOfRows
  <1> DEFINE total == CostOf(OpenRows(S))
  <1>7. cost = {total}
    BY <1>6
  <1> HIDE DEF quantity, value, cost, realized, total
  <1>8. /\ Positions!Headline(i).quantity = quantity /\ Positions!Headline(i).value = value
        /\ Positions!Headline(i).cost = cost
    BY <1>3
  <1>9. Positions!Headline(i).cost = {total}
    BY <1>7, <1>8
  <1>10. Positions!Headline(i).value = IF S \subseteq Positions!Quoted THEN {SumOf(Values, S)} ELSE {}
    BY <1>5, <1>8
  <1> QED BY <1>4, <1>8, <1>9, <1>10 DEF total

\* A row of the table of holdings is one instrument's open positions.
LEMMA HoldingsRow ==
    ASSUME PositionsInv, NEW row \in Positions!HoldingsTable
    PROVE  \E i \in Instruments :
               /\ Positions!OpenOf(i) # {}
               /\ row = Positions!Aggregated(OpenRows(Positions!OpenOf(i)))
  <1> DEFINE rows == Positions!PerfRows(FALSE)
  <1>1. PICK i \in {r.instrument : r \in rows} :
            row = Positions!Aggregated({r \in rows : r.instrument = i})
    BY DEF Positions!HoldingsTable, Positions!ByInstrument
  <1>2. PICK p \in Positions!Open : i = Positions!OpenRow(p).instrument
    BY <1>1, TableRows DEF OpenRows
  <1>3. i = p[2] /\ p \in Places
    BY <1>2, OpenRowFacts, PositionFacts
  <1>4. p \in Positions!OpenOf(i) /\ i \in Instruments
    BY <1>3, PositionFacts, PlacesAreFinite
  <1>5. {r \in rows : r.instrument = i} = OpenRows(Positions!OpenOf(i))
    BY RowsOfOne
  <1>6. row = Positions!Aggregated(OpenRows(Positions!OpenOf(i)))
    BY <1>1, <1>5
  <1> QED BY <1>4, <1>6

\* Its figures.
LEMMA HoldingsRowFacts ==
    ASSUME PositionsInv, NEW i \in Instruments, Positions!OpenOf(i) # {},
           NEW row, row = Positions!Aggregated(OpenRows(Positions!OpenOf(i)))
    PROVE  /\ row.instrument = i
           /\ row.quantity = SumOf(Units, Positions!OpenOf(i))
           /\ row.price = quote[i]
           /\ row.cost = {CostOf(OpenRows(Positions!OpenOf(i)))}
           /\ row.realized = Positions!Realized(i)
  <1> DEFINE S == Positions!OpenOf(i)
             C == {}
             G == OpenRows(S) \cup ClosedRows(C)
  <1>1. /\ S \subseteq Positions!Open /\ C \subseteq Positions!Closed /\ S # {}
        /\ \A p \in S \cup C : p[2] = i
    BY PositionFacts
  <1>2. G = OpenRows(S)
    BY DEF ClosedRows
  <1>3. RealizedOf(OpenRows(S)) = Positions!Realized(i)
    BY AttributedTotal
  <1>4. /\ Positions!Aggregated(G).instrument = i
        /\ Positions!Aggregated(G).quantity = SumOf(Units, S)
        /\ Positions!Aggregated(G).price = quote[i]
        /\ Positions!Aggregated(G).cost = {CostOf(OpenRows(S))}
        /\ Positions!Aggregated(G).realized = RealizedOf(G)
    <2> HIDE DEF S, C
    <2> QED BY <1>1, AggregatedFacts
  <1>5. row = Positions!Aggregated(G)
    BY <1>2
  <1> HIDE DEF S, C, G
  <1> QED BY <1>2, <1>3, <1>4, <1>5 DEF S

\* The rows per account under an instrument are its open positions, or none.
LEMMA AccountRowsFacts ==
    ASSUME PositionsInv, NEW i
    PROVE  \/ {r \in Positions!AccountRows(i) : r.open} = {}
           \/ {r \in Positions!AccountRows(i) : r.open} = OpenRows(Positions!OpenOf(i))
  <1>1. Positions!AccountRows(i) = {} \/ Positions!AccountRows(i) = Positions!RowsOf(i)
    BY DEF Positions!AccountRows
  <1>2. CASE Positions!AccountRows(i) = {}
    BY <1>2
  <1>3. CASE Positions!AccountRows(i) = Positions!RowsOf(i)
    BY <1>3, RowsOfOne
  <1> QED BY <1>1, <1>2, <1>3

\* The worth of an instrument's row is that of its positions.
LEMMA MarketOfHoldings ==
    ASSUME PositionsInv, NEW i \in Instruments, NEW S, S \subseteq Positions!Open, S # {},
           \A p \in S : p[2] = i, NEW row, row.quantity = SumOf(Units, S), row.price = quote[i]
    PROVE  Positions!Market(row) =
               IF S \subseteq Positions!Quoted THEN {SumOf(Values, S)} ELSE {}
  <1>1. Positions!Market(row) = {row.quantity * price : price \in quote[i]}
    BY DEF Positions!Market
  <1>2. S \subseteq Positions!Quoted <=> quote[i] # {}
    BY DEF Positions!Quoted
  <1>3. CASE quote[i] = {}
    BY <1>1, <1>2, <1>3
  <1>4. CASE quote[i] # {}
    <2>1. quote[i] = {PriceOf(i)}
      BY <1>4, QuoteFacts
    <2>2. SumOf(Units, S) * PriceOf(i) = SumOf(Values, S)
      BY <1>2, <1>4, ValuesOfOnePrice
    <2> QED BY <1>1, <1>2, <1>4, <2>1, <2>2
  <1> QED BY <1>3, <1>4

\* Row and headline agree, and the open rows carry the realized total once.
LEMMA HoldingsAgree ==
    ASSUME PositionsInv
    PROVE  Positions!RowMatchesHeadline /\ Positions!OpenRowsRealizeAll
  <1> SUFFICES ASSUME NEW row \in Positions!HoldingsTable
               PROVE  LET head == Positions!Headline(row.instrument)
                          accounts == {r \in Positions!AccountRows(row.instrument) : r.open}
                      IN  /\ row.quantity = head.quantity
                          /\ row.cost = head.cost
                          /\ Positions!Market(row) = head.value
                          /\ accounts # {} => Positions!SumIfAll(accounts, Positions!Market) = head.value
                          /\ row.realized = Positions!Realized(row.instrument)
    BY Zenon DEF Positions!RowMatchesHeadline, Positions!OpenRowsRealizeAll
  <1>1. PICK i \in Instruments : /\ Positions!OpenOf(i) # {}
                                 /\ row = Positions!Aggregated(OpenRows(Positions!OpenOf(i)))
    BY HoldingsRow
  <1> DEFINE S == Positions!OpenOf(i)
             total == CostOf(OpenRows(S))
             worth == IF S \subseteq Positions!Quoted THEN {SumOf(Values, S)} ELSE {}
             head == Positions!Headline(i)
             accounts == {r \in Positions!AccountRows(i) : r.open}
  <1>2. S \subseteq Positions!Open /\ S # {} /\ \A p \in S : p[2] = i
    BY <1>1, PositionFacts
  <1>3. /\ row.instrument = i /\ row.quantity = SumOf(Units, S) /\ row.price = quote[i]
        /\ row.cost = {total} /\ row.realized = Positions!Realized(i)
    BY <1>1, HoldingsRowFacts
  <1>4. head.quantity = SumOf(Units, S) /\ head.cost = {total} /\ head.value = worth
    BY <1>1, HeadlineFacts
  <1>5. accounts # {} => accounts = OpenRows(S)
    BY AccountRowsFacts
  <1>6. Positions!SumIfAll(OpenRows(S), Positions!Market) = worth
    BY <1>2, ValueOfRows
  <1> HIDE DEF S, total
  <1>7. Positions!Market(row) = worth
    BY <1>2, <1>3, MarketOfHoldings
  <1> HIDE DEF worth, head, accounts
  <1>8. accounts # {} => Positions!SumIfAll(accounts, Positions!Market) = head.value
    BY <1>4, <1>5, <1>6
  <1> QED BY <1>3, <1>4, <1>7, <1>8 DEF head, accounts

\* The gains that rows carry.
Attributions == [p \in Places |-> Positions!Attributed(p)]

\* Open rows carry what is attributed to their positions.
LEMMA RealizedOfOpenRows ==
    ASSUME PositionsInv, NEW S, S \subseteq Positions!Open
    PROVE  /\ RealizedOf(OpenRows(S)) = SumOf(Attributions, S)
           /\ \A p \in S : Attributions[p] \in Int
  <1> DEFINE R == OpenRows(S)
             f == [r \in R |-> r.realized]
  <1>1. \A p \in S : Attributions[p] \in Int /\ f[Positions!OpenRow(p)] = Attributions[p]
    <2> TAKE p \in S
    <2>1. p \in Places /\ p[2] \in Instruments /\ Positions!OpenRow(p) \in R
      BY PositionFacts, PlacesAreFinite DEF OpenRows
    <2>2. Positions!Realized(p[2]) \in Int
      BY <2>1, RealizedFacts
    <2>3. Positions!Attributed(p) \in Int
      BY <2>2 DEF Positions!Attributed
    <2>4. Positions!OpenRow(p).realized = Positions!Attributed(p)
      BY OpenRowFacts
    <2> QED BY <2>1, <2>3, <2>4 DEF Attributions
  <1>2. \A r \in R : r.realized = f[r]
    OBVIOUS
  <1> HIDE DEF f
  <1>3. IsFiniteSet(R) /\ (\A r \in R : f[r] \in Int) /\ SumOf(f, R) = SumOf(Attributions, S)
    BY <1>1, SumOverOpenRows
  <1> HIDE DEF R
  <1>4. Positions!Total(R, LAMBDA r : r.realized) = SumOf(f, R)
    BY <1>2, <1>3, TotalOfRealized
  <1>5. RealizedOf(R) = SumOf(f, R)
    BY <1>4 DEF RealizedOf
  <1> QED BY <1>1, <1>3, <1>5 DEF R

\* Closed rows carry the gains of their own positions.
LEMMA RealizedOfClosedRows ==
    ASSUME PositionsInv, NEW C, C \subseteq Positions!Closed
    PROVE  RealizedOf(ClosedRows(C)) = SumOf(gains, C)
  <1> DEFINE R == ClosedRows(C)
             f == [r \in R |-> r.realized]
  <1>1. \A p \in C : gains[p] \in Int /\ f[Positions!ClosedRow(p)] = gains[p]
    <2> TAKE p \in C
    <2>1. gains[p] \in Int /\ Positions!ClosedRow(p) \in R
      BY PositionFacts DEF ClosedRows, PositionsInv
    <2>2. Positions!ClosedRow(p).realized = gains[p]
      BY ClosedRowFacts
    <2> QED BY <2>1, <2>2
  <1>2. \A r \in R : r.realized = f[r]
    OBVIOUS
  <1> HIDE DEF f
  <1>3. IsFiniteSet(R) /\ (\A r \in R : f[r] \in Int) /\ SumOf(f, R) = SumOf(gains, C)
    BY <1>1, SumOverClosedRows
  <1> HIDE DEF R
  <1>4. Positions!Total(R, LAMBDA r : r.realized) = SumOf(f, R)
    BY <1>2, <1>3, TotalOfRealized
  <1>5. RealizedOf(R) = SumOf(f, R)
    BY <1>4 DEF RealizedOf
  <1> QED BY <1>3, <1>5 DEF R

\* The instruments that are held, and the gains of their open rows.
HeldInstruments == {i \in Instruments : Positions!OpenOf(i) # {}}
RealizedTotals == [i \in Instruments |-> Positions!Realized(i)]

\* Of the instruments held, the open rows carry every gain once.
LEMMA GainsOfHeld ==
    ASSUME PositionsInv
    PROVE  RealizedOf(OpenRows(Positions!Open)) = SumOf(RealizedTotals, HeldInstruments)
  <1> DEFINE S == Positions!Open
             H == HeldInstruments
             of == [p \in Places |-> p[2]]
  <1>1. S \subseteq Places /\ IsFiniteSet(S) /\ IsFiniteSet(H)
    BY PositionFacts, PlacesAreFinite, FS_Subset DEF HeldInstruments
  <1>2. \A p \in S : Attributions[p] \in Int
    BY RealizedOfOpenRows
  <1>3. \A p \in S : of[p] \in H
    BY <1>1, PlacesAreFinite, PositionFacts DEF HeldInstruments
  <1>4. ASSUME NEW i \in H
        PROVE  /\ Positions!OpenOf(i) \subseteq S
               /\ RealizedTotals[i] = SumOf(Attributions, Positions!OpenOf(i))
    <2> DEFINE O == Positions!OpenOf(i)
    <2>1. i \in Instruments /\ O # {} /\ O \subseteq Positions!Open
      BY PositionFacts DEF HeldInstruments
    <2>2. RealizedOf(OpenRows(O)) = Positions!Realized(i)
      BY <2>1, AttributedTotal
    <2>3. RealizedOf(OpenRows(O)) = SumOf(Attributions, O)
      BY <2>1, RealizedOfOpenRows
    <2> QED BY <2>1, <2>2, <2>3 DEF RealizedTotals
  <1>5. RealizedOf(OpenRows(S)) = SumOf(Attributions, S)
    BY RealizedOfOpenRows
  <1>6. SumOf(RealizedTotals, H) = SumOf(Attributions, S)
    <2> DEFINE group == [i \in H |-> Positions!OpenOf(i)]
    <2>1. IsFiniteSet(S) /\ IsFiniteSet(H)
      BY <1>1
    <2>2. \A i \in H : group[i] \subseteq S /\ RealizedTotals[i] = SumOf(Attributions, group[i])
      BY <1>4
    <2>3. \A p \in S : of[p] \in H /\ p \in group[of[p]]
      BY <1>1, <1>3, PositionFacts
    <2>4. \A i \in H : \A p \in group[i] : of[p] = i
      BY <1>1, PositionFacts
    <2> HIDE DEF S, H, of, group
    <2> QED BY <1>2, <2>1, <2>2, <2>3, <2>4, SumOfNamedGroups
  <1> HIDE DEF S, H
  <1> QED BY <1>5, <1>6 DEF S, H

\* The gains of the other instruments are those of their closed positions.
LEMMA GainsOfOthers ==
    ASSUME PositionsInv
    PROVE  RealizedOf({r \in Positions!ClosedTable : Positions!OpenOf(r.instrument) = {}}) =
               SumOf(RealizedTotals, Instruments \ HeldInstruments)
  <1> DEFINE N == Instruments \ HeldInstruments
             P == {p \in Places : p[2] \in N}
             C == {p \in Positions!Closed : p[2] \in N}
             of == [p \in Places |-> p[2]]
  <1>1. {r \in Positions!ClosedTable : Positions!OpenOf(r.instrument) = {}} = ClosedRows(C)
    <2> DEFINE L == {r \in Positions!ClosedTable : Positions!OpenOf(r.instrument) = {}}
    <2>1. \A p \in Positions!Closed : /\ Positions!ClosedRow(p).instrument = p[2]
                                      /\ p[2] \in Instruments
      BY ClosedRowFacts, PositionFacts, PlacesAreFinite
    <2>2. \A p \in Positions!Closed : p[2] \in N <=> Positions!OpenOf(p[2]) = {}
      BY <2>1 DEF HeldInstruments
    <2>3. ASSUME NEW r \in L PROVE r \in ClosedRows(C)
      <3>1. PICK p \in Positions!Closed : r = Positions!ClosedRow(p)
        BY TableRows DEF ClosedRows
      <3>2. p \in C
        BY <2>1, <2>2, <3>1
      <3> QED BY <3>1, <3>2 DEF ClosedRows
    <2>4. ASSUME NEW p \in C PROVE Positions!ClosedRow(p) \in L
      <3>1. Positions!ClosedRow(p) \in Positions!ClosedTable
        BY TableRows DEF ClosedRows
      <3> QED BY <2>1, <2>2, <3>1
    <2> HIDE DEF L, C
    <2>5. L \subseteq ClosedRows(C) /\ ClosedRows(C) \subseteq L
      BY <2>3, <2>4 DEF ClosedRows
    <2> QED BY <2>5 DEF L
  <1>2. RealizedOf(ClosedRows(C)) = SumOf(gains, C)
    BY RealizedOfClosedRows
  <1>3. SumOf(gains, P) = SumOf(gains, C)
    <2>1. IsFiniteSet(P) /\ C \subseteq P /\ \A p \in P : gains[p] \in Int
      BY PositionFacts DEF PositionsInv
    <2>2. \A p \in P \ C : gains[p] = 0
      <3> TAKE p \in P \ C
      <3>1. p \in Places /\ p \notin Positions!Open /\ p \notin Positions!Closed
        BY PositionFacts DEF HeldInstruments
      <3>2. Units[p] \in Nat /\ ~(Units[p] > 0) /\ ~(Units[p] = 0 /\ closing[p] # <<>>)
        BY <3>1, PositionFacts
      <3>3. closing[p] = <<>>
        BY <3>2
      <3> QED BY <3>1, <3>3 DEF PositionsInv
    <2> HIDE DEF P, C
    <2> QED BY <2>1, <2>2, SumOfSupport
  <1>4. SumOf(RealizedTotals, N) = SumOf(gains, P)
    <2>1. IsFiniteSet(P) /\ IsFiniteSet(N) /\ \A p \in P : gains[p] \in Int
      BY PositionFacts, PlacesAreFinite, FS_Subset DEF PositionsInv
    <2>2. \A p \in P : of[p] \in N
      OBVIOUS
    <2>3. \A i \in N : RealizedTotals[i] = SumOf(gains, {p \in P : of[p] = i})
      <3> TAKE i \in N
      <3>1. {p \in P : of[p] = i} = OfInstrument(i)
        BY DEF OfInstrument
      <3> QED BY <3>1, RealizedFacts DEF RealizedTotals
    <2> HIDE DEF P, N, of
    <2> QED BY <2>1, <2>2, <2>3, SumOfGroups
  <1> QED BY <1>1, <1>2, <1>3, <1>4

\* The lifetime figure splits into the open rows and the rest, nothing twice.
LEMMA GainsAgree ==
    ASSUME PositionsInv
    PROVE  Positions!GainsAddUp
  <1> DEFINE others == {r \in Positions!ClosedTable : Positions!OpenOf(r.instrument) = {}}
             H == HeldInstruments
             N == Instruments \ H
  <1>1. \A i \in Instruments : RealizedTotals[i] \in Int /\ Positions!Realized(i) = RealizedTotals[i]
    BY RealizedFacts DEF RealizedTotals
  <1>2. Positions!Lifetime = SumOf(RealizedTotals, Instruments)
    BY <1>1, PlacesAreFinite, TotalOfInstruments DEF Positions!Lifetime
  <1>3. /\ IsFiniteSet(H) /\ IsFiniteSet(N) /\ H \cap N = {} /\ H \cup N = Instruments
        /\ \A i \in H \cup N : RealizedTotals[i] \in Int
    BY <1>1, PlacesAreFinite, FS_Subset DEF HeldInstruments
  <1>4. RealizedOf(Positions!PerfRows(FALSE)) = SumOf(RealizedTotals, H)
    BY GainsOfHeld, TableRows
  <1>5. RealizedOf(others) = SumOf(RealizedTotals, N)
    BY GainsOfOthers
  <1> HIDE DEF H, N, others
  <1>6. SumOf(RealizedTotals, H \cup N) = SumOf(RealizedTotals, H) + SumOf(RealizedTotals, N)
    BY <1>3, SumOfUnion
  <1>7. Positions!Lifetime = RealizedOf(Positions!PerfRows(FALSE)) + RealizedOf(others)
    BY <1>2, <1>3, <1>4, <1>5, <1>6
  <1> QED BY Zenon, <1>7 DEF Positions!GainsAddUp, RealizedOf, others

\* What positions of several instruments are worth, by instrument.
PartOf(S, i) == {p \in S : p[2] = i}
ValuesOf(S, I) == [i \in I |-> SumOf(Values, PartOf(S, i))]

\* Adding up by instrument and then over instruments counts each position once.
LEMMA ValuesByInstrument ==
    ASSUME PositionsInv, NEW I, I \subseteq Instruments, NEW S, S \subseteq Positions!Quoted,
           \A p \in S : p[2] \in I
    PROVE  /\ SumOf(ValuesOf(S, I), I) = SumOf(Values, S)
           /\ IsFiniteSet(I) /\ \A i \in I : ValuesOf(S, I)[i] \in Int
  <1> DEFINE k == ValuesOf(S, I)
             of == [p \in Places |-> p[2]]
             group == [i \in I |-> PartOf(S, i)]
  <1>1. S \subseteq Positions!Open /\ S \subseteq Places
    BY PositionFacts
  <1>2. IsFiniteSet(S) /\ IsFiniteSet(I)
    BY <1>1, PositionFacts, PlacesAreFinite, FS_Subset
  <1>3. \A p \in S : Values[p] \in Int
    <2> TAKE p \in S
    <2>1. p \in Places /\ quote[p[2]] # {}
      BY <1>1 DEF Positions!Quoted
    <2> QED BY <2>1, ValueFacts
  <1>4. \A p \in S : of[p] \in I /\ p \in group[of[p]]
    BY <1>1 DEF PartOf
  <1>5. \A i \in I : \A p \in group[i] : of[p] = i
    BY <1>1 DEF PartOf
  <1>6. ASSUME NEW i \in I PROVE k[i] \in Int
    <2>1. PartOf(S, i) \subseteq Positions!Quoted
      BY DEF PartOf
    <2>2. SumOf(Values, PartOf(S, i)) \in Int
      BY <2>1, ValuesOfRows
    <2> QED BY <2>2 DEF ValuesOf
  <1>7. \A i \in I : group[i] \subseteq S /\ k[i] = SumOf(Values, group[i])
    BY DEF PartOf, ValuesOf
  <1> HIDE DEF of, group, k
  <1>8. SumOf(k, I) = SumOf(Values, S)
    BY <1>2, <1>3, <1>4, <1>5, <1>7, SumOfNamedGroups
  <1> QED BY <1>2, <1>6, <1>8 DEF k

\* The chart ends where the pies and the headlines are.
LEMMA ChartAgrees ==
    ASSUME PositionsInv
    PROVE  Positions!ChartEndsAtTotal
  <1> SUFFICES ASSUME Positions!Open \subseteq Positions!Quoted
               PROVE  /\ chosen = {} => Positions!LastPoint = Positions!PieTotal
                      /\ Positions!LastPoint =
                            Positions!Total({i \in Positions!Charted : Positions!OpenOf(i) # {}},
                                            LAMBDA i : Positions!Max(Positions!Headline(i).value))
    BY Zenon DEF Positions!ChartEndsAtTotal
  <1> DEFINE S == {p \in Positions!Open : p[2] \in Positions!Charted}
             I == {i \in Positions!Charted : Positions!OpenOf(i) # {}}
             k == ValuesOf(S, I)
  <1>1. S \subseteq Positions!Quoted /\ Positions!Charted \subseteq Instruments
    BY DEF Positions!Charted, PositionsInv
  <1>2. Positions!LastPoint = SumOf(Values, S)
    <2>1. Positions!Total(S, Positions!Worth) = SumOf(Values, S)
      BY <1>1, ValuesOfRows
    <2>2. Positions!LastPoint = Positions!Total(S, Positions!Worth)
      BY Zenon DEF Positions!LastPoint
    <2> QED BY <2>1, <2>2
  <1>3. chosen = {} => Positions!LastPoint = Positions!PieTotal
    <2>1. Positions!PieTotal = SumOf(Values, Positions!Quoted)
      BY ValuesOfRows DEF Positions!PieTotal
    <2>2. chosen = {} => S = Positions!Quoted
      BY PositionFacts, PlacesAreFinite DEF Positions!Charted
    <2> HIDE DEF S
    <2> QED BY <1>2, <2>1, <2>2
  <1>4. /\ I \subseteq Instruments /\ \A p \in S : p[2] \in I
        /\ \A i \in I : PartOf(S, i) = Positions!OpenOf(i)
    <2>1. I \subseteq Instruments
      BY <1>1
    <2>2. \A p \in S : p[2] \in I
      BY PositionFacts
    <2>3. ASSUME NEW i \in I PROVE PartOf(S, i) = Positions!OpenOf(i)
      <3>1. Positions!OpenOf(i) = {p \in Positions!Open : p[2] = i}
        BY PositionFacts
      <3> QED BY <3>1 DEF PartOf
    <2> QED BY <2>1, <2>2, <2>3
  <1>5. SumOf(k, I) = SumOf(Values, S) /\ IsFiniteSet(I) /\ \A i \in I : k[i] \in Int
    <2> HIDE DEF S, I
    <2> QED BY <1>1, <1>4, ValuesByInstrument
  <1>6. \A i \in I : Positions!Max(Positions!Headline(i).value) = k[i]
    <2> TAKE i \in I
    <2>1. Positions!OpenOf(i) # {} /\ Positions!OpenOf(i) \subseteq Positions!Quoted
      BY PositionFacts
    <2>2. Positions!Headline(i).value = {SumOf(Values, Positions!OpenOf(i))}
      BY <2>1, HeadlineFacts
    <2>3. k[i] = SumOf(Values, Positions!OpenOf(i)) /\ k[i] \in Int
      BY <1>4, <1>5 DEF ValuesOf
    <2> HIDE DEF k
    <2> QED BY <2>2, <2>3, MaxOfOne
  <1> HIDE DEF S, I, k
  <1>7. Positions!Total(I, LAMBDA i : Positions!Max(Positions!Headline(i).value)) = SumOf(k, I)
    BY <1>5, <1>6, TotalOfHeadlines
  <1>8. Positions!LastPoint =
            Positions!Total(I, LAMBDA i : Positions!Max(Positions!Headline(i).value))
    BY <1>2, <1>5, <1>7
  <1> QED BY Zenon, <1>3, <1>8 DEF I

\* A total of rows, when each of them has a value.
LEMMA TotalIfAll ==
    ASSUME NEW R, IsFiniteSet(R), NEW f,
           \A r \in R : Positions!Market(r) # {} => Positions!Market(r) = {f[r]} /\ f[r] \in Int
    PROVE  Positions!SumIfAll(R, Positions!Market) =
               IF \E r \in R : Positions!Market(r) = {} THEN {} ELSE {SumOf(f, R)}
  <1> DEFINE total == Positions!Total(R, LAMBDA r : Positions!Max(Positions!Market(r)))
  <1>1. Positions!SumIfAll(R, Positions!Market) =
            IF \E r \in R : Positions!Market(r) = {} THEN {} ELSE {total}
    BY Zenon DEF Positions!SumIfAll
  <1>2. CASE \E r \in R : Positions!Market(r) = {}
    BY Zenon, <1>1, <1>2
  <1>3. CASE \A r \in R : Positions!Market(r) # {}
    <2>1. \A r \in R : f[r] \in Int /\ Positions!Max(Positions!Market(r)) = f[r]
      BY <1>3, MaxOfOne
    <2>2. total = SumOf(f, R)
      BY <2>1, TotalOfMarket
    <2> HIDE DEF total
    <2> QED BY <1>1, <1>3, <2>2
  <1> QED BY <1>2, <1>3

\* The totals of the drill of a dimension, as its rows are.
LEMMA TotalsValue ==
    ASSUME NEW R
    PROVE  Positions!Totals(R).value = Positions!SumIfAll(R, Positions!Market)
  <1> DEFINE value == Positions!SumIfAll(R, Positions!Market)
             cost == Positions!SumIfAll(R, LAMBDA r : r.cost)
             realized == Positions!Total(R, LAMBDA r : r.realized)
  <1>1. Positions!Totals(R) = [value |-> value, cost |-> cost, realized |-> realized]
    BY Zenon DEF Positions!Totals
  <1> HIDE DEF value, cost, realized
  <1>2. Positions!Totals(R).value = value
    BY <1>1
  <1> QED BY <1>2 DEF value

\* The row of an open position carries the labels the pies give it.
LEMMA SliceOfOpenRow ==
    ASSUME NEW p, NEW dimension \in Positions!Dimensions, NEW label
    PROVE  Positions!InSlice(Positions!OpenRow(p), dimension, label) <=>
               Positions!SliceOf(dimension, p) = label
  <1> DEFINE r == Positions!OpenRow(p)
  <1>1. /\ r.account = p[1] /\ r.instrument = p[2]
        /\ r.risk = Positions!RiskLabel(p[2]) /\ r.banked = (p[1] \in Banked)
    BY DEF Positions!OpenRow
  <1>2. Positions!InSlice(r, "type", label) <=> Positions!SliceOf("type", p) = label
    BY <1>1 DEF Positions!InSlice, Positions!SliceOf
  <1>3. Positions!InSlice(r, "risk", label) <=> Positions!SliceOf("risk", p) = label
    BY <1>1 DEF Positions!InSlice, Positions!SliceOf
  <1>4. Positions!InSlice(r, "account", label) <=> Positions!SliceOf("account", p) = label
    BY <1>1 DEF Positions!InSlice, Positions!SliceOf
  <1>5. Positions!InSlice(r, "banked", label) <=> Positions!SliceOf("banked", p) = label
    BY <1>1 DEF Positions!InSlice, Positions!SliceOf
  <1> HIDE DEF r
  <1>6. Positions!InSlice(r, dimension, label) <=> Positions!SliceOf(dimension, p) = label
    BY <1>2, <1>3, <1>4, <1>5 DEF Positions!Dimensions
  <1> QED BY <1>6 DEF r

\* The rows of a slice: its open positions and, where they are listed, the
\* closed ones whose rows carry its label.
OpenOfSlice(dimension, label) ==
    {p \in Positions!Open : Positions!SliceOf(dimension, p) = label}
ClosedOfSlice(dimension, label, listed) ==
    {p \in Positions!Closed :
        listed /\ Positions!InSlice(Positions!ClosedRow(p), dimension, label)}
RowsOfSlice(dimension, label, listed) ==
    {r \in Positions!PerfRows(listed) : Positions!InSlice(r, dimension, label)}

\* A slice lists exactly those rows.
LEMMA SliceRows ==
    ASSUME NEW dimension \in Positions!Dimensions, NEW label, NEW listed \in BOOLEAN
    PROVE  /\ OpenOfSlice(dimension, label) \subseteq Positions!Open
           /\ ClosedOfSlice(dimension, label, listed) \subseteq Positions!Closed
           /\ ~listed => ClosedOfSlice(dimension, label, listed) = {}
           /\ RowsOfSlice(dimension, label, listed) =
                OpenRows(OpenOfSlice(dimension, label))
                \cup ClosedRows(ClosedOfSlice(dimension, label, listed))
  <1> DEFINE S == OpenOfSlice(dimension, label)
             C == ClosedOfSlice(dimension, label, listed)
             L == RowsOfSlice(dimension, label, listed)
  <1>1. ASSUME NEW p \in Positions!Open
        PROVE  Positions!InSlice(Positions!OpenRow(p), dimension, label) <=>
                   Positions!SliceOf(dimension, p) = label
    BY SliceOfOpenRow
  <1>2. \A r : r \in Positions!PerfRows(listed) <=>
                   r \in OpenRows(Positions!Open) \/ (listed /\ r \in ClosedRows(Positions!Closed))
    BY TableRows
  <1>3. ASSUME NEW r \in L PROVE r \in OpenRows(S) \cup ClosedRows(C)
    BY <1>1, <1>2 DEF OpenRows, ClosedRows, OpenOfSlice, ClosedOfSlice, RowsOfSlice
  <1>4. ASSUME NEW r \in OpenRows(S) \cup ClosedRows(C) PROVE r \in L
    BY <1>1, <1>2 DEF OpenRows, ClosedRows, OpenOfSlice, ClosedOfSlice, RowsOfSlice
  <1>5. S \subseteq Positions!Open /\ C \subseteq Positions!Closed /\ (~listed => C = {})
    BY DEF OpenOfSlice, ClosedOfSlice
  <1> HIDE DEF S, C, L
  <1>6. L = OpenRows(S) \cup ClosedRows(C)
    BY <1>3, <1>4
  <1> QED BY <1>5, <1>6 DEF S, C, L

\* The value of rows per account: of the quoted positions among the open ones.
LEMMA ValueOfAccountRows ==
    ASSUME PositionsInv, NEW S, S \subseteq Positions!Open, NEW C, C \subseteq Positions!Closed
    PROVE  LET R == OpenRows(S) \cup ClosedRows(C)
               value == Positions!SumIfAll(R, Positions!Market)
           IN  /\ value \subseteq {SumOf(Values, S \cap Positions!Quoted)}
               /\ C = {} /\ S \subseteq Positions!Quoted => value # {}
  <1> DEFINE R == OpenRows(S) \cup ClosedRows(C)
             f == [r \in R |-> IF r.open THEN Positions!Max(Positions!Market(r)) ELSE 0]
             absent == \E r \in R : Positions!Market(r) = {}
  <1>1. ASSUME NEW p \in S
        PROVE  LET r == Positions!OpenRow(p)
               IN  /\ r \in R
                   /\ Positions!Market(r) = {} <=> p \notin Positions!Quoted
                   /\ p \in Positions!Quoted =>
                        /\ Positions!Market(r) = {Values[p]} /\ Values[p] \in Int /\ f[r] = Values[p]
    <2> DEFINE r == Positions!OpenRow(p)
    <2>1. p \in Places /\ p \in Positions!Open /\ r \in R
      BY PositionFacts DEF OpenRows
    <2>2. r.open = TRUE /\ Positions!Market(r) = Positions!Value(p)
      BY <2>1, OpenRowFacts
    <2>3. p \in Positions!Quoted <=> quote[p[2]] # {}
      BY <2>1 DEF Positions!Quoted
    <2>4. CASE quote[p[2]] = {}
      BY <2>1, <2>2, <2>3, <2>4, ValueFacts
    <2>5. CASE quote[p[2]] # {}
      <3>1. /\ Positions!Value(p) = {Values[p]} /\ Positions!Max(Positions!Value(p)) = Values[p]
            /\ Values[p] \in Nat
        BY <2>1, <2>5, ValueFacts
      <3>2. f[r] = Positions!Max(Positions!Market(r))
        BY <2>1, <2>2
      <3> HIDE DEF r, f, R
      <3> QED BY <2>1, <2>2, <2>3, <2>5, <3>1, <3>2 DEF r
    <2> QED BY <2>4, <2>5
  <1>2. ASSUME NEW p \in C
        PROVE  LET r == Positions!ClosedRow(p)
               IN  /\ Positions!Market(r) = {} \/ Positions!Market(r) = {0}
                   /\ f[r] = 0
    BY ClosedRowFacts DEF ClosedRows
  <1>3. IsFiniteSet(R)
    <2>1. IsFiniteSet(S) /\ IsFiniteSet(C)
      BY PositionFacts
    <2> DEFINE e == [p \in S |-> Positions!OpenRow(p)]
               c == [p \in C |-> Positions!ClosedRow(p)]
    <2>2. e \in Surjection(S, OpenRows(S)) /\ c \in Surjection(C, ClosedRows(C))
      BY DEF Surjection, OpenRows, ClosedRows
    <2> QED BY <2>1, <2>2, FS_Surjection, FS_Union
  <1>4. \A r \in R : Positions!Market(r) # {} => Positions!Market(r) = {f[r]} /\ f[r] \in Int
    <2> TAKE r \in R
    <2>1. (\E p \in S : r = Positions!OpenRow(p)) \/ (\E p \in C : r = Positions!ClosedRow(p))
      BY DEF OpenRows, ClosedRows
    <2> HIDE DEF f, R
    <2> QED BY <1>1, <1>2, <2>1
  <1>5. absent \/ S \subseteq Positions!Quoted
    <2> HIDE DEF f, R
    <2> QED BY <1>1
  <1>6. C = {} /\ S \subseteq Positions!Quoted => ~absent
    BY <1>1 DEF OpenRows, ClosedRows
  <1>7. S \subseteq Positions!Quoted =>
            SumOf(f, R) = SumOf(Values, S) /\ S \cap Positions!Quoted = S
    <2> SUFFICES ASSUME S \subseteq Positions!Quoted
                 PROVE  SumOf(f, R) = SumOf(Values, S)
      OBVIOUS
    <2>1. OpenRows(S) \subseteq R /\ \A r \in R \ OpenRows(S) : f[r] = 0
      BY <1>2 DEF ClosedRows
    <2>2. \A p \in S : Values[p] \in Int /\ f[Positions!OpenRow(p)] = Values[p]
      BY <1>1
    <2>3. \A r \in R : f[r] \in Int
      <3> TAKE r \in R
      <3>1. (\E p \in S : r = Positions!OpenRow(p)) \/ (\E p \in C : r = Positions!ClosedRow(p))
        BY DEF OpenRows, ClosedRows
      <3> HIDE DEF f, R
      <3> QED BY <1>2, <2>2, <3>1
    <2> HIDE DEF f, R
    <2>4. SumOf(f, OpenRows(S)) = SumOf(Values, S)
      BY <2>2, SumOverOpenRows
    <2>5. SumOf(f, R) = SumOf(f, OpenRows(S))
      BY <1>3, <2>1, <2>3, SumOfSupport
    <2> QED BY <2>4, <2>5
  <1> HIDE DEF f, R
  <1>8. Positions!SumIfAll(R, Positions!Market) = IF absent THEN {} ELSE {SumOf(f, R)}
    BY <1>3, <1>4, TotalIfAll
  <1> DEFINE value == Positions!SumIfAll(R, Positions!Market)
             all == SumOf(Values, S \cap Positions!Quoted)
  <1>9. S \subseteq Positions!Quoted => SumOf(f, R) = all
    BY <1>7
  <1>10. value = IF absent THEN {} ELSE {SumOf(f, R)}
    BY <1>8
  <1> HIDE DEF value, all, absent
  <1>11. value \subseteq {all} /\ (C = {} /\ S \subseteq Positions!Quoted => value # {})
    BY <1>5, <1>6, <1>9, <1>10
  <1> QED BY <1>11 DEF value, all, R

\* The value of an instrument's rows put into one.
LEMMA AggregatedValue ==
    ASSUME PositionsInv, NEW i \in Instruments,
           NEW S, S \subseteq Positions!Open, NEW C, C \subseteq Positions!Closed,
           S # {} \/ C # {}, \A p \in S \cup C : p[2] = i
    PROVE  LET row == Positions!Aggregated(OpenRows(S) \cup ClosedRows(C))
           IN  /\ row.instrument = i
               /\ \/ Positions!Market(row) = {}
                  \/ S \subseteq Positions!Quoted /\ Positions!Market(row) = {SumOf(Values, S)}
               /\ C = {} /\ S \subseteq Positions!Quoted => Positions!Market(row) # {}
  <1> DEFINE row == Positions!Aggregated(OpenRows(S) \cup ClosedRows(C))
  <1>1. /\ row.instrument = i /\ row.quantity = SumOf(Units, S)
        /\ (S # {} => row.price = quote[i]) /\ row.price \in Quotes
    BY AggregatedFacts
  <1> HIDE DEF row
  <1>2. CASE S # {}
    <2>1. Positions!Market(row) = IF S \subseteq Positions!Quoted THEN {SumOf(Values, S)} ELSE {}
      BY <1>1, <1>2, MarketOfHoldings
    <2> QED BY <1>1, <2>1 DEF row
  <1>3. CASE S = {}
    <2>1. row.quantity = 0 /\ SumOf(Values, S) = 0
      BY <1>1, <1>3, SumOfEmpty
    <2>2. Positions!Market(row) = {0 * price : price \in row.price}
      BY <2>1 DEF Positions!Market
    <2>3. \A x \in Nat : 0 * x = 0
      OBVIOUS
    <2>4. \A x \in row.price : 0 * x = 0
      BY <1>1, <2>3, ValuationAssumption DEF Quotes
    <2>5. Positions!Market(row) = {} \/ Positions!Market(row) = {0}
      BY <2>2, <2>4
    <2>6. C # {}
      BY <1>3
    <2> QED BY <1>1, <1>3, <2>1, <2>5, <2>6 DEF row
  <1> QED BY <1>2, <1>3

\* The row that the positions of one instrument give.
RowOf(S, C, i) == Positions!Aggregated(OpenRows(PartOf(S, i)) \cup ClosedRows(PartOf(C, i)))

\* Rows of a drill per instrument: one for each that has a row.
LEMMA RowsByInstrument ==
    ASSUME PositionsInv, NEW S, S \subseteq Positions!Open, NEW C, C \subseteq Positions!Closed
    PROVE  Positions!ByInstrument(OpenRows(S) \cup ClosedRows(C)) =
               {RowOf(S, C, i) : i \in {p[2] : p \in S \cup C}}
  <1> DEFINE R == OpenRows(S) \cup ClosedRows(C)
             J == {p[2] : p \in S \cup C}
             K == {r.instrument : r \in R}
             Of(i) == {r \in R : r.instrument = i}
             G(i) == OpenRows(PartOf(S, i)) \cup ClosedRows(PartOf(C, i))
  <1>1. /\ \A p \in S : Positions!OpenRow(p).instrument = p[2]
        /\ \A p \in C : Positions!ClosedRow(p).instrument = p[2]
    BY OpenRowFacts, ClosedRowFacts
  <1>2. K = J
    BY <1>1 DEF OpenRows, ClosedRows
  <1>3. ASSUME NEW i PROVE Of(i) = G(i)
    <2>1. ASSUME NEW r \in Of(i) PROVE r \in G(i)
      BY <1>1 DEF OpenRows, ClosedRows, PartOf
    <2>2. ASSUME NEW r \in G(i) PROVE r \in Of(i)
      BY <1>1 DEF OpenRows, ClosedRows, PartOf
    <2> HIDE DEF Of, G
    <2> QED BY <2>1, <2>2
  <1>4. Positions!ByInstrument(R) = {Positions!Aggregated(Of(i)) : i \in K}
    BY Zenon DEF Positions!ByInstrument
  <1>5. \A i : RowOf(S, C, i) = Positions!Aggregated(Of(i))
    BY <1>3 DEF RowOf
  <1> HIDE DEF R, J, K, Of, G
  <1>6. Positions!ByInstrument(R) = {RowOf(S, C, i) : i \in J}
    BY <1>2, <1>4, <1>5
  <1> QED BY <1>6 DEF R, J

\* The value of rows per instrument: of the quoted positions among the open ones.
LEMMA ValueOfInstrumentRows ==
    ASSUME PositionsInv, NEW S, S \subseteq Positions!Open, NEW C, C \subseteq Positions!Closed
    PROVE  LET R == Positions!ByInstrument(OpenRows(S) \cup ClosedRows(C))
               value == Positions!SumIfAll(R, Positions!Market)
           IN  /\ value \subseteq {SumOf(Values, S \cap Positions!Quoted)}
               /\ C = {} /\ S \subseteq Positions!Quoted => value # {}
  <1> DEFINE R == Positions!ByInstrument(OpenRows(S) \cup ClosedRows(C))
             J == {p[2] : p \in S \cup C}
             f == [r \in R |-> SumOf(Values, PartOf(S, r.instrument))]
             row == [i \in J |-> RowOf(S, C, i)]
             k == ValuesOf(S, J)
             absent == \E r \in R : Positions!Market(r) = {}
  <1>1. J \subseteq Instruments /\ IsFiniteSet(J)
    <2>1. S \subseteq Places /\ C \subseteq Places
      BY PositionFacts
    <2>2. J \subseteq Instruments
      BY <2>1, PlacesAreFinite
    <2> QED BY <2>2, PlacesAreFinite, FS_Subset
  <1>2. R = {row[i] : i \in J}
    <2>1. R = {RowOf(S, C, i) : i \in J}
      BY RowsByInstrument
    <2>2. \A i \in J : row[i] = RowOf(S, C, i)
      OBVIOUS
    <2> HIDE DEF R, J, row
    <2> QED BY <2>1, <2>2
  <1>3. ASSUME NEW i \in J
        PROVE  /\ row[i] \in R /\ row[i].instrument = i
               /\ \/ Positions!Market(row[i]) = {}
                  \/ /\ PartOf(S, i) \subseteq Positions!Quoted
                     /\ Positions!Market(row[i]) = {k[i]} /\ k[i] \in Int
               /\ C = {} /\ S \subseteq Positions!Quoted => Positions!Market(row[i]) # {}
               /\ f[row[i]] = k[i]
    <2> DEFINE A == PartOf(S, i)
               B == PartOf(C, i)
    <2>1. /\ A \subseteq Positions!Open /\ B \subseteq Positions!Closed
          /\ A # {} \/ B # {}
          /\ i \in Instruments
      BY <1>1 DEF PartOf
    <2>2. row[i] = Positions!Aggregated(OpenRows(A) \cup ClosedRows(B)) /\ row[i] \in R
      BY <1>2 DEF RowOf
    <2>3. k[i] = SumOf(Values, A) /\ (A \subseteq S) /\ (C = {} => B = {})
      BY DEF PartOf, ValuesOf
    <2>4. A \subseteq Positions!Quoted => SumOf(Values, A) \in Int
      BY ValuesOfRows
    <2>5. \A p \in A \cup B : p[2] = i
      BY DEF PartOf
    <2> HIDE DEF A, B, R, row, k, f
    <2>6. LET r == Positions!Aggregated(OpenRows(A) \cup ClosedRows(B))
          IN  /\ r.instrument = i
              /\ \/ Positions!Market(r) = {}
                 \/ A \subseteq Positions!Quoted /\ Positions!Market(r) = {SumOf(Values, A)}
              /\ B = {} /\ A \subseteq Positions!Quoted => Positions!Market(r) # {}
      BY <2>1, <2>5, AggregatedValue
    <2>7. row[i].instrument = i
      BY <2>2, <2>6
    <2>8. f[row[i]] = k[i]
      BY <2>2, <2>3, <2>7 DEF f, A
    <2> QED BY <2>2, <2>3, <2>4, <2>6, <2>7, <2>8 DEF A
  <1>4. row \in [J -> R] /\ (\A i, j \in J : row[i] = row[j] => i = j)
        /\ \A r \in R : \E i \in J : row[i] = r
    <2>1. \A i \in J : row[i].instrument = i /\ row[i] \in R
      BY <1>3
    <2>2. \A i, j \in J : row[i] = row[j] => i = j
      <3> HIDE DEF row, J
      <3> QED BY <2>1
    <2> QED BY <1>2, <2>1, <2>2
  <1>5. IsFiniteSet(R)
    <2>1. row \in Surjection(J, R)
      BY <1>4 DEF Surjection
    <2> QED BY <1>1, <2>1, FS_Surjection
  <1>6. \A r \in R : Positions!Market(r) # {} => Positions!Market(r) = {f[r]} /\ f[r] \in Int
    <2> HIDE DEF R, J, f, row, k
    <2> QED BY <1>3, <1>4
  <1>7. absent \/ S \subseteq Positions!Quoted
    <2> SUFFICES ASSUME ~absent, NEW p \in S PROVE p \in Positions!Quoted
      OBVIOUS
    <2>1. p[2] \in J /\ p \in PartOf(S, p[2])
      BY DEF PartOf
    <2> HIDE DEF R, J, f, row, k
    <2> QED BY <1>3, <2>1
  <1>8. C = {} /\ S \subseteq Positions!Quoted => ~absent
    <2> HIDE DEF R, J, f, row, k
    <2> QED BY <1>3, <1>4
  <1>9. S \subseteq Positions!Quoted => SumOf(f, R) = SumOf(Values, S)
    <2> SUFFICES ASSUME S \subseteq Positions!Quoted PROVE SumOf(f, R) = SumOf(Values, S)
      OBVIOUS
    <2>1. \A p \in S : p[2] \in J
      OBVIOUS
    <2>2. \A i \in J : f[row[i]] = k[i]
      BY <1>3
    <2> HIDE DEF R, J, f, row
    <2>3. SumOf(k, J) = SumOf(Values, S) /\ \A i \in J : k[i] \in Int
      BY <1>1, <2>1, ValuesByInstrument
    <2> HIDE DEF k
    <2>4. SumOf(f, R) = SumOf(k, J)
      BY <1>1, <1>4, <2>2, <2>3, SumOfRenamed
    <2> QED BY <2>3, <2>4
  <1> HIDE DEF R, J, f, row, k
  <1>10. Positions!SumIfAll(R, Positions!Market) = IF absent THEN {} ELSE {SumOf(f, R)}
    BY <1>5, <1>6, TotalIfAll
  <1> DEFINE value == Positions!SumIfAll(R, Positions!Market)
             all == SumOf(Values, S \cap Positions!Quoted)
  <1>11. S \subseteq Positions!Quoted => SumOf(f, R) = all
    <2>1. S \subseteq Positions!Quoted => S \cap Positions!Quoted = S
      OBVIOUS
    <2> QED BY <1>9, <2>1
  <1>12. value = IF absent THEN {} ELSE {SumOf(f, R)}
    BY <1>10
  <1> HIDE DEF value, all, absent
  <1>13. value \subseteq {all} /\ (C = {} /\ S \subseteq Positions!Quoted => value # {})
    BY <1>7, <1>8, <1>11, <1>12
  <1> QED BY <1>13 DEF value, all, R

\* The drill behind a slice totals what the slice shows.
LEMMA DrillAgrees ==
    ASSUME PositionsInv
    PROVE  Positions!DrillMatchesSlice
  <1> SUFFICES ASSUME NEW slice \in drill
               PROVE  LET rows == Positions!DrillRows(slice[1], slice[2], ~excludeClosed)
                          value == Positions!Totals(rows).value
                      IN  /\ value \subseteq {Positions!Slice(slice[1], slice[2])}
                          /\ excludeClosed /\ Positions!Open \subseteq Positions!Quoted => value # {}
    BY Zenon DEF Positions!DrillMatchesSlice
  <1>1. PICK dimension \in Positions!Dimensions : \E label : slice = <<dimension, label>>
    BY DEF PositionsInv
  <1>2. PICK label : slice = <<dimension, label>>
    BY <1>1
  <1> DEFINE listed == ~excludeClosed
             S == OpenOfSlice(dimension, label)
             C == ClosedOfSlice(dimension, label, listed)
             R == RowsOfSlice(dimension, label, listed)
             rows == Positions!DrillRows(dimension, label, listed)
             value == Positions!SumIfAll(rows, Positions!Market)
             all == SumOf(Values, S \cap Positions!Quoted)
  <1>3. slice[1] = dimension /\ slice[2] = label
    BY <1>2
  <1>4. listed \in BOOLEAN /\ excludeClosed \in BOOLEAN
    BY DEF PositionsInv
  <1>5. /\ S \subseteq Positions!Open /\ C \subseteq Positions!Closed /\ (~listed => C = {})
        /\ R = OpenRows(S) \cup ClosedRows(C)
    <2> HIDE DEF listed
    <2> QED BY <1>4, SliceRows
  <1>6. Positions!Slice(dimension, label) = all
    <2> DEFINE Q == {p \in Positions!Quoted : Positions!SliceOf(dimension, p) = label}
    <2>1. Q = S \cap Positions!Quoted /\ Q \subseteq Positions!Quoted
      BY PositionFacts DEF OpenOfSlice
    <2>2. Positions!Slice(dimension, label) =
              Positions!Total(Q, LAMBDA p : Positions!Max(Positions!Value(p)))
      BY Zenon DEF Positions!Slice
    <2> HIDE DEF Q
    <2>3. Positions!Total(Q, LAMBDA p : Positions!Max(Positions!Value(p))) = SumOf(Values, Q)
      BY <2>1, ValuesOfRows
    <2>4. Positions!Slice(dimension, label) = SumOf(Values, Q)
      BY <2>2, <2>3
    <2> QED BY <2>1, <2>4
  <1>7. rows = IF dimension = "account" THEN R ELSE Positions!ByInstrument(R)
    BY Zenon DEF Positions!DrillRows, RowsOfSlice
  <1> HIDE DEF S, C, R, rows
  <1>8. excludeClosed /\ Positions!Open \subseteq Positions!Quoted =>
            C = {} /\ S \subseteq Positions!Quoted
    BY <1>5
  <1> HIDE DEF listed
  <1>9. value \subseteq {all} /\ (C = {} /\ S \subseteq Positions!Quoted => value # {})
    <2>1. CASE dimension = "account"
      <3> DEFINE P == OpenRows(S) \cup ClosedRows(C)
      <3>1. LET total == Positions!SumIfAll(P, Positions!Market)
            IN  /\ total \subseteq {all}
                /\ C = {} /\ S \subseteq Positions!Quoted => total # {}
        BY <1>5, ValueOfAccountRows
      <3>2. rows = P
        BY <1>5, <1>7, <2>1
      <3> HIDE DEF P, all
      <3> QED BY <3>1, <3>2
    <2>2. CASE dimension # "account"
      <3> DEFINE P == Positions!ByInstrument(OpenRows(S) \cup ClosedRows(C))
      <3>1. LET total == Positions!SumIfAll(P, Positions!Market)
            IN  /\ total \subseteq {all}
                /\ C = {} /\ S \subseteq Positions!Quoted => total # {}
        BY <1>5, ValueOfInstrumentRows
      <3>2. rows = P
        BY <1>5, <1>7, <2>2
      <3> HIDE DEF P, all
      <3> QED BY <3>1, <3>2
    <2> QED BY <2>1, <2>2
  <1>10. Positions!Totals(rows).value = value
    BY TotalsValue
  <1> HIDE DEF value, all
  <1>11. /\ Positions!Totals(rows).value \subseteq {Positions!Slice(dimension, label)}
         /\ excludeClosed /\ Positions!Open \subseteq Positions!Quoted => Positions!Totals(rows).value # {}
    BY <1>6, <1>8, <1>9, <1>10
  <1> QED BY <1>3, <1>11 DEF rows, listed

\* Whatever the ledger and whichever page shows them, the figures agree: a pie
\* with its drill, a row with its headline, the realized totals with each other,
\* the chart with the pies.
THEOREM FiguresOfOneLedger == Spec => []FiguresAgree
  <1>1. IInv => FiguresAgree
    BY HoldingsAgree, GainsAgree, ChartAgrees, DrillAgrees
       DEF IInv, FiguresAgree, Positions!FiguresAgree
  <1> QED BY Invariance, <1>1, PTL
=============================================================================
