--------------------------- MODULE Accrual_proofs ---------------------------
(***************************************************************************)
(* What the accrual of yields guarantees for calendars, windows, tabs and  *)
(* tables of any size, whatever stops, time-outs, failures, cleared        *)
(* markers and edits of the timeline come between its steps.               *)
(***************************************************************************)
EXTENDS Accrual, TLAPS

TabStates ==
    {Editing}
    \cup [pc : {"sent"}, position : Positions, from : Days]
    \cup [pc : {"read"}, position : Positions, from : Days, prior : SUBSET Days]

\* A run is at a day that has come, and at one without a record while it
\* holds or has just held the day's transaction.
RunOK ==
    /\ run.pc \in {"check", "accrue", "mark"} => run.day <= today
    /\ run.pc \in {"accrue", "mark"} => jobRuns[run.day] = "none"

\* A run goes forward: what it wrote tonight is of days it has left.
RunGoesForward ==
    \A y \in yields :
        /\ y.night <= today
        /\ run.pc = "due" => y.night < today
        /\ run.pc \in {"check", "accrue", "mark"} /\ y.night = today => y.date < run.day

IInv ==
    /\ TypeOK
    /\ tab \in [Tabs -> TabStates]
    /\ RunOK
    /\ RunGoesForward
    /\ YieldsOfOkDaysOnly
    /\ OneYieldPerRate
    /\ YieldsCompound
    /\ YieldsKeepTheirRate

-----------------------------------------------------------------------------

LEMMA DaysAreNumbers ==
    /\ LastDay \in Nat /\ LastDay > 0
    /\ Days = {d \in Int : 1 <= d /\ d <= LastDay}
    /\ Open \in Nat /\ Open = LastDay + 1
    /\ MaxFaults \in Nat /\ Window \in Nat
    /\ Starts \subseteq Days
    /\ Ends \subseteq 1..Open
  BY AccrualAssumption DEF Days, Open

LEMMA InitOK == Init => IInv
  <1> SUFFICES ASSUME Init PROVE IInv
    OBVIOUS
  <1>1. /\ tab \in [Tabs -> TabStates]
        /\ \A c \in Tabs : tab[c].pc \in {"editing", "sent", "read"}
    BY DEF Init, TabStates, Editing
  <1>2. TypeOK
    BY <1>1, DaysAreNumbers DEF Init, TypeOK
  <1>3. yields = {} /\ run.pc = "due"
    BY DEF Init
  <1> QED
    BY <1>1, <1>2, <1>3 DEF IInv, RunOK, RunGoesForward, YieldsOfOkDaysOnly, OneYieldPerRate,
        YieldsCompound, YieldsKeepTheirRate

-----------------------------------------------------------------------------
(* What the steps of a run do to the tables.                               *)

\* The first day of a run, and the one after a day it has reached, have come.
LEMMA RunDays ==
    ASSUME TypeOK
    PROVE  /\ FirstDay \in Days /\ FirstDay <= today
           /\ \A d \in Days :
                 d <= today =>
                     /\ AfterDay(d) \in [pc : {"idle", "check"}, day : Days]
                     /\ AfterDay(d).pc = "check" => AfterDay(d).day = d + 1 /\ d < today
  BY DaysAreNumbers DEF TypeOK, FirstDay, AfterDay, Resting

\* A yield of the day names a rate of the table and the earlier live yields.
LEMMA YieldOK ==
    ASSUME TypeOK, NEW d \in Days, NEW r \in DueRates(d)
    PROVE  /\ YieldOf(r, d) \in Yields
           /\ YieldOf(r, d).live
           /\ YieldOf(r, d).date = d
           /\ YieldOf(r, d).night = today
           /\ YieldOf(r, d).position = r.position
           /\ YieldOf(r, d).rate = r.from
           /\ YieldOf(r, d).on = {y.date : y \in Counted(r.position, d)}
           /\ r \in rates
  <1>1. r \in rates /\ r.position \in Positions /\ r.from \in Days
    BY DEF TypeOK, DueRates
  <1>2. {y.date : y \in Counted(r.position, d)} \in SUBSET Days
    BY DEF TypeOK, Counted, Yields
  <1> QED
    BY <1>1, <1>2 DEF YieldOf, Yields, TypeOK

\* The accrual of a day without a record.
LEMMA AccrueDayOK ==
    ASSUME IInv, AccrueDay
    PROVE  IInv'
  <1> DEFINE d == run.day
  <1> DEFINE new == {YieldOf(r, d) : r \in DueRates(d)}
  <1> USE DaysAreNumbers
  <1>1. /\ TypeOK /\ RunOK /\ RunGoesForward /\ YieldsOfOkDaysOnly
        /\ OneYieldPerRate /\ YieldsCompound /\ YieldsKeepTheirRate
    BY DEF IInv
  <1>2. d \in Days /\ d <= today /\ jobRuns[d] = "none" /\ run.pc = "accrue"
    BY <1>1 DEF AccrueDay, RunOK, TypeOK
  <1>3. /\ yields' = yields \cup new
        /\ jobRuns' = [jobRuns EXCEPT ![d] = "ok"]
        /\ run' = AfterDay(d)
        /\ UNCHANGED <<today, up, faults, rates, deposited, priced, tab>>
    BY DEF AccrueDay
  <1>4. \A y \in new :
            /\ y \in Yields /\ y.date = d /\ y.night = today
            /\ \E r \in rates : r.position = y.position /\ r.from = y.rate
            /\ y.on = {z.date : z \in Counted(y.position, d)}
    BY <1>1, <1>2, YieldOK
  <1>5. \A y \in yields : y \in Yields /\ y.date # d
    BY <1>1, <1>2 DEF TypeOK, YieldsOfOkDaysOnly
  <1>6. /\ run' \in [pc : {"idle", "check"}, day : Days]
        /\ run'.pc = "check" => run'.day = d + 1 /\ d < today
    BY <1>1, <1>2, <1>3, RunDays
  <1>7. TypeOK'
    BY <1>1, <1>2, <1>3, <1>4, <1>6 DEF TypeOK
  <1>8. RunOK'
    BY <1>1, <1>2, <1>3, <1>6 DEF RunOK, TypeOK
  <1>9. RunGoesForward'
    <2> SUFFICES ASSUME NEW y \in yields \cup new
                 PROVE  /\ y.night <= today
                        /\ run'.pc = "check" /\ y.night = today => y.date < d + 1
      BY <1>3, <1>6 DEF RunGoesForward
    <2>1. CASE y \in new
      BY <2>1, <1>1, <1>2, <1>4 DEF TypeOK
    <2>2. CASE y \in yields
      BY <2>2, <1>1, <1>2, <1>5 DEF RunGoesForward, Yields
    <2> QED BY <2>1, <2>2
  <1>10. YieldsOfOkDaysOnly'
    BY <1>1, <1>2, <1>3, <1>4 DEF YieldsOfOkDaysOnly, TypeOK, Yields
  <1>11. OneYieldPerRate'
    <2> SUFFICES ASSUME NEW y \in yields \cup new, NEW z \in yields \cup new,
                        y.position = z.position, y.rate = z.rate, y.date = z.date
                 PROVE  y = z
      BY <1>3 DEF OneYieldPerRate
    <2>1. CASE y \in yields /\ z \in yields
      BY <2>1, <1>1 DEF OneYieldPerRate
    <2>2. CASE y \in new /\ z \in new
      <3>1. PICK r \in DueRates(d) : y = YieldOf(r, d)
        BY <2>2
      <3>2. PICK s \in DueRates(d) : z = YieldOf(s, d)
        BY <2>2
      <3>3. r.position = s.position /\ r.from = s.from
        BY <1>1, <1>2, <3>1, <3>2, YieldOK
      <3> QED BY <3>1, <3>2, <3>3 DEF YieldOf
    <2> QED BY <2>1, <2>2, <1>4, <1>5
  <1>12. YieldsCompound'
    <2> SUFFICES ASSUME NEW y \in yields \cup new, NEW z \in yields \cup new
                 PROVE  /\ \A e \in z.on : e < z.date
                        /\ y.position = z.position /\ y.live /\ y.date < z.date
                           /\ y.night <= z.night => y.date \in z.on
      BY <1>3 DEF YieldsCompound
    <2>1. CASE z \in yields /\ y \in yields
      BY <2>1, <1>1 DEF YieldsCompound
    <2>2. CASE z \in yields /\ y \in new
      <3>1. \A e \in z.on : e < z.date
        BY <2>2, <1>1 DEF YieldsCompound
      <3>2. z.night \in Int /\ z.night <= today /\ (z.night = today => z.date < d)
            /\ z.date \in Int
        BY <2>2, <1>1, <1>2, <1>5 DEF RunGoesForward, Yields
      <3>3. y.night = today /\ y.date = d /\ today \in Int /\ d \in Int
        BY <2>2, <1>1, <1>2, <1>4 DEF TypeOK
      <3> QED BY <3>1, <3>2, <3>3
    <2>3. CASE z \in new
      <3>1. z.date = d /\ z.on = {x.date : x \in Counted(z.position, d)}
        BY <2>3, <1>4
      <3>2. \A x \in Counted(z.position, d) : x.date < d
        BY DEF Counted
      <3>3. y \in yields /\ y.position = z.position /\ y.live /\ y.date < d
            => y \in Counted(z.position, d)
        BY DEF Counted
      <3>4. y \in new => ~(y.date < z.date)
        BY <1>2, <1>4, <3>1
      <3> QED BY <3>1, <3>2, <3>3, <3>4
    <2> QED BY <2>1, <2>2, <2>3
  <1>13. YieldsKeepTheirRate'
    BY <1>1, <1>3, <1>4 DEF YieldsKeepTheirRate
  <1>14. (tab \in [Tabs -> TabStates])'
    BY <1>3 DEF IInv, TabStates
  <1> QED
    BY <1>7, <1>8, <1>9, <1>10, <1>11, <1>12, <1>13, <1>14 DEF IInv

\* A failed day, recorded as such.
LEMMA MarkDayOK ==
    ASSUME IInv, MarkDay
    PROVE  IInv'
  <1> USE DaysAreNumbers
  <1>1. TypeOK /\ RunOK /\ RunGoesForward /\ YieldsOfOkDaysOnly
    BY DEF IInv
  <1>2. /\ run.day \in Days /\ run.day <= today /\ jobRuns[run.day] = "none"
        /\ run.pc = "mark"
        /\ jobRuns' = [jobRuns EXCEPT ![run.day] = "failed"]
        /\ run' = AfterDay(run.day)
        /\ UNCHANGED <<today, up, faults, rates, deposited, priced, yields, tab>>
    BY <1>1 DEF MarkDay, RunOK, TypeOK
  <1>3. /\ run' \in [pc : {"idle", "check"}, day : Days]
        /\ run'.pc = "check" => run'.day = run.day + 1 /\ run.day < today
    BY <1>1, <1>2, RunDays
  <1>4. TypeOK'
    BY <1>1, <1>2, <1>3 DEF TypeOK, Yields
  <1>5. RunOK'
    BY <1>1, <1>2, <1>3 DEF RunOK, TypeOK
  <1>6. RunGoesForward'
    BY <1>1, <1>2, <1>3 DEF RunGoesForward, TypeOK, Yields
  <1>7. YieldsOfOkDaysOnly'
    BY <1>1, <1>2 DEF YieldsOfOkDaysOnly, TypeOK, Yields
  <1>8. (tab \in [Tabs -> TabStates])' /\ OneYieldPerRate' /\ YieldsCompound' /\ YieldsKeepTheirRate'
    BY <1>2 DEF IInv, TabStates, OneYieldPerRate, YieldsCompound, YieldsKeepTheirRate
  <1> QED
    BY <1>4, <1>5, <1>6, <1>7, <1>8 DEF IInv

\* The steps that write no table but move the run.
LEMMA RunMovesOK ==
    ASSUME IInv,
           Midnight \/ Restart \/ StartRun \/ SkipDay \/ ClaimDay \/ FailDay \/ TimeOutAtLock
    PROVE  IInv'
  <1> USE DaysAreNumbers
  <1>1. TypeOK /\ RunOK /\ RunGoesForward
    BY DEF IInv
  <1>2. UNCHANGED <<jobRuns, rates, deposited, priced, yields, tab>>
    BY DEF Midnight, Restart, StartRun, SkipDay, ClaimDay, FailDay, TimeOutAtLock
  <1>3. /\ today' \in Days /\ today <= today'
        /\ up' \in BOOLEAN /\ faults' \in 0..MaxFaults
    <2>1. CASE Midnight
      BY <2>1, <1>1 DEF TypeOK, Midnight
    <2>2. CASE Restart
      BY <2>2, <1>1 DEF TypeOK, Restart
    <2>4. CASE TimeOutAtLock
      BY <2>4, <1>1 DEF TypeOK, TimeOutAtLock
    <2>3. CASE StartRun \/ SkipDay \/ ClaimDay \/ FailDay
      BY <2>3, <1>1 DEF TypeOK, StartRun, SkipDay, ClaimDay, FailDay
    <2> QED BY <2>1, <2>2, <2>3, <2>4
  <1>4. run' \in [pc : {"idle", "due", "check", "accrue", "mark"}, day : Days] /\ RunOK'
        /\ RunGoesForward'
    <2>1. CASE Midnight
      BY <2>1, <1>1 DEF Midnight, TypeOK, RunOK, RunGoesForward, Yields
    <2>2. CASE Restart
      BY <2>2, <1>1 DEF Restart, TypeOK, RunOK, RunGoesForward
    <2>3. CASE StartRun
      BY <2>3, <1>1, RunDays DEF StartRun, TypeOK, RunOK, RunGoesForward, Yields
    <2>4. CASE SkipDay
      <3>1. run.day <= today /\ run' = AfterDay(run.day) /\ run.pc = "check" /\ run.day \in Days
        BY <2>4, <1>1 DEF SkipDay, RunOK, TypeOK
      <3>2. /\ run' \in [pc : {"idle", "check"}, day : Days]
            /\ run'.pc = "check" => run'.day = run.day + 1 /\ run.day < today
        BY <3>1, <1>1, RunDays
      <3> QED
        BY <2>4, <1>1, <1>2, <3>1, <3>2 DEF SkipDay, TypeOK, RunOK, RunGoesForward, Yields
    <2>5. CASE ClaimDay
      BY <2>5, <1>1 DEF ClaimDay, Settled, TypeOK, RunOK, RunGoesForward
    <2>6. CASE FailDay
      BY <2>6, <1>1 DEF FailDay, TypeOK, RunOK, RunGoesForward
    <2>7. CASE TimeOutAtLock
      BY <2>7, <1>1 DEF TimeOutAtLock, Resting, TypeOK, RunOK, RunGoesForward
    <2> QED BY <2>1, <2>2, <2>3, <2>4, <2>5, <2>6, <2>7
  <1>5. TypeOK'
    BY <1>1, <1>2, <1>3, <1>4 DEF TypeOK, Yields
  <1>6. /\ (tab \in [Tabs -> TabStates])' /\ YieldsOfOkDaysOnly' /\ OneYieldPerRate'
        /\ YieldsCompound' /\ YieldsKeepTheirRate'
    BY <1>2 DEF IInv, TabStates, YieldsOfOkDaysOnly, OneYieldPerRate, YieldsCompound,
        YieldsKeepTheirRate
  <1> QED
    BY <1>4, <1>5, <1>6 DEF IInv

\* The process stops: the run and the requests of the tabs are over.
LEMMA StopOK ==
    ASSUME IInv, Stop
    PROVE  IInv'
  <1> USE DaysAreNumbers
  <1>1. /\ faults' \in 0..MaxFaults /\ up' = FALSE
        /\ run' = Resting
        /\ tab' = [c \in Tabs |-> Editing]
        /\ UNCHANGED <<today, jobRuns, rates, deposited, priced, yields>>
    BY DEF Stop, IInv, TypeOK
  <1>2. /\ tab' \in [Tabs -> TabStates]
        /\ \A c \in Tabs : tab'[c].pc \in {"editing", "sent", "read"}
    BY <1>1 DEF TabStates, Editing
  <1>3. TypeOK'
    <2>1. run' \in [pc : {"idle", "due", "check", "accrue", "mark"}, day : Days]
      BY <1>1 DEF Resting
    <2> QED BY <1>1, <1>2, <2>1 DEF IInv, TypeOK, Yields
  <1>4. RunOK' /\ RunGoesForward'
    BY <1>1 DEF IInv, RunOK, RunGoesForward, Resting
  <1>5. YieldsOfOkDaysOnly' /\ OneYieldPerRate' /\ YieldsCompound' /\ YieldsKeepTheirRate'
    BY <1>1 DEF IInv, YieldsOfOkDaysOnly, OneYieldPerRate, YieldsCompound, YieldsKeepTheirRate
  <1> QED
    BY <1>2, <1>3, <1>4, <1>5 DEF IInv, TabStates

\* A failed day's record is cleared: the run in progress is not at that day.
LEMMA ClearMarkerOK ==
    ASSUME IInv, ClearMarker
    PROVE  IInv'
  <1> USE DaysAreNumbers
  <1>1. PICK d \in Days : /\ jobRuns[d] = "failed"
                          /\ jobRuns' = [jobRuns EXCEPT ![d] = "none"]
    BY DEF ClearMarker
  <1>2. UNCHANGED <<today, up, faults, run, rates, deposited, priced, yields, tab>>
    BY DEF ClearMarker
  <1>3. TypeOK'
    BY <1>1, <1>2 DEF IInv, TypeOK, Yields
  <1>4. RunOK' /\ RunGoesForward'
    BY <1>1, <1>2 DEF IInv, RunOK, RunGoesForward, TypeOK
  <1>5. YieldsOfOkDaysOnly'
    BY <1>1, <1>2 DEF IInv, YieldsOfOkDaysOnly, TypeOK, Yields
  <1>6. /\ (tab \in [Tabs -> TabStates])' /\ OneYieldPerRate' /\ YieldsCompound'
        /\ YieldsKeepTheirRate'
    BY <1>2 DEF IInv, TabStates, OneYieldPerRate, YieldsCompound, YieldsKeepTheirRate
  <1> QED
    BY <1>3, <1>4, <1>5, <1>6 DEF IInv

-----------------------------------------------------------------------------
(* What others write under a run.                                          *)

\* The steps of the tabs up to their commit, and a first quote.
LEMMA TabMovesOK ==
    ASSUME IInv,
           \/ \E p \in Positions : QuoteArrives(p)
           \/ \E c \in Tabs : SubmitRate(c) \/ ReadPrior(c)
    PROVE  IInv'
  <1> USE DaysAreNumbers
  <1>1. UNCHANGED <<today, up, faults, jobRuns, run, rates, deposited, yields>>
    BY DEF QuoteArrives, SubmitRate, ReadPrior
  <1>2. priced' \in [Positions -> 1..Open]
    BY DEF IInv, TypeOK, QuoteArrives, SubmitRate, ReadPrior
  <1>3. tab' \in [Tabs -> TabStates]
    <2>1. ASSUME NEW p \in Positions, QuoteArrives(p)
          PROVE  tab' \in [Tabs -> TabStates]
      BY <2>1 DEF IInv, QuoteArrives
    <2>2. ASSUME NEW c \in Tabs, SubmitRate(c)
          PROVE  tab' \in [Tabs -> TabStates]
      BY <2>2 DEF IInv, SubmitRate, TabStates
    <2>3. ASSUME NEW c \in Tabs, ReadPrior(c)
          PROVE  tab' \in [Tabs -> TabStates]
      <3> DEFINE t == tab[c]
      <3> DEFINE read == [pc |-> "read", position |-> t.position, from |-> t.from,
                          prior |-> {r.from : r \in OpenRates(t.position)}]
      <3>1. t.position \in Positions /\ t.from \in Days
        BY <2>3 DEF IInv, ReadPrior, TabStates, Editing
      <3>2. {r.from : r \in OpenRates(t.position)} \in SUBSET Days
        BY DEF OpenRates, IInv, TypeOK
      <3>3. read \in TabStates /\ Editing \in TabStates
        BY <3>1, <3>2 DEF TabStates
      <3>4. \E s \in {read, Editing} : tab' = [tab EXCEPT ![c] = s]
        BY <2>3 DEF ReadPrior
      <3> QED BY <3>3, <3>4 DEF IInv
    <2> QED BY <2>1, <2>2, <2>3
  <1>4. \A c \in Tabs : tab'[c].pc \in {"editing", "sent", "read"}
    BY <1>3 DEF TabStates, Editing
  <1>5. TypeOK'
    BY <1>1, <1>2, <1>4 DEF IInv, TypeOK, Yields
  <1>6. /\ RunOK' /\ RunGoesForward' /\ YieldsOfOkDaysOnly' /\ OneYieldPerRate'
        /\ YieldsCompound' /\ YieldsKeepTheirRate'
    BY <1>1 DEF IInv, RunOK, RunGoesForward, YieldsOfOkDaysOnly, OneYieldPerRate,
        YieldsCompound, YieldsKeepTheirRate
  <1> QED
    BY <1>3, <1>5, <1>6 DEF IInv, TabStates

\* A yield is deleted: its tombstone keeps the day, the rate and the night.
LEMMA DeleteYieldOK ==
    ASSUME IInv, DeleteYield
    PROVE  IInv'
  <1> USE DaysAreNumbers
  <1>1. PICK y \in yields : yields' = (yields \ {y}) \cup {[y EXCEPT !.live = FALSE]}
    BY DEF DeleteYield
  <1>2. UNCHANGED <<today, up, faults, jobRuns, run, rates, deposited, priced, tab>>
    BY DEF DeleteYield
  <1> DEFINE tomb == [y EXCEPT !.live = FALSE]
  <1>3. \A x \in yields : x \in Yields
    BY DEF IInv, TypeOK
  <1>4. /\ tomb \in Yields /\ ~tomb.live
        /\ tomb.position = y.position /\ tomb.rate = y.rate /\ tomb.date = y.date
        /\ tomb.night = y.night /\ tomb.on = y.on
    BY <1>3 DEF Yields
  <1> HIDE DEF tomb
  <1>5. yields' = (yields \ {y}) \cup {tomb}
    BY <1>1 DEF tomb
  <1>6. TypeOK'
    BY <1>2, <1>3, <1>4, <1>5 DEF IInv, TypeOK
  <1>7. RunOK' /\ RunGoesForward' /\ YieldsOfOkDaysOnly' /\ YieldsKeepTheirRate'
    BY <1>2, <1>4, <1>5 DEF IInv, RunOK, RunGoesForward, YieldsOfOkDaysOnly, YieldsKeepTheirRate
  <1>8. OneYieldPerRate'
    BY <1>4, <1>5 DEF IInv, OneYieldPerRate
  <1>9. YieldsCompound'
    BY <1>4, <1>5 DEF IInv, YieldsCompound
  <1>10. (tab \in [Tabs -> TabStates])'
    BY <1>2 DEF IInv, TabStates
  <1> QED
    BY <1>6, <1>7, <1>8, <1>9, <1>10 DEF IInv

\* A step that only edits the timeline, and keeps the rates of yields in it.
LEMMA TimelineOK ==
    ASSUME IInv,
           rates' \subseteq [position : Positions, from : Days, to : 0..Open],
           YieldsKeepTheirRate',
           tab' \in [Tabs -> TabStates],
           UNCHANGED <<today, up, faults, jobRuns, run, deposited, priced, yields>>
    PROVE  IInv'
  <1>1. \A c \in Tabs : tab'[c].pc \in {"editing", "sent", "read"}
    BY DEF TabStates, Editing
  <1>2. TypeOK'
    BY <1>1 DEF IInv, TypeOK, Yields, Days
  <1>3. /\ RunOK' /\ RunGoesForward' /\ YieldsOfOkDaysOnly' /\ OneYieldPerRate'
        /\ YieldsCompound'
    BY DEF IInv, RunOK, RunGoesForward, YieldsOfOkDaysOnly, OneYieldPerRate, YieldsCompound
  <1> QED
    BY <1>2, <1>3 DEF IInv, TabStates

LEMMA CommitRateOK ==
    ASSUME IInv, NEW c \in Tabs, CommitRate(c)
    PROVE  IInv'
  <1> USE DaysAreNumbers
  <1> DEFINE t == tab[c]
             own == {r \in rates : r.position = t.position}
             prior == {r \in own : r.from \in t.prior}
             new == [position |-> t.position, from |-> t.from, to |-> Open]
             Rates == [position : Positions, from : Days, to : 0..Open]
  <1>1. t.position \in Positions /\ t.from \in Days
    BY DEF IInv, CommitRate, TabStates, Editing
  <1>2. rates' \in {rates, (rates \ prior) \cup {Closed(r, t.from) : r \in prior} \cup {new}}
    BY DEF CommitRate
  <1>3. rates \subseteq Rates /\ new \in Rates
    BY <1>1 DEF IInv, TypeOK
  <1>4. \A r \in prior : /\ Closed(r, t.from) \in Rates
                         /\ Closed(r, t.from).position = r.position
                         /\ Closed(r, t.from).from = r.from
    BY <1>1, <1>3 DEF Closed
  <1>5. UNCHANGED <<today, up, faults, jobRuns, run, deposited, priced, yields>>
    BY DEF CommitRate
  <1>6. rates' \subseteq Rates
    BY <1>2, <1>3, <1>4
  <1>7. \A r \in rates : \E s \in rates' : s.position = r.position /\ s.from = r.from
    BY <1>2, <1>4
  <1>8. YieldsKeepTheirRate'
    BY <1>5, <1>7 DEF IInv, YieldsKeepTheirRate
  <1>9. tab' \in [Tabs -> TabStates]
    BY DEF IInv, CommitRate, TabStates
  <1> QED
    BY <1>5, <1>6, <1>8, <1>9, TimelineOK

LEMMA EditTimelineOK ==
    ASSUME IInv, PatchRate \/ \E c \in Tabs : DeleteRate(c)
    PROVE  IInv'
  <1> USE DaysAreNumbers
  <1>1. UNCHANGED <<today, up, faults, jobRuns, run, deposited, priced, yields, tab>>
    BY DEF PatchRate, DeleteRate
  <1>2. rates \subseteq [position : Positions, from : Days, to : 0..Open]
    BY DEF IInv, TypeOK
  <1>3. CASE PatchRate
    <2>1. PICK r \in rates, to \in Ends :
              rates' = (rates \ {r}) \cup {[r EXCEPT !.to = to]}
      BY <1>3 DEF PatchRate
    <2> DEFINE moved == [r EXCEPT !.to = to]
    <2>2. /\ moved \in [position : Positions, from : Days, to : 0..Open]
          /\ moved.position = r.position /\ moved.from = r.from
      BY <1>2
    <2> HIDE DEF moved
    <2>3. rates' = (rates \ {r}) \cup {moved}
      BY <2>1 DEF moved
    <2>4. YieldsKeepTheirRate'
      BY <1>1, <2>2, <2>3 DEF IInv, YieldsKeepTheirRate
    <2> QED BY <1>1, <1>2, <2>2, <2>3, <2>4, TimelineOK DEF IInv
  <1>4. ASSUME NEW c \in Tabs, DeleteRate(c) PROVE IInv'
    <2>1. PICK r \in rates : Unreferenced(r) /\ rates' = rates \ {r}
      BY <1>4 DEF DeleteRate
    <2>2. YieldsKeepTheirRate'
      BY <1>1, <2>1 DEF IInv, YieldsKeepTheirRate, Unreferenced
    <2> QED BY <1>1, <1>2, <2>1, <2>2, TimelineOK DEF IInv
  <1> QED BY <1>3, <1>4

-----------------------------------------------------------------------------

\* The inductive invariant of the accrual, with any number of positions, tabs
\* and rates, and faults at any step.
THEOREM Invariance == Spec => []IInv
  <1>1. IInv /\ [Next]_vars => IInv'
    <2> SUFFICES ASSUME IInv, [Next]_vars PROVE IInv'
      OBVIOUS
    <2>1. CASE UNCHANGED vars
      BY <2>1 DEF vars, IInv, TypeOK, TabStates, RunOK, RunGoesForward, YieldsOfOkDaysOnly,
          OneYieldPerRate, YieldsCompound, YieldsKeepTheirRate, Yields
    <2>2. CASE Next
      BY <2>2, AccrueDayOK, MarkDayOK, RunMovesOK, StopOK, ClearMarkerOK, TabMovesOK,
          DeleteYieldOK, CommitRateOK, EditTimelineOK DEF Next, RunStep
    <2> QED BY <2>1, <2>2
  <1> QED BY InitOK, <1>1, PTL DEF Spec

\* The calendar, the tables and the run keep their types.
THEOREM TypeCorrect == Spec => []TypeOK
  <1>1. IInv => TypeOK
    BY DEF IInv
  <1> QED BY Invariance, <1>1, PTL

\* A day has yields only with the "ok" that was committed with them: failures
\* half-way, stops, time-outs and cleared markers leave none behind
\* (services/accrual.py:162-262).
THEOREM YieldsCommitWithTheirDay == Spec => []YieldsOfOkDaysOnly
  <1>1. IInv => YieldsOfOkDaysOnly
    BY DEF IInv
  <1> QED BY Invariance, <1>1, PTL

\* No day accrues twice at one rate, however often it is retried.
THEOREM NoDayAccruesTwice == Spec => []OneYieldPerRate
  <1>1. IInv => OneYieldPerRate
    BY DEF IInv
  <1> QED BY Invariance, <1>1, PTL

\* A yield counts exactly earlier ones, and each that was there that night.
THEOREM YieldsBuildOnEarlierOnes == Spec => []YieldsCompound
  <1>1. IInv => YieldsCompound
    BY DEF IInv
  <1> QED BY Invariance, <1>1, PTL

\* No edit of the timeline, and no race of two, loses the rate of a yield.
THEOREM RatesOfYieldsStay == Spec => []YieldsKeepTheirRate
  <1>1. IInv => YieldsKeepTheirRate
    BY DEF IInv
  <1> QED BY Invariance, <1>1, PTL
=============================================================================
