------------------------------ MODULE Accrual ------------------------------
(***************************************************************************)
(* The nightly accrual of yields (services/accrual.py), run by the         *)
(* in-process scheduler, and the timeline of APY rates it reads            *)
(* (routers/apy_config.py) with the form and the tab that edit it.         *)
(*                                                                         *)
(* A run walks the last Window + 1 days, oldest first, and settles each    *)
(* one that has no job_runs row in a transaction of its own: flushing the  *)
(* "running" marker takes the write lock, and the yields become visible    *)
(* with the "ok" that replaces it.  A day that fails is rolled back and    *)
(* marked in a second transaction.  The process may stop between any two   *)
(* steps, and a run whose flush times out at the lock is over: the session *)
(* refuses every later day until it is rolled back, which nothing does.    *)
(*                                                                         *)
(* Positions are those of instruments eligible for yield.  The amount of a *)
(* yield is abstracted to what it was computed from: the rate, and the     *)
(* earlier yields in the balance.                                          *)
(***************************************************************************)
EXTENDS Integers, FiniteSets, FiniteSetsExt

CONSTANTS Positions,
          Tabs,          \* open APY tabs
          LastDay,       \* bound: the model's calendar
          Window,        \* backfill_days
          Starts, Ends,  \* days the form and PATCH submit
          MaxFaults,     \* bound: nights lost to a stop or a time-out
          MaxRates       \* bound: rows of apy_config

Days == 1..LastDay

\* effective_to IS NULL
Open == LastDay + 1

ASSUME AccrualAssumption ==
    /\ LastDay \in Nat \ {0}
    /\ Window \in Nat
    /\ MaxFaults \in 0..Window
    /\ Starts \subseteq Days
    /\ Ends \subseteq Days \cup {Open}

VARIABLES today,
          up,        \* the process is running
          faults,
          jobRuns,   \* job_runs.status of the accrual of each day
          run,       \* the accrual run: its step and the day it is at
          rates,     \* apy_config: position, effective_from, effective_to
          deposited, \* date of each position's first deposit
          priced,    \* date of each position's first quote; Open: none yet
          yields,    \* transactions with source "accrual"
          tab        \* what each open tab has sent

vars == <<today, up, faults, jobRuns, run, rates, deposited, priced, yields, tab>>

Resting == [pc |-> "idle", day |-> 1]

Editing == [pc |-> "editing"]

\* The write lock: held by the accrual from its first flush to its commit.
LockFree == run.pc # "accrue"

Init ==
    /\ today = 1
    /\ up = TRUE
    /\ faults = 0
    /\ jobRuns = [d \in Days |-> "none"]
    /\ run = [pc |-> "due", day |-> 1]
    /\ rates = {}
    /\ deposited \in [Positions -> Days \cap {1, 2}]
    /\ priced = [p \in Positions |-> Open]
    /\ yields = {}
    /\ tab = [c \in Tabs |-> Editing]

-----------------------------------------------------------------------------
(***************************************************************************)
(* The clock and the process.  The trigger fires at 00:30 if the process   *)
(* is up; the job store is in memory, so a night missed is not made up     *)
(* for, and max_instances=1 keeps a run from overlapping the next.         *)
(***************************************************************************)

Midnight ==
    /\ today < LastDay
    /\ run.pc = "idle"
    /\ up \/ faults < MaxFaults
    /\ today' = today + 1
    /\ run' = IF up THEN [pc |-> "due", day |-> 1] ELSE run
    /\ faults' = IF up THEN faults ELSE faults + 1
    /\ UNCHANGED <<up, jobRuns, rates, deposited, priced, yields, tab>>

\* An uncommitted transaction and a request in flight go with the process.
Stop ==
    /\ up
    /\ faults < MaxFaults
    /\ faults' = faults + 1
    /\ up' = FALSE
    /\ run' = Resting
    /\ tab' = [c \in Tabs |-> Editing]
    /\ UNCHANGED <<today, jobRuns, rates, deposited, priced, yields>>

Restart ==
    /\ ~up
    /\ up' = TRUE
    /\ UNCHANGED <<today, faults, jobRuns, run, rates, deposited, priced, yields, tab>>

-----------------------------------------------------------------------------
(***************************************************************************)
(* run_accrual_with_backfill and accrue_for_date.                          *)
(***************************************************************************)

\* Mutant of FirstDay: no backfill.
TodayOnly == today

FirstDay == IF today - Window < 1 THEN 1 ELSE today - Window

StartRun ==
    /\ run.pc = "due"
    /\ run' = [pc |-> "check", day |-> FirstDay]
    /\ UNCHANGED <<today, up, faults, jobRuns, rates, deposited, priced, yields, tab>>

\* Mutant of AfterDay: one day too many.
AfterDayTooFar(d) ==
    IF d <= today THEN [pc |-> "check", day |-> d + 1] ELSE Resting

\* for offset in range(backfill_days, -1, -1)
AfterDay(d) ==
    IF d < today THEN [pc |-> "check", day |-> d + 1] ELSE Resting

\* Mutant of Settled: only a failed day is left alone.
SettledFailed(d) == jobRuns[d] = "failed"

Settled(d) == jobRuns[d] # "none"

SkipDay ==
    /\ run.pc = "check"
    /\ Settled(run.day)
    /\ run' = AfterDay(run.day)
    /\ UNCHANGED <<today, up, faults, jobRuns, rates, deposited, priced, yields, tab>>

\* INSERT the "running" marker: this transaction now holds the write lock.
ClaimDay ==
    /\ run.pc = "check"
    /\ ~Settled(run.day)
    /\ run' = [run EXCEPT !.pc = "accrue"]
    /\ UNCHANGED <<today, up, faults, jobRuns, rates, deposited, priced, yields, tab>>

\* _active_apy_configs_for_date: the day of effective_from itself earns nothing.
ActiveOn(r, d) == r.from < d /\ d <= r.to

\* Mutant of Counted: the balance includes the day itself and what follows.
CountedAnyDay(p, d) == {y \in yields : y.position = p /\ y.live}

\* _get_balance_through(D - 1): the live yields in the balance.
Counted(p, d) == {y \in yields : y.position = p /\ y.live /\ y.date < d}

HasBalance(p, d) == deposited[p] < d \/ Counted(p, d) # {}

DueRates(d) == {r \in rates : ActiveOn(r, d) /\ HasBalance(r.position, d)}

\* _price_for_accrual finds a quote of the day or of an earlier one.
Priceable(d) == \A r \in DueRates(d) : priced[r.position] <= d

YieldOf(r, d) ==
    [position |-> r.position, rate |-> r.from, date |-> d, night |-> today,
     on |-> {y.date : y \in Counted(r.position, d)}, live |-> TRUE]

AccrueDay ==
    /\ run.pc = "accrue"
    /\ Priceable(run.day)
    /\ yields' = yields \cup {YieldOf(r, run.day) : r \in DueRates(run.day)}
    /\ jobRuns' = [jobRuns EXCEPT ![run.day] = "ok"]
    /\ run' = AfterDay(run.day)
    /\ UNCHANGED <<today, up, faults, rates, deposited, priced, tab>>

\* Mutant of FailDay: what was staged before the failure is committed.
FailDayHalfway ==
    /\ run.pc = "accrue"
    /\ DueRates(run.day) # {}
    /\ yields' = yields \cup {YieldOf(r, run.day) : r \in DueRates(run.day)}
    /\ run' = [run EXCEPT !.pc = "mark"]
    /\ UNCHANGED <<today, up, faults, jobRuns, rates, deposited, priced, tab>>

\* No quote for one position, or no FX rate: everything staged for the day is
\* rolled back, and the lock is free until the marker is written.
FailDay ==
    /\ run.pc = "accrue"
    /\ DueRates(run.day) # {}
    /\ run' = [run EXCEPT !.pc = "mark"]
    /\ UNCHANGED <<today, up, faults, jobRuns, rates, deposited, priced, yields, tab>>

\* Mutant of MarkDay: the marker is not committed.
MarkDayLost ==
    /\ run.pc = "mark"
    /\ run' = AfterDay(run.day)
    /\ UNCHANGED <<today, up, faults, jobRuns, rates, deposited, priced, yields, tab>>

MarkDay ==
    /\ run.pc = "mark"
    /\ jobRuns' = [jobRuns EXCEPT ![run.day] = "failed"]
    /\ run' = AfterDay(run.day)
    /\ UNCHANGED <<today, up, faults, rates, deposited, priced, yields, tab>>

\* The flush of a marker waits longer than the busy timeout.
TimeOutAtLock ==
    /\ run.pc \in {"check", "mark"}
    /\ run.pc = "check" => ~Settled(run.day)
    /\ faults < MaxFaults
    /\ faults' = faults + 1
    /\ run' = Resting
    /\ UNCHANGED <<today, up, jobRuns, rates, deposited, priced, yields, tab>>

\* "so operators can see and clear them": the row is deleted by hand.
ClearMarker ==
    /\ LockFree
    /\ \E d \in Days :
        /\ jobRuns[d] = "failed"
        /\ jobRuns' = [jobRuns EXCEPT ![d] = "none"]
    /\ UNCHANGED <<today, up, faults, run, rates, deposited, priced, yields, tab>>

-----------------------------------------------------------------------------
(***************************************************************************)
(* What accrual reads, as others write it.                                 *)
(***************************************************************************)

QuoteArrives(p) ==
    /\ LockFree
    /\ priced[p] = Open
    /\ priced' = [priced EXCEPT ![p] = today]
    /\ UNCHANGED <<today, up, faults, jobRuns, run, rates, deposited, yields, tab>>

\* DELETE /api/transactions/{id} of an accrued yield leaves a tombstone.
DeleteYield ==
    /\ LockFree
    /\ up
    /\ \E y \in yields :
        /\ y.live
        /\ yields' = (yields \ {y}) \cup {[y EXCEPT !.live = FALSE]}
    /\ UNCHANGED <<today, up, faults, jobRuns, run, rates, deposited, priced, tab>>

-----------------------------------------------------------------------------
(***************************************************************************)
(* The timeline of rates.  POST reads the open row of the position before  *)
(* its first write, so two tabs may both have read the same one.           *)
(***************************************************************************)

OpenRates(p) == {r \in rates : r.position = p /\ r.to = Open}

\* Save in the form: the button is disabled until the answer is there.
SubmitRate(c) ==
    /\ tab[c] = Editing
    /\ up
    /\ Cardinality(rates) < MaxRates
    /\ \E p \in Positions, d \in Starts :
        tab' = [tab EXCEPT ![c] = [pc |-> "sent", position |-> p, from |-> d]]
    /\ UNCHANGED <<today, up, faults, jobRuns, run, rates, deposited, priced, yields>>

\* create_apy_config up to its commit.  More than one open row is an error of
\* scalar_one_or_none; a row that starts no earlier is refused.
ReadPrior(c) ==
    /\ tab[c].pc = "sent"
    /\ LET open == OpenRates(tab[c].position)
       IN  tab' = [tab EXCEPT ![c] =
               IF Cardinality(open) > 1 \/ \E r \in open : r.from >= @.from
               THEN Editing
               ELSE [pc |-> "read", position |-> @.position, from |-> @.from,
                     prior |-> {r.from : r \in open}]]
    /\ UNCHANGED <<today, up, faults, jobRuns, run, rates, deposited, priced, yields>>

\* "Close prior": its last day is the one before the new rate's first.
Closed(r, from) == [r EXCEPT !.to = from - 1]

\* UNIQUE(account, instrument, effective_from) and a prior row deleted in
\* between refuse the commit.
CommitRate(c) ==
    /\ tab[c].pc = "read"
    /\ LockFree
    /\ LET t     == tab[c]
           own   == {r \in rates : r.position = t.position}
           prior == {r \in own : r.from \in t.prior}
           new   == [position |-> t.position, from |-> t.from, to |-> Open]
       IN  IF /\ Cardinality(prior) = Cardinality(t.prior)
              /\ \A r \in own : r.from # t.from
           THEN /\ Cardinality(rates) < MaxRates
                /\ rates' = (rates \ prior) \cup {Closed(r, t.from) : r \in prior}
                                            \cup {new}
           ELSE UNCHANGED rates
    /\ tab' = [tab EXCEPT ![c] = Editing]
    /\ UNCHANGED <<today, up, faults, jobRuns, run, deposited, priced, yields>>

\* Mutant of Unreferenced: only live yields protect a rate.
UnreferencedByLive(r) ==
    \A y \in yields : y.live => <<y.position, y.rate>> # <<r.position, r.from>>

\* A yield, deleted or not, keeps the rate it was accrued at.
Unreferenced(r) == \A y \in yields : <<y.position, y.rate>> # <<r.position, r.from>>

\* The bin beside a row of the tab's history.
DeleteRate(c) ==
    /\ tab[c] = Editing
    /\ up
    /\ LockFree
    /\ \E r \in rates :
        /\ Unreferenced(r)
        /\ rates' = rates \ {r}
    /\ UNCHANGED <<today, up, faults, jobRuns, run, deposited, priced, yields, tab>>

\* PATCH moves the end of a row, or takes it away.
PatchRate ==
    /\ up
    /\ LockFree
    /\ \E r \in rates, to \in Ends :
        /\ to # r.to
        /\ rates' = (rates \ {r}) \cup {[r EXCEPT !.to = to]}
    /\ UNCHANGED <<today, up, faults, jobRuns, run, deposited, priced, yields, tab>>

-----------------------------------------------------------------------------

RunStep ==
    \/ StartRun \/ SkipDay \/ ClaimDay \/ AccrueDay \/ FailDay \/ MarkDay

Next ==
    \/ Midnight \/ Stop \/ Restart
    \/ RunStep \/ TimeOutAtLock \/ ClearMarker
    \/ \E p \in Positions : QuoteArrives(p)
    \/ DeleteYield
    \/ \E c \in Tabs : SubmitRate(c) \/ ReadPrior(c) \/ CommitRate(c) \/ DeleteRate(c)
    \/ PatchRate

\* Time passes, the supervisor restarts the process, and the event loop
\* resumes the job.
Fairness == WF_vars(Midnight) /\ WF_vars(Restart) /\ WF_vars(RunStep)

Spec == Init /\ [][Next]_vars /\ Fairness

-----------------------------------------------------------------------------

Yields == [position : Positions, rate : Days, date : Days, night : Days,
           on : SUBSET Days, live : BOOLEAN]

\* Type invariant of the calendar, the tables and the run.
TypeOK ==
    /\ today \in Days /\ up \in BOOLEAN /\ faults \in 0..MaxFaults
    /\ jobRuns \in [Days -> {"none", "ok", "failed"}]
    /\ run \in [pc : {"idle", "due", "check", "accrue", "mark"}, day : Days]
    /\ rates \subseteq [position : Positions, from : Days, to : 0..Open]
    /\ deposited \in [Positions -> Days]
    /\ priced \in [Positions -> 1..Open]
    /\ yields \subseteq Yields
    /\ \A c \in Tabs : tab[c].pc \in {"editing", "sent", "read"}

\* A day's yields stand or fall together with its "ok": a failure half-way, a
\* stop or a marker written later leaves none of them.
YieldsOfOkDaysOnly ==
    \A y \in yields : jobRuns[y.date] = "ok"

\* No day accrues twice at one rate, through backfills, retries of cleared
\* days, deleted yields and restarts.
OneYieldPerRate ==
    \A y, z \in yields :
        <<y.position, y.rate, y.date>> = <<z.position, z.rate, z.date>> => y = z

\* "Balance for accrual day D = buys + prior yields - sells through D-1"
\* (services/accrual.py:7): a day counts every live yield of an earlier day
\* that was there that night, also when one run settles both days.
YieldsCompound ==
    \A y, z \in yields :
        /\ \A d \in z.on : d < z.date
        /\ y.position = z.position /\ y.live /\ y.date < z.date /\ y.night <= z.night
               => y.date \in z.on

\* A rate that yields were accrued at stays in the table.
YieldsKeepTheirRate ==
    \A y \in yields : \E r \in rates : r.position = y.position /\ r.from = y.rate

\* No night's loss is a lost day: with fewer nights lost than the backfill
\* window has days, every day is accrued or marked.
EveryDaySettled ==
    \A d \in Days : d + MaxFaults <= LastDay => <>(jobRuns[d] # "none")
=============================================================================
