------------------------------ MODULE FxRates ------------------------------
(***************************************************************************)
(* The table of EUR/USD rates, one row per day, and everything that writes *)
(* it: the lookups of the transaction form and of saved trades, the        *)
(* nightly refresh job, the backfills and the manual override.  A writer   *)
(* reads, awaits the provider, reads again and only then commits; other    *)
(* requests run in every gap.  An insert of a day another request has      *)
(* committed meanwhile violates the unique key and loses the whole commit. *)
(*                                                                         *)
(* A published rate is identified by the day it was published for, so a    *)
(* row of day d that holds p says which day's rate is shown for d; manual  *)
(* rates are numbers that are no days.                                     *)
(***************************************************************************)
EXTENDS Integers, FiniteSetsExt

CONSTANTS
    LastDay,      \* bound on the calendar
    Weekend,      \* the days nothing is published for
    Manual,       \* manual rates
    Requests,     \* concurrent requests that may reach the table
    Bootstrap,    \* days the first refresh goes back (FX_REFRESH_BOOTSTRAP_DAYS)
    MaxRestarts   \* bound on restarts of the process

VARIABLES
    stored,       \* per day: NoRate or a rate
    today,
    request,      \* per request: its kind, progress and the rows it is about to insert
    job,          \* the refresh job, likewise
    jobRun,       \* today's job_runs row: "none", "failed" or "ok"
    restarts

vars == <<stored, today, request, job, jobRun, restarts>>

NoRate == 0
Days == 1..LastDay
NoRows == [day \in {} |-> NoRate]

Idle == [pc |-> "idle", kind |-> "none", first |-> 1, last |-> 1, rows |-> NoRows]

\* About to write its rows; what it asked for is past.
Writing(pc, rows) == [Idle EXCEPT !.pc = pc, !.rows = rows]

Init ==
    /\ stored = [d \in Days |-> NoRate]
    /\ today \in {2, LastDay}
    /\ request = [r \in Requests |-> Idle]
    /\ job = Idle
    /\ jobRun = "none"
    /\ restarts = 0

-----------------------------------------------------------------------------

\* The provider publishes a business day's rate the day after.
Published == {d \in Days : d < today /\ d \notin Weekend}
Known(d) == stored[d] # NoRate

Absent(rows) == [d \in {d \in DOMAIN rows : ~Known(d)} |-> rows[d]]

ConflictUnseen(rows) == FALSE

\* A commit inserts its rows, unless one of the days has a row by now.
Conflict(rows) == \E d \in DOMAIN rows : Known(d)
Insert(rows) ==
    stored' = IF Conflict(rows) THEN stored
              ELSE [d \in Days |-> IF d \in DOMAIN rows THEN rows[d] ELSE stored[d]]

-----------------------------------------------------------------------------
(* The rate of a date: from the table, or from the provider, which walks   *)
(* back to the last published day; the row found there is also stored      *)
(* under the date asked for.                                               *)

Ask(r, d) ==
    /\ request[r].pc = "idle"
    /\ d <= today /\ ~Known(d)
    /\ request' = [request EXCEPT ![r] = [Idle EXCEPT !.pc = "fetch", !.kind = "date", !.last = d]]
    /\ UNCHANGED <<stored, today, job, jobRun, restarts>>

WalkedBack(d) ==
    LET actual == Max({p \in Published : p <= d})
        rate == IF Known(actual) THEN stored[actual] ELSE actual
    IN  [x \in {d} \cup (IF Known(actual) THEN {} ELSE {actual}) |-> rate]

Fetched(r) ==
    /\ request[r].pc = "fetch"
    /\ request[r].kind = "date"
    /\ \E p \in Published : p <= request[r].last
    /\ request' = [request EXCEPT ![r] = Writing("commit", WalkedBack(request[r].last))]
    /\ UNCHANGED <<stored, today, job, jobRun, restarts>>

\* A backfill asks for a range and inserts the days the table lacks.
AskRange(r, d) ==
    /\ request[r].pc = "idle"
    /\ d <= today
    /\ request' = [request EXCEPT ![r] =
            [Idle EXCEPT !.pc = "fetch", !.kind = "range", !.first = d, !.last = today]]
    /\ UNCHANGED <<stored, today, job, jobRun, restarts>>

Missing(first, last) == Absent([d \in Published \cap (first..last) |-> d])

RangeFetched(r) ==
    /\ request[r].pc = "fetch"
    /\ request[r].kind = "range"
    /\ request' = [request EXCEPT ![r] = Writing("commit", Missing(request[r].first, request[r].last))]
    /\ UNCHANGED <<stored, today, job, jobRun, restarts>>

\* The provider is unreachable, or has nothing so far back: nothing is written.
Unanswered(r) ==
    /\ request[r].pc = "fetch"
    /\ request' = [request EXCEPT ![r] = Idle]
    /\ UNCHANGED <<stored, today, job, jobRun, restarts>>

\* The commit of the rows; one that conflicts fails, and the request with it.
Commit(r) ==
    /\ request[r].pc = "commit"
    /\ Insert(request[r].rows)
    /\ request' = [request EXCEPT ![r] = Idle]
    /\ UNCHANGED <<today, job, jobRun, restarts>>

-----------------------------------------------------------------------------
(* The manual override looks for the row of its date: it inserts one if it *)
(* found none, and otherwise updates the row it found if the rate differs. *)

Override(r, d, rate) ==
    /\ request[r].pc = "idle"
    /\ request' = [request EXCEPT ![r] =
            Writing(IF Known(d) THEN "update" ELSE "commit",
                    [x \in {d} \ {y \in Days : stored[y] = rate} |-> rate])]
    /\ UNCHANGED <<stored, today, job, jobRun, restarts>>

Update(r) ==
    /\ request[r].pc = "update"
    /\ stored' = [d \in Days |-> IF d \in DOMAIN request[r].rows THEN request[r].rows[d]
                                 ELSE stored[d]]
    /\ request' = [request EXCEPT ![r] = Idle]
    /\ UNCHANGED <<today, job, jobRun, restarts>>

-----------------------------------------------------------------------------
(* The refresh job, once a day: from the day after the newest row to       *)
(* yesterday.  The rates are committed before the run is recorded.         *)

Target == today - 1
Newest == {d \in Days : Known(d)}
Start == IF Newest # {} THEN Max(Newest) + 1 ELSE Target - Bootstrap

JobBegin ==
    /\ job.pc = "idle"
    /\ jobRun # "ok"
    /\ job' = IF Start > Target THEN Writing("record", NoRows)
              ELSE [Idle EXCEPT !.pc = "fetch", !.first = Start, !.last = Target]
    /\ UNCHANGED <<stored, today, request, jobRun, restarts>>

JobFetched ==
    /\ job.pc = "fetch"
    /\ job' = Writing("commit", Missing(job.first, job.last))
    /\ UNCHANGED <<stored, today, request, jobRun, restarts>>

\* A failed fetch, or a day inserted meanwhile: the failure is recorded.
JobFails ==
    /\ job.pc = "fetch" \/ (job.pc = "commit" /\ Conflict(job.rows))
    /\ job' = Idle
    /\ jobRun' = "failed"
    /\ UNCHANGED <<stored, today, request, restarts>>

JobCommit ==
    /\ job.pc = "commit"
    /\ ~Conflict(job.rows)
    /\ Insert(job.rows)
    /\ job' = Writing("record", NoRows)
    /\ UNCHANGED <<today, request, jobRun, restarts>>

JobRecord ==
    /\ job.pc = "record"
    /\ job' = Idle
    /\ jobRun' = "ok"
    /\ UNCHANGED <<stored, today, request, restarts>>

-----------------------------------------------------------------------------

\* The process restarts: requests and the job are gone, the tables stay.
Restart ==
    /\ restarts < MaxRestarts
    /\ restarts' = restarts + 1
    /\ request' = [r \in Requests |-> Idle]
    /\ job' = Idle
    /\ UNCHANGED <<stored, today, jobRun>>

\* A day passes; the job of a day ends within it.
NextDay ==
    /\ today < LastDay
    /\ job.pc = "idle"
    /\ today' = today + 1
    /\ jobRun' = "none"
    /\ UNCHANGED <<stored, request, job, restarts>>

Next ==
    \/ \E r \in Requests, d \in Days :
        Ask(r, d) \/ AskRange(r, d) \/ (\E rate \in Manual : Override(r, d, rate))
    \/ \E r \in Requests :
        Fetched(r) \/ RangeFetched(r) \/ Unanswered(r) \/ Commit(r) \/ Update(r)
    \/ JobBegin \/ JobFetched \/ JobFails \/ JobCommit \/ JobRecord
    \/ Restart \/ NextDay

Spec == Init /\ [][Next]_vars

-----------------------------------------------------------------------------

\* A row's rate was published on or before its day, or typed by the user.
RatesAreReal ==
    \A d \in Days : Known(d) =>
        stored[d] \in Manual \/ (stored[d] \in Days \ Weekend /\ stored[d] <= d)

TypeOK ==
    /\ RatesAreReal
    /\ today \in Days
    /\ \A r \in Requests :
        /\ request[r].pc \in {"idle", "fetch", "commit", "update"}
        /\ DOMAIN request[r].rows \subseteq Days
    /\ job.pc \in {"idle", "fetch", "commit", "record"}
    /\ jobRun \in {"none", "failed", "ok"}
    /\ restarts \in 0..MaxRestarts

\* A stored rate is the source of truth for its day: whatever lookups, jobs,
\* backfills and restarts race, only a manual override ever replaces it.
StoredRatesStand ==
    [][\A d \in Days : Known(d) /\ stored'[d] # stored[d] => stored'[d] \in Manual]_vars
=============================================================================
