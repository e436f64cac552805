-------------------------------- MODULE Cron --------------------------------
(***************************************************************************)
(* The scheduler of jobs on the desktop:                                   *)
(*   agent/src/core/cron.rs              schedules, due jobs, results      *)
(*   agent/src/core/tools/cron_tools.rs  the calls that change jobs        *)
(*   agent/src/desktop/background/mod.rs the tick that looks for due jobs  *)
(*                                                                         *)
(* Each call loads the job file, changes it and saves it, in one step here *)
(* (Documents.tla has the places of the file and the steps of a save).  A  *)
(* job is run by whoever takes the due jobs of a tick; the repository has  *)
(* get_due_jobs and apply_job_result on the two sides of that and leaves   *)
(* the dispatch itself to a TODO.                                          *)
(***************************************************************************)
EXTENDS Integers, Sequences, FiniteSets, Entries

CONSTANTS
  MaxTime,    \* bound: the clock, in units of the job file
  IdSpace,    \* generate_id: 1 000 000
  TickEvery,  \* check_cron_jobs runs on every 60th tick
  Backoff,    \* ERROR_BACKOFF_SCHEDULE_MS
  MaxErrors,  \* MAX_CONSECUTIVE_ERRORS
  Delays,     \* how far ahead the user sets a date, now and past included
  Intervals,  \* the intervals the user may give
  MaxJobs     \* bound: number of calls that add a job

ASSUME CronAssumption ==
  /\ MaxTime \in Nat /\ IdSpace \in Nat \ {0} /\ TickEvery \in Nat \ {0}
  /\ Backoff \in Seq(Nat) /\ Backoff # <<>>
  /\ MaxErrors \in Nat \ {0} /\ Intervals \subseteq Nat /\ Delays \subseteq Nat
  /\ MaxJobs \in Nat

VARIABLES
  now,      \* epoch_ms()
  jobs,     \* the job file: a function from ids
  counter,  \* cron_counter of the background loop
  due,      \* the jobs the last check found due and nobody has run
  runs      \* history, per job ever added: its runs, its failures in a row since
            \* it was enabled, and whether an update has eased its backoff

cronVars == <<now, jobs, counter, due, runs>>

Time == 0..MaxTime
Never == -1                     \* None
Id == 0..(IdSpace - 1)

-----------------------------------------------------------------------------
(* Schedules.                                                              *)

AtTime(t) == [kind |-> "at", at |-> t, anchor |-> 0]
EveryFrom(i, anchor) == [kind |-> "every", at |-> i, anchor |-> anchor]
MaxOf(a, b) == IF a > b THEN a ELSE b

\* Mutant of ComputeNextRun: whole periods are rounded down.
ComputeNextRunFloor(s, t) ==
  IF s.kind = "at" THEN IF s.at > t THEN s.at ELSE Never
  ELSE LET interval == MaxOf(s.at, 1)
       IN IF t < s.anchor THEN s.anchor
          ELSE s.anchor + MaxOf((t - s.anchor) \div interval, 1) * interval

\* CronSchedule::compute_next_run.  cron_tools always gives an anchor.
ComputeNextRun(s, t) ==
  IF s.kind = "at" THEN IF s.at > t THEN s.at ELSE Never
  ELSE LET interval == MaxOf(s.at, 1)
           periods == (t - s.anchor + interval - 1) \div interval
       IN IF t < s.anchor THEN s.anchor ELSE s.anchor + MaxOf(periods, 1) * interval

\* error_backoff_ms.
ErrorBackoff(errors) ==
  Backoff[IF errors = 0 THEN 1 ELSE IF errors > Len(Backoff) THEN Len(Backoff) ELSE errors]

IsDue(j, t) == j.enabled /\ j.next # Never /\ j.next <= t

-----------------------------------------------------------------------------
(* The calls of the tool.                                                  *)

\* generate_id: two jobs made IdSpace apart, or in the same instant, get the
\* same id, and the second takes the place of the first.
NewId == now % IdSpace

Schedules == {AtTime(now + d) : d \in Delays} \cup {EveryFrom(i, now) : i \in Intervals}

\* do_add and add_job.  Only a job with one date may be deleted by its run.
Add ==
  /\ Len(runs) < MaxJobs
  /\ \E s \in Schedules, once \in BOOLEAN :
       /\ once => s.kind = "at"
       /\ jobs' = With(jobs, NewId,
            [schedule |-> s, next |-> ComputeNextRun(s, now), enabled |-> TRUE,
             once |-> once, errors |-> 0, serial |-> Len(runs) + 1])
       /\ runs' = Append(
            [n \in DOMAIN runs |-> [runs[n] EXCEPT !.clashed =
               @ \/ (NewId \in DOMAIN jobs /\ jobs[NewId].serial = n)]],
            [ok |-> 0, failures |-> 0, last |-> Never, once |-> once, eased |-> FALSE,
             removed |-> FALSE, clashed |-> FALSE, unsaved |-> FALSE])
  /\ UNCHANGED <<now, counter, due>>

\* do_update: "enabled" may be left out, and only enabling forgets the
\* errors; the next run is computed anew whatever changed, without a backoff.
Update ==
  \E id \in DOMAIN jobs : \E s \in Schedules \cup {jobs[id].schedule},
                           enabled \in {"absent", "true", "false"} :
    LET j == jobs[id]
        r == runs[j.serial]
    IN /\ jobs' = [jobs EXCEPT ![id] =
             [j EXCEPT !.schedule = s, !.next = ComputeNextRun(s, now),
                       !.enabled = enabled = "true" \/ (enabled = "absent" /\ j.enabled),
                       !.errors = IF enabled = "true" THEN 0 ELSE j.errors]]
       /\ runs' = [runs EXCEPT ![j.serial] =
             [r EXCEPT !.failures = IF enabled = "true" THEN 0 ELSE r.failures,
                       !.eased = TRUE]]
       /\ UNCHANGED <<now, counter, due>>

Remove ==
  \E id \in DOMAIN jobs :
    /\ jobs' = Without(jobs, id)
    /\ runs' = [runs EXCEPT ![jobs[id].serial].removed = TRUE]
    /\ UNCHANGED <<now, counter, due>>

-----------------------------------------------------------------------------
(* The background loop and the results of jobs.                            *)

\* One second of the loop; on every TickEvery-th it lists the due jobs.
Tick ==
  /\ now < MaxTime
  /\ now' = now + 1
  /\ counter' = IF counter + 1 >= TickEvery THEN 0 ELSE counter + 1
  /\ due' = IF counter' = 0 THEN {id \in DOMAIN jobs : IsDue(jobs[id], now')} ELSE due
  /\ UNCHANGED <<jobs, runs>>

\* The record of a job that is kept after a run with this outcome.
Rescheduled(j, errors) ==
  LET next == ComputeNextRun(j.schedule, now)
  IN [j EXCEPT !.errors = errors, !.enabled = @ /\ errors < MaxErrors,
               !.next = IF errors > 0 /\ next # Never
                        THEN MaxOf(next, now + ErrorBackoff(errors)) ELSE next]

\* Mutant of Result: errors are not added up.
ResultUncounted(j, success) ==
  IF j.once /\ success THEN {} ELSE {Rescheduled(j, IF success THEN 0 ELSE 1)}

\* apply_job_result: what is left of the job, at most one record.
Result(j, success) ==
  IF j.once /\ success THEN {}
  ELSE {Rescheduled(j, IF success THEN 0 ELSE j.errors + 1)}

\* A job is run and its result applied; when the save fails, the loop logs
\* it and the file keeps the job as it was.
Run ==
  \E id \in due \cap DOMAIN jobs, success, saved \in BOOLEAN :
    LET j == jobs[id]
        left == Result(j, success)
    IN /\ IsDue(j, now)
       /\ jobs' = IF ~saved THEN jobs
                  ELSE [x \in DOMAIN jobs \ (IF left = {} THEN {id} ELSE {}) |->
                          IF x = id THEN CHOOSE r \in left : TRUE ELSE jobs[x]]
       /\ runs' = [runs EXCEPT
            ![j.serial].ok = IF success THEN @ + 1 ELSE @,
            ![j.serial].failures = IF success THEN 0 ELSE @ + 1,
            ![j.serial].last = now, ![j.serial].eased = FALSE,
            ![j.serial].unsaved = @ \/ ~saved]
       /\ due' = due \ {id}
       /\ UNCHANGED <<now, counter>>

CronInit ==
  /\ now = 0 /\ counter = 0 /\ due = {}
  /\ jobs = [x \in {} |-> 0] /\ runs = <<>>

CronNext == Add \/ Update \/ Remove \/ Tick \/ Run

CronSpec == CronInit /\ [][CronNext]_cronVars

-----------------------------------------------------------------------------
(* Properties.                                                             *)

\* The types of the variables.
CronTypeOK ==
  /\ now \in Time /\ counter \in 0..(TickEvery - 1) /\ due \subseteq Id
  /\ DOMAIN jobs \subseteq Id
  /\ \A id \in DOMAIN jobs :
       /\ jobs[id].next \in Int /\ jobs[id].next >= Never
       /\ jobs[id].errors \in 0..MaxErrors /\ jobs[id].serial \in 1..Len(runs)

\* For every schedule the next run is the least instant of the schedule that
\* is not past and not the anchor itself once that is reached: at a multiple
\* of the interval, that is this very instant.
NextRunIsLeast ==
  \A i \in 0..MaxTime, anchor \in Time :
    LET instants == {anchor + k * MaxOf(i, 1) : k \in 1..(MaxTime + 1)}
                    \cup (IF now < anchor THEN {anchor} ELSE {})
        next == ComputeNextRun(EveryFrom(i, anchor), now)
    IN /\ next \in instants /\ next >= now
       /\ \A t \in instants : t >= now => next <= t

\* As long as results are saved, through any updates of the job: it counts
\* its failures in a row since it was last enabled, and is off at the limit;
\* and it waits at least the backoff of that many failures, unless an update
\* since the last of them has set the next run anew.
FailingJobBacksOff ==
  \A id \in DOMAIN jobs :
    LET j == jobs[id]
        r == runs[j.serial]
    IN ~r.unsaved =>
         /\ j.errors = r.failures
         /\ r.failures <= MaxErrors
         /\ r.failures = MaxErrors => ~j.enabled
         /\ r.failures > 0 /\ ~r.eased /\ j.next # Never
              => j.next >= r.last + ErrorBackoff(r.failures)

\* As long as results are saved and ids do not clash, a job is in the file
\* until its user removes it or, when it asks to be deleted, it succeeds; and
\* then it never runs a second time.
JobsAccounted ==
  \A n \in 1..Len(runs) : ~runs[n].unsaved /\ ~runs[n].clashed =>
    /\ runs[n].once => runs[n].ok <= 1
    /\ (\E id \in DOMAIN jobs : jobs[id].serial = n)
         <=> ~(runs[n].removed \/ (runs[n].once /\ runs[n].ok > 0))
=============================================================================
