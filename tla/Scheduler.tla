------------------------------ MODULE Scheduler ------------------------------
(***************************************************************************)
(* Recurring crawls of external/rag-crawler (scheduler.py, and the         *)
(* schedule endpoints of server.py).                                       *)
(*                                                                         *)
(* schedules.json is the list of schedules; the jobs of APScheduler are    *)
(* made from it at start and after every change.  Each operation runs      *)
(* without an await, so operations do not interleave, but each of them     *)
(* rewrites the whole file (truncate, then write), and that can be cut     *)
(* short.                                                                  *)
(***************************************************************************)
EXTENDS Naturals, FiniteSets

CONSTANTS
    Ids,            \* identities of schedules (a bound of the model)
    Crons,          \* cron expressions, a bad one among them
    Bad,            \* the one APScheduler cannot parse
    Sites,          \* start_urls
    NoCollection,   \* collection_name of a request or schedule that has none
    Collections,
    ScheduleEvents, \* which of "crash", "restart" may happen
    MaxScheduleEvents, \* how many of them (a bound of the model)
    MaxLaunches     \* crawls running at a time (a bound of the model)

ASSUME ScheduleAssumption ==
    /\ Bad \in Crons
    /\ NoCollection \notin Collections
    /\ ScheduleEvents \subseteq {"crash", "restart"}
    /\ MaxScheduleEvents \in Nat /\ MaxLaunches \in Nat

VARIABLES
    file,       \* what schedules.json says: a schedule for each of some ids
    torn,       \* schedules.json is cut off and does not parse
    jobs,       \* the APScheduler jobs: a cron expression for each of some ids
    up,         \* the service runs
    made,       \* ids ever given to a schedule
    dropped,    \* ids somebody deleted (history)
    launched,   \* the crawls fired and still running: schedule and options
    scheduleEvents

scheduleVars == <<file, torn, jobs, up, made, dropped, launched, scheduleEvents>>

Schedule == [cron : Crons, enabled : BOOLEAN, start_url : Sites,
             collection : Collections \cup {NoCollection}]

\* Finite maps with domain a subset of Ids.
Maps(R) == UNION {[S -> R] : S \in SUBSET Ids}
With(f, i, x) == [j \in DOMAIN f \cup {i} |-> IF j = i THEN x ELSE f[j]]
Without(f, i) == [j \in DOMAIN f \ {i} |-> f[j]]
Nothing == [i \in {} |-> i]

ScheduleTypeOK ==
    /\ file \in Maps(Schedule)
    /\ torn \in BOOLEAN /\ up \in BOOLEAN
    /\ jobs \in Maps(Crons \ {Bad})
    /\ made \subseteq Ids /\ dropped \subseteq made
    /\ \A l \in launched : l.id \in made
    /\ scheduleEvents \in 0..MaxScheduleEvents

ScheduleInit ==
    /\ file = Nothing /\ torn = FALSE
    /\ jobs = Nothing
    /\ up = TRUE
    /\ made = {} /\ dropped = {}
    /\ launched = {}
    /\ scheduleEvents = 0

ScheduleEvent(e) ==
    /\ e \in ScheduleEvents
    /\ scheduleEvents < MaxScheduleEvents
    /\ scheduleEvents' = scheduleEvents + 1

-----------------------------------------------------------------------------
\* _load: what does not parse is an empty list.
Loaded == IF torn THEN Nothing ELSE file

_save(new) == file' = new /\ torn' = FALSE

\* Mutant: the old job is not removed first.
MutReregistered(js, i, s) ==
    IF s.enabled /\ s.cron # Bad THEN With(js, i, s.cron) ELSE js

\* A job for an enabled schedule, if its cron expression can be parsed.
Registered(js, i, s) ==
    IF s.enabled /\ s.cron # Bad THEN With(js, i, s.cron) ELSE js

Reregistered(js, i, s) == Registered(Without(js, i), i, s)

\* POST /schedules.
CreateSchedule(i) ==
    /\ up /\ i \notin made
    /\ made' = made \cup {i}
    /\ \E s \in Schedule :
          /\ _save(With(Loaded, i, s))
          /\ jobs' = Registered(jobs, i, s)
    /\ UNCHANGED <<up, dropped, launched, scheduleEvents>>

\* PATCH /schedules/{id}: its cron expression, or whether it is enabled.
UpdateSchedule(i) ==
    /\ up /\ i \in DOMAIN Loaded
    /\ \E s \in {[Loaded[i] EXCEPT !.cron = c] : c \in Crons}
                \cup {[Loaded[i] EXCEPT !.enabled = e] : e \in BOOLEAN} :
          /\ _save(With(Loaded, i, s))
          /\ jobs' = Reregistered(jobs, i, s)
    /\ UNCHANGED <<up, made, dropped, launched, scheduleEvents>>

\* Mutant: the job outlives its schedule.
MutDeleteSchedule(i) ==
    /\ up /\ i \in DOMAIN Loaded
    /\ _save(Without(Loaded, i))
    /\ dropped' = dropped \cup {i}
    /\ UNCHANGED <<jobs, up, made, launched, scheduleEvents>>

\* DELETE /schedules/{id}.
DeleteSchedule(i) ==
    /\ up /\ i \in DOMAIN Loaded
    /\ _save(Without(Loaded, i))
    /\ jobs' = Without(jobs, i)
    /\ dropped' = dropped \cup {i}
    /\ UNCHANGED <<up, made, launched, scheduleEvents>>

-----------------------------------------------------------------------------
(* What a crawl is given.                                                  *)

\* _fire_crawl leaves use_product_url_map to the default of SimpleWebCrawler.
ScheduledOptions(s) ==
    [start_url |-> s.start_url, collection |-> s.collection, product_map |-> TRUE]

FreeNumber == CHOOSE n \in 1..MaxLaunches : \A l \in launched : l.n # n

\* The job runs: it reads the file again, starts a crawl whether or not the
\* last one is over, and writes the file back with new timestamps.
Fire(i) ==
    /\ up /\ i \in DOMAIN jobs
    /\ IF i \in DOMAIN Loaded /\ Loaded[i].enabled
       THEN /\ Cardinality(launched) < MaxLaunches
            /\ launched' = launched \cup
                  {[id |-> i, n |-> FreeNumber, options |-> ScheduledOptions(Loaded[i])]}
            /\ _save(Loaded)
       ELSE UNCHANGED <<file, torn, launched>>
    /\ UNCHANGED <<jobs, up, made, dropped, scheduleEvents>>

CrawlOver ==
    /\ up
    /\ \E l \in launched : launched' = launched \ {l}
    /\ UNCHANGED <<file, torn, jobs, up, made, dropped, scheduleEvents>>

-----------------------------------------------------------------------------
\* The pod stops between two operations.
Stop ==
    /\ up
    /\ ScheduleEvent("restart")
    /\ up' = FALSE
    /\ jobs' = Nothing /\ launched' = {}
    /\ UNCHANGED <<file, torn, made, dropped>>

\* The pod is killed while an operation rewrites a file that has schedules.
Crash ==
    /\ up
    /\ DOMAIN Loaded # {}
    /\ ScheduleEvent("crash")
    /\ up' = FALSE
    /\ torn' = TRUE
    /\ jobs' = Nothing /\ launched' = {}
    /\ UNCHANGED <<file, made, dropped>>

\* Mutant: the flag and the expression are not looked at.
MutStart ==
    /\ ~up
    /\ up' = TRUE
    /\ jobs' = [i \in DOMAIN Loaded |-> Loaded[i].cron]
    /\ UNCHANGED <<file, torn, made, dropped, launched, scheduleEvents>>

\* start(): a job for every enabled schedule of the file.
Start ==
    /\ ~up
    /\ up' = TRUE
    /\ jobs' = [i \in {i \in DOMAIN Loaded : Loaded[i].enabled /\ Loaded[i].cron # Bad}
                   |-> Loaded[i].cron]
    /\ UNCHANGED <<file, torn, made, dropped, launched, scheduleEvents>>

ScheduleNext ==
    \/ \E i \in Ids : CreateSchedule(i) \/ UpdateSchedule(i) \/ DeleteSchedule(i)
                      \/ Fire(i)
    \/ CrawlOver \/ Stop \/ Crash \/ Start

ScheduleSpec == ScheduleInit /\ [][ScheduleNext]_scheduleVars

-----------------------------------------------------------------------------
(* Properties.                                                             *)

\* After every operation, and after a restart, the jobs are those of the
\* enabled schedules of the file whose cron expression can be parsed, at the
\* file's expression: no job of a schedule that was deleted or disabled.
JobsMatchFile ==
    up /\ ~torn =>
        jobs = [i \in {i \in DOMAIN file : file[i].enabled /\ file[i].cron # Bad}
                   |-> file[i].cron]

\* A schedule that was deleted is in neither place and never comes back, by a
\* restart or by an operation that writes the file it has read.
DeletedStaysDeleted == dropped \cap (DOMAIN Loaded \cup DOMAIN jobs) = {}

\* The invariants above at once.
ScheduleSafety == ScheduleTypeOK /\ JobsMatchFile /\ DeletedStaysDeleted
=============================================================================
