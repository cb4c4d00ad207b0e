----------------------------- MODULE TaskHandler -----------------------------
(***************************************************************************)
(* The life of a task of external/rag-crawler, as the service runs it      *)
(* (server.py) and as its clients see it (task_handler.py).                *)
(*                                                                         *)
(* Every record of a task, its state and its cancel signal, has two homes: *)
(* Redis, and a dictionary of the process that is used whenever Redis does *)
(* not answer.  Nothing moves from one to the other.  The task itself is a *)
(* coroutine of the process; a restart of the pod ends it and empties the  *)
(* dictionary.                                                             *)
(***************************************************************************)
EXTENDS Naturals

CONSTANTS
    CrawlTasks,     \* tasks made by POST /crawl (or by a schedule)
    IngestTasks,    \* tasks made by POST /ingest-binaries
    None,           \* no record of the task
    RedisEnabled,   \* ENABLE_REDIS_BACKEND
    Events,         \* which of "outage", "restart", "expire", "raise" may happen
    MaxEvents       \* how many of them (a bound of the model)

Tasks == CrawlTasks \cup IngestTasks

Terminal == {"FINISHED", "FAILURE", "CANCELLED"}
States == Terminal \cup {"PENDING"}

ASSUME TaskAssumption ==
    /\ CrawlTasks \cap IngestTasks = {}
    /\ None \notin States
    /\ RedisEnabled \in BOOLEAN
    /\ Events \subseteq {"outage", "restart", "expire", "raise"}
    /\ MaxEvents \in Nat

VARIABLES
    redisUp,        \* Redis answers
    redis,          \* crawler:task:<id>
    mem,            \* _MEM_STORE[<id>]
    redisCancel,    \* crawler:cancel:<id> exists
    memCancel,      \* _MEM_STORE["cancel:<id>"]
    job,            \* where the coroutine of the task is
    stopped,        \* crawls that left their loop because of a cancel request
    accepted,       \* tasks with a cancel request answered by 202 (history)
    heard,          \* those whose crawl had begun by then (history)
    degraded,       \* Redis has not always answered and kept all (history)
    events

store == <<redis, mem>>
signals == <<redisCancel, memCancel>>
history == <<accepted, heard, degraded>>
vars == <<redisUp, store, signals, job, stopped, history, events>>

\* spawned: created and not run yet; check: at the head of the BFS loop;
\* work: in a round of the BFS, or in an ingest; over: past the loop;
\* ended: the coroutine returned; killed: the pod restarted under it.
Jobs == {"none", "spawned", "check", "work", "over", "ended", "killed"}
Alive(t) == job[t] \in {"spawned", "check", "work", "over"}

TypeOK ==
    /\ redisUp \in BOOLEAN
    /\ redis \in [Tasks -> States \cup {None}]
    /\ mem \in [Tasks -> States \cup {None}]
    /\ redisCancel \subseteq Tasks /\ memCancel \subseteq Tasks
    /\ job \in [Tasks -> Jobs]
    /\ stopped \subseteq CrawlTasks
    /\ accepted \subseteq Tasks /\ heard \subseteq accepted
    /\ degraded \in BOOLEAN
    /\ events \in 0..MaxEvents

Init ==
    /\ redisUp = RedisEnabled
    /\ redis = [t \in Tasks |-> None] /\ mem = redis
    /\ redisCancel = {} /\ memCancel = {}
    /\ job = [t \in Tasks |-> "none"]
    /\ stopped = {} /\ accepted = {} /\ heard = {}
    /\ degraded = ~RedisEnabled
    /\ events = 0

Event(e) ==
    /\ e \in Events
    /\ events < MaxEvents
    /\ events' = events + 1

-----------------------------------------------------------------------------
(* The operations of task_handler.py: Redis if it answers, otherwise the   *)
(* dictionary.                                                             *)

\* Mutant: the state is only kept in the process.
MutSetTask(t, state) == mem' = [mem EXCEPT ![t] = state] /\ UNCHANGED redis

set_task(t, state) ==
    IF redisUp
    THEN redis' = [redis EXCEPT ![t] = state] /\ UNCHANGED mem
    ELSE mem' = [mem EXCEPT ![t] = state] /\ UNCHANGED redis

\* What GET /status answers; None is 404.
get_task(t) == IF redisUp /\ redis[t] # None THEN redis[t] ELSE mem[t]

request_cancel(t) ==
    IF redisUp
    THEN redisCancel' = redisCancel \cup {t} /\ UNCHANGED memCancel
    ELSE memCancel' = memCancel \cup {t} /\ UNCHANGED redisCancel

\* Mutant: the two homes are mixed up.
MutSwappedSignals(t) == IF redisUp THEN t \in memCancel ELSE t \in redisCancel

\* Mutant: the key lacks the task id.
MutAnySignal(t) == IF redisUp THEN redisCancel # {} ELSE memCancel # {}

is_cancel_requested(t) == IF redisUp THEN t \in redisCancel ELSE t \in memCancel

clear_cancel(t) ==
    /\ redisCancel' = IF redisUp THEN redisCancel \ {t} ELSE redisCancel
    /\ memCancel' = memCancel \ {t}

-----------------------------------------------------------------------------
(* The endpoints.                                                          *)

\* POST /crawl and POST /ingest-binaries: a new id, PENDING, and a coroutine.
StartTask(t) ==
    /\ job[t] = "none"
    /\ job' = [job EXCEPT ![t] = "spawned"]
    /\ set_task(t, "PENDING")
    /\ UNCHANGED <<redisUp, signals, stopped, history, events>>

\* POST /cancel: any known task, running or not.
CancelTask(t) ==
    /\ get_task(t) # None
    /\ request_cancel(t)
    /\ accepted' = accepted \cup {t}
    /\ heard' = IF job[t] \in {"check", "work"} THEN heard \cup {t} ELSE heard
    /\ UNCHANGED <<redisUp, store, job, stopped, degraded, events>>

-----------------------------------------------------------------------------
(* The coroutine of a crawl.                                               *)

\* crawl() clears the signal before it does anything else.
BeginCrawl(t) ==
    /\ t \in CrawlTasks /\ job[t] = "spawned"
    /\ job' = [job EXCEPT ![t] = "check"]
    /\ clear_cancel(t)
    /\ UNCHANGED <<redisUp, store, stopped, history, events>>

\* The head of the loop: stop, or fetch another round.
CheckCancel(t) ==
    /\ job[t] = "check"
    /\ IF is_cancel_requested(t)
       THEN job' = [job EXCEPT ![t] = "over"] /\ stopped' = stopped \cup {t}
       ELSE job' = [job EXCEPT ![t] = "work"] /\ UNCHANGED stopped
    /\ UNCHANGED <<redisUp, store, signals, history, events>>

\* Mutant: the state is set as soon as the coroutine starts to work.
MutEndRound(t) ==
    /\ t \in CrawlTasks /\ job[t] = "work"
    /\ job' = [job EXCEPT ![t] = "check"]
    /\ set_task(t, "FINISHED")
    /\ UNCHANGED <<redisUp, signals, stopped, history, events>>

EndRound(t) ==
    /\ t \in CrawlTasks /\ job[t] = "work"
    /\ job' = [job EXCEPT ![t] = "check"]
    /\ UNCHANGED <<redisUp, store, signals, stopped, history, events>>

\* The queue is empty or the page limit reached.
RunOut(t) ==
    /\ job[t] = "check"
    /\ job' = [job EXCEPT ![t] = "over"]
    /\ UNCHANGED <<redisUp, store, signals, stopped, history, events>>

\* Mutant: a crawl that was cancelled leaves its record as it is.
MutFinishTask(t) ==
    /\ job[t] = "over"
    /\ job' = [job EXCEPT ![t] = "ended"]
    /\ IF t \in stopped THEN UNCHANGED store ELSE set_task(t, "FINISHED")
    /\ UNCHANGED <<redisUp, signals, stopped, history, events>>

\* After the drain: FINISHED, cancelled or not.
FinishTask(t) ==
    /\ job[t] = "over"
    /\ job' = [job EXCEPT ![t] = "ended"]
    /\ set_task(t, "FINISHED")
    /\ UNCHANGED <<redisUp, signals, stopped, history, events>>

\* Mutant: a state nobody knows.
MutRaise(t) ==
    /\ job[t] \in {"check", "work", "over"}
    /\ Event("raise")
    /\ job' = [job EXCEPT ![t] = "ended"]
    /\ set_task(t, "ERROR")
    /\ UNCHANGED <<redisUp, signals, stopped, history>>

\* Mutant: nobody catches the exception.
MutUncaught(t) ==
    /\ job[t] \in {"check", "work", "over"}
    /\ Event("raise")
    /\ job' = [job EXCEPT ![t] = "ended"]
    /\ UNCHANGED <<redisUp, store, signals, stopped, history>>

\* An exception: _run_crawl catches it, _run_ingest_binaries does not.
Raise(t) ==
    /\ job[t] \in {"check", "work", "over"}
    /\ Event("raise")
    /\ job' = [job EXCEPT ![t] = "ended"]
    /\ IF t \in CrawlTasks THEN set_task(t, "FAILURE") ELSE UNCHANGED store
    /\ UNCHANGED <<redisUp, signals, stopped, history>>

\* An ingest never looks at its cancel signal.
BeginIngest(t) ==
    /\ t \in IngestTasks /\ job[t] = "spawned"
    /\ job' = [job EXCEPT ![t] = "work"]
    /\ UNCHANGED <<redisUp, store, signals, stopped, history, events>>

EndIngest(t) ==
    /\ t \in IngestTasks /\ job[t] = "work"
    /\ job' = [job EXCEPT ![t] = "over"]
    /\ UNCHANGED <<redisUp, store, signals, stopped, history, events>>

-----------------------------------------------------------------------------
(* What happens to the service.                                            *)

Outage ==
    /\ redisUp
    /\ Event("outage")
    /\ redisUp' = FALSE
    /\ degraded' = TRUE
    /\ UNCHANGED <<store, signals, job, stopped, accepted, heard>>

Recover ==
    /\ RedisEnabled /\ ~redisUp
    /\ redisUp' = TRUE
    /\ UNCHANGED <<store, signals, job, stopped, history, events>>

Restart ==
    /\ Event("restart")
    /\ mem' = [t \in Tasks |-> None]
    /\ memCancel' = {}
    /\ job' = [t \in Tasks |-> IF Alive(t) THEN "killed" ELSE job[t]]
    /\ UNCHANGED <<redisUp, redis, redisCancel, stopped, history>>

\* The record of a task outlives its last change by REDIS_TTL_SECONDS.
Expire(t) ==
    /\ redis[t] # None
    /\ Event("expire")
    /\ redis' = [redis EXCEPT ![t] = None]
    /\ degraded' = TRUE
    /\ UNCHANGED <<redisUp, mem, signals, job, stopped, accepted, heard>>

Work(t) ==
    \/ BeginCrawl(t) \/ CheckCancel(t) \/ EndRound(t) \/ FinishTask(t)
    \/ BeginIngest(t) \/ EndIngest(t)

Next ==
    \/ \E t \in Tasks : StartTask(t) \/ CancelTask(t) \/ Work(t) \/ RunOut(t)
                        \/ Raise(t) \/ Expire(t)
    \/ Outage \/ Recover \/ Restart

\* The event loop runs every coroutine that can go on.  Whether a crawl runs
\* out of URLs is up to the site.
Spec == Init /\ [][Next]_vars /\ \A t \in Tasks : WF_vars(Work(t))

-----------------------------------------------------------------------------
(* Properties.                                                             *)

\* Whatever fails, nobody is told that a task is over while its own coroutine can
\* still write to the index or to the registry. An embed task that its crawl no
\* longer waits for (CrawlDelta) is not of that coroutine.
NoEarlyEnd == \A t \in Tasks : get_task(t) \in Terminal => job[t] = "ended"

\* Whatever fails, a crawl stops early only if somebody asked for that very
\* task to stop.
StopsOnRequest == stopped \subseteq accepted

\* As long as Redis answers and keeps the records, a restart of the pod changes
\* no answer, and a task that is over is never reported as anything else again.
AnswersSurvive ==
    [][~degraded' => \A t \in Tasks :
          get_task(t) \in States /\ (job'[t] = "killed" \/ get_task(t) \in Terminal)
             => get_task(t)' = get_task(t)]_vars

\* As long, the record of a crawl follows its coroutine: PENDING while it runs,
\* over once it has ended.
RecordFollowsJob ==
    ~degraded =>
       \A t \in CrawlTasks :
          /\ Alive(t) => get_task(t) = "PENDING"
          /\ job[t] = "ended" => get_task(t) \in Terminal

\* The invariants above at once.
Safety == TypeOK /\ NoEarlyEnd /\ StopsOnRequest /\ RecordFollowsJob

\* As long, a cancel request made once the crawl has begun ends it, however
\* large the site.
CancelIsHeard == \A t \in CrawlTasks : t \in heard ~> ~Alive(t) \/ degraded

\* As long, on a finite site (where every crawl runs out of URLs: CrawlEnds of
\* Frontier.tla), a crawl is PENDING until it is over or the pod restarts.
FiniteSite == \A t \in CrawlTasks : SF_vars(RunOut(t))

CrawlReported ==
    FiniteSite => \A t \in CrawlTasks :
        get_task(t) = "PENDING" ~>
            get_task(t) \in Terminal \/ job[t] = "killed" \/ degraded

\* The two above at once.
Liveness == CancelIsHeard /\ CrawlReported
=============================================================================
