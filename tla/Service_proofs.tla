--------------------------- MODULE Service_proofs ---------------------------
(* The jobs follow the file, a deleted schedule stays deleted, and what    *)
(* clients are told of a task and a cancel request does, for any number of *)
(* schedules and tasks, of outages, restarts, kills and expiries.          *)
EXTENDS Scheduler, TaskHandler, TLAPS

-----------------------------------------------------------------------------
(* Schedules.                                                              *)

\* Finite maps by what they are, without the union over their domains.
LEMMA MapsDef ==
  ASSUME NEW R, NEW f
  PROVE  f \in Maps(R) <=> DOMAIN f \subseteq Ids /\ f \in [DOMAIN f -> R]
BY DEF Maps

\* The jobs that a list of schedules calls for (start).
JobsOf(f) ==
    [i \in {i \in DOMAIN f : f[i].enabled /\ f[i].cron # Bad} |-> f[i].cron]

\* A torn file is read as an empty one, and the jobs are those of what is read
\* until the service stops; a schedule is known only if it was made and not
\* deleted since.
ScheduleInv ==
    /\ file \in Maps(Schedule)
    /\ torn \in BOOLEAN /\ up \in BOOLEAN
    /\ up => jobs = JobsOf(Loaded)
    /\ ~up => jobs = Nothing
    /\ dropped \subseteq made
    /\ DOMAIN Loaded \subseteq made
    /\ dropped \cap DOMAIN Loaded = {}

LEMMA WithTyped ==
  ASSUME NEW R, NEW f \in Maps(R), NEW i \in Ids, NEW x \in R
  PROVE  With(f, i, x) \in Maps(R) /\ DOMAIN With(f, i, x) = DOMAIN f \cup {i}
BY MapsDef DEF With

LEMMA WithoutTyped ==
  ASSUME NEW R, NEW f \in Maps(R), NEW i \in Ids
  PROVE  Without(f, i) \in Maps(R) /\ DOMAIN Without(f, i) = DOMAIN f \ {i}
BY MapsDef DEF Without

\* What _load returns is a list of schedules.
LEMMA LoadedTyped ==
  ASSUME ScheduleInv
  PROVE  Loaded \in Maps(Schedule)
<1>1. Nothing \in Maps(Schedule)
  BY MapsDef DEF Nothing
<1> QED
  BY <1>1 DEF Loaded, ScheduleInv

\* What an operation that changes one schedule writes.
LEMMA LoadedWith ==
  ASSUME Loaded \in Maps(Schedule), NEW i \in Ids, NEW s \in Schedule
  PROVE  With(Loaded, i, s) \in Maps(Schedule) /\ DOMAIN With(Loaded, i, s) = DOMAIN Loaded \cup {i}
BY MapsDef DEF With

\* Registering the job of a schedule makes the jobs those of the new list.
LEMMA JobsOfWith ==
  ASSUME NEW f \in Maps(Schedule), NEW i \in Ids, NEW s \in Schedule
  PROVE  Reregistered(JobsOf(f), i, s) = JobsOf(With(f, i, s))
<1> DEFINE g == With(f, i, s)
           J == JobsOf(f)
<1>1. /\ DOMAIN g = DOMAIN f \cup {i} /\ g[i] = s
      /\ \A j \in DOMAIN f \ {i} : g[j] = f[j]
  BY DEF With
<1>2. /\ DOMAIN J = {j \in DOMAIN f : f[j].enabled /\ f[j].cron # Bad}
      /\ \A j \in DOMAIN J : J[j] = f[j].cron
  BY DEF JobsOf
<1>3. /\ DOMAIN JobsOf(g) = {j \in DOMAIN g : g[j].enabled /\ g[j].cron # Bad}
      /\ \A j \in DOMAIN JobsOf(g) : JobsOf(g)[j] = g[j].cron
  BY DEF JobsOf
<1>4. /\ DOMAIN Without(J, i) = DOMAIN J \ {i}
      /\ \A j \in DOMAIN J \ {i} : Without(J, i)[j] = J[j]
  BY DEF Without
<1> DEFINE K == Without(J, i)
<1> HIDE DEF g, J, K
<1>5. CASE s.enabled /\ s.cron # Bad
  <2>1. Reregistered(J, i, s) = [j \in DOMAIN K \cup {i} |-> IF j = i THEN s.cron ELSE K[j]]
    BY <1>5 DEF Reregistered, Registered, With, K
  <2>2. DOMAIN JobsOf(g) = DOMAIN K \cup {i}
    BY <1>1, <1>2, <1>3, <1>4, <1>5 DEF K
  <2>3. \A j \in DOMAIN JobsOf(g) : JobsOf(g)[j] = IF j = i THEN s.cron ELSE K[j]
    BY <1>1, <1>2, <1>3, <1>4, <2>2 DEF K
  <2>4. JobsOf(g) = [j \in DOMAIN JobsOf(g) |-> JobsOf(g)[j]]
    BY DEF JobsOf
  <2> QED
    BY <2>1, <2>2, <2>3, <2>4 DEF g, J
<1>6. CASE ~(s.enabled /\ s.cron # Bad)
  <2>1. Reregistered(J, i, s) = [j \in DOMAIN J \ {i} |-> J[j]]
    BY <1>6 DEF Reregistered, Registered, Without
  <2>2. DOMAIN JobsOf(g) = DOMAIN J \ {i}
    BY <1>1, <1>2, <1>3, <1>6
  <2>3. \A j \in DOMAIN JobsOf(g) : JobsOf(g)[j] = J[j]
    BY <1>1, <1>2, <1>3, <2>2
  <2>4. JobsOf(g) = [j \in DOMAIN JobsOf(g) |-> JobsOf(g)[j]]
    BY DEF JobsOf
  <2> QED
    BY <2>1, <2>2, <2>3, <2>4 DEF g, J
<1> QED
  BY <1>5, <1>6

LEMMA JobsOfWithout ==
  ASSUME NEW f, NEW i
  PROVE  Without(JobsOf(f), i) = JobsOf(Without(f, i))
<1>1. /\ DOMAIN JobsOf(f) = {j \in DOMAIN f : f[j].enabled /\ f[j].cron # Bad}
      /\ \A j \in DOMAIN JobsOf(f) : JobsOf(f)[j] = f[j].cron
  BY DEF JobsOf
<1>2. DOMAIN Without(f, i) = DOMAIN f \ {i} /\ \A j \in DOMAIN f \ {i} : Without(f, i)[j] = f[j]
  BY DEF Without
<1> DEFINE g == Without(f, i)
<1> HIDE DEF g
<1>3. JobsOf(g) = [j \in {j \in DOMAIN g : g[j].enabled /\ g[j].cron # Bad} |-> g[j].cron]
  BY DEF JobsOf
<1>4. {j \in DOMAIN g : g[j].enabled /\ g[j].cron # Bad} = DOMAIN JobsOf(f) \ {i}
  BY <1>1, <1>2 DEF g
<1>5. \A j \in DOMAIN JobsOf(f) \ {i} : g[j].cron = JobsOf(f)[j]
  BY <1>1, <1>2 DEF g
<1>6. JobsOf(g) = [j \in DOMAIN JobsOf(f) \ {i} |-> JobsOf(f)[j]]
  BY <1>3, <1>4, <1>5
<1> QED
  BY <1>6 DEF Without, g

LEMMA ScheduleInitInv == ScheduleInit => ScheduleInv
<1> SUFFICES ASSUME ScheduleInit PROVE ScheduleInv
  OBVIOUS
<1>1. Nothing \in Maps(Schedule) /\ DOMAIN Nothing = {}
  BY MapsDef DEF Nothing
<1>2. JobsOf(Nothing) = Nothing
  BY <1>1 DEF JobsOf, Nothing
<1>3. Loaded = Nothing
  BY DEF ScheduleInit, Loaded
<1> QED
  BY <1>1, <1>2, <1>3 DEF ScheduleInit, ScheduleInv

\* Every operation, the firing of a job, a restart and a kill keep it.
LEMMA ScheduleStepInv == ScheduleInv /\ [ScheduleNext]_scheduleVars => ScheduleInv'
<1> SUFFICES ASSUME ScheduleInv, [ScheduleNext]_scheduleVars PROVE ScheduleInv'
  OBVIOUS
<1>0. Nothing \in Maps(Schedule) /\ DOMAIN Nothing = {} /\ JobsOf(Nothing) = Nothing
  BY MapsDef DEF Nothing, JobsOf
<1>1. Loaded \in Maps(Schedule)
  BY LoadedTyped
<1>2. /\ file \in Maps(Schedule) /\ torn \in BOOLEAN /\ up \in BOOLEAN
      /\ up => jobs = JobsOf(Loaded) /\ (~up => jobs = Nothing)
      /\ dropped \subseteq made /\ DOMAIN Loaded \subseteq made
      /\ dropped \cap DOMAIN Loaded = {}
  BY DEF ScheduleInv
<1>3. ASSUME NEW new \in Maps(Schedule), _save(new), up, up' = up,
             jobs' = JobsOf(new), DOMAIN new \subseteq made', dropped' \subseteq made',
             dropped' \cap DOMAIN new = {}
      PROVE  ScheduleInv'
  <2>1. file' = new /\ torn' = FALSE /\ Loaded' = new
    BY <1>3 DEF _save, Loaded
  <2> QED
    BY <1>2, <1>3, <2>1 DEF ScheduleInv
<1>4. ASSUME NEW i \in Ids, CreateSchedule(i) PROVE ScheduleInv'
  <2>1. PICK s \in Schedule : _save(With(Loaded, i, s)) /\ jobs' = Registered(jobs, i, s)
    BY <1>4 DEF CreateSchedule
  <2>2. up /\ up' = up /\ i \notin made /\ made' = made \cup {i} /\ dropped' = dropped
    BY <1>4 DEF CreateSchedule
  <2>3. With(Loaded, i, s) \in Maps(Schedule)
        /\ DOMAIN With(Loaded, i, s) = DOMAIN Loaded \cup {i}
    BY <1>1, LoadedWith
  <2>4. Without(jobs, i) = jobs
    <3>1. jobs = JobsOf(Loaded) /\ i \notin DOMAIN Loaded
      BY <1>2, <2>2
    <3>2. i \notin DOMAIN JobsOf(Loaded)
          /\ JobsOf(Loaded) = [j \in DOMAIN JobsOf(Loaded) |-> JobsOf(Loaded)[j]]
      BY <3>1 DEF JobsOf
    <3>3. DOMAIN JobsOf(Loaded) \ {i} = DOMAIN JobsOf(Loaded)
      BY <3>2
    <3> QED
      BY <3>1, <3>2, <3>3 DEF Without
  <2>5. jobs' = JobsOf(With(Loaded, i, s))
    BY <1>1, <1>2, <2>1, <2>2, <2>4, JobsOfWith DEF Reregistered
  <2> QED
    BY <1>2, <1>3, <2>1, <2>2, <2>3, <2>5
<1>5. ASSUME NEW i \in Ids, UpdateSchedule(i) PROVE ScheduleInv'
  <2>1. up /\ up' = up /\ i \in DOMAIN Loaded /\ made' = made /\ dropped' = dropped
    BY <1>5 DEF UpdateSchedule
  <2>2. Loaded[i] \in Schedule
    BY <1>1, <2>1, MapsDef
  <2>3. PICK s \in Schedule :
          _save(With(Loaded, i, s)) /\ jobs' = Reregistered(jobs, i, s)
    BY <1>5, <2>2 DEF UpdateSchedule, Schedule
  <2>4. With(Loaded, i, s) \in Maps(Schedule)
        /\ DOMAIN With(Loaded, i, s) = DOMAIN Loaded \cup {i}
    BY <1>1, LoadedWith
  <2>5. jobs' = JobsOf(With(Loaded, i, s))
    BY <1>1, <1>2, <2>1, <2>3, JobsOfWith
  <2>6. DOMAIN With(Loaded, i, s) = DOMAIN Loaded
    BY <2>1, <2>4
  <2> QED
    BY <1>2, <1>3, <2>1, <2>3, <2>4, <2>5, <2>6
<1>6. ASSUME NEW i \in Ids, DeleteSchedule(i) PROVE ScheduleInv'
  <2>1. /\ up /\ up' = up /\ i \in DOMAIN Loaded /\ made' = made
        /\ dropped' = dropped \cup {i} /\ _save(Without(Loaded, i))
        /\ jobs' = Without(jobs, i)
    BY <1>6 DEF DeleteSchedule
  <2>2. Without(Loaded, i) \in Maps(Schedule)
        /\ DOMAIN Without(Loaded, i) = DOMAIN Loaded \ {i}
    BY <1>1, WithoutTyped
  <2>3. jobs' = JobsOf(Without(Loaded, i))
    BY <1>2, <2>1, JobsOfWithout
  <2> QED
    BY <1>2, <1>3, <2>1, <2>2, <2>3
<1>7. ASSUME NEW i \in Ids, Fire(i) PROVE ScheduleInv'
  <2>1. up /\ up' = up /\ jobs' = jobs /\ made' = made /\ dropped' = dropped
    BY <1>7 DEF Fire
  <2>2. CASE _save(Loaded)
    BY <1>1, <1>2, <1>3, <2>1, <2>2
  <2>3. CASE UNCHANGED <<file, torn>>
    BY <2>1, <2>3 DEF ScheduleInv, Loaded
  <2> QED
    BY <1>7, <2>2, <2>3 DEF Fire
<1>8. CASE CrawlOver
  BY <1>8 DEF CrawlOver, ScheduleInv, Loaded
<1>9. CASE Stop
  BY <1>9 DEF Stop, ScheduleInv, Loaded
<1>10. CASE Crash
  <2>1. Loaded' = Nothing
    BY <1>10 DEF Crash, Loaded
  <2> QED
    BY <1>0, <1>2, <1>10, <2>1 DEF Crash, ScheduleInv
<1>11. CASE Start
  <2>1. Loaded' = Loaded /\ jobs' = JobsOf(Loaded)
    BY <1>11 DEF Start, Loaded, JobsOf
  <2>2. torn => Loaded = Nothing
    BY DEF Loaded
  <2> QED
    BY <1>0, <1>2, <1>11, <2>1, <2>2 DEF Start, ScheduleInv
<1>12. CASE UNCHANGED scheduleVars
  BY <1>12 DEF scheduleVars, ScheduleInv, Loaded
<1> QED
  BY <1>4, <1>5, <1>6, <1>7, <1>8, <1>9, <1>10, <1>11, <1>12 DEF ScheduleNext

LEMMA ScheduleInductive == ScheduleSpec => []ScheduleInv
BY ScheduleInitInv, ScheduleStepInv, PTL DEF ScheduleSpec

\* Whatever the operations, restarts and kills, while the service runs its jobs
\* are those of the schedules in the file.
THEOREM JobsFollowFile == ScheduleSpec => []JobsMatchFile
<1>1. ScheduleInv => JobsMatchFile
  BY DEF ScheduleInv, JobsMatchFile, JobsOf, Loaded
<1> QED
  BY <1>1, ScheduleInductive, PTL

\* Nothing brings a deleted schedule back, neither the file nor the jobs.
THEOREM DeletedForGood == ScheduleSpec => []DeletedStaysDeleted
<1>1. ScheduleInv => DeletedStaysDeleted
  <2>1. ASSUME ScheduleInv PROVE DOMAIN jobs \subseteq DOMAIN Loaded
    <3>1. DOMAIN Nothing = {}
      BY DEF Nothing
    <3>2. DOMAIN JobsOf(Loaded) \subseteq DOMAIN Loaded
      BY DEF JobsOf
    <3> QED
      BY <2>1, <3>1, <3>2 DEF ScheduleInv
  <2> QED
    BY <2>1 DEF ScheduleInv, DeletedStaysDeleted
<1> QED
  BY <1>1, ScheduleInductive, PTL

\* What TypeOK says beyond IInv.
Counted ==
    /\ made \subseteq Ids /\ scheduleEvents \in 0..MaxScheduleEvents
    /\ \A l \in launched : l.id \in made

LEMMA CountedStep == ScheduleInv /\ Counted /\ [ScheduleNext]_scheduleVars => Counted'
<1> SUFFICES ASSUME ScheduleInv, Counted, [ScheduleNext]_scheduleVars PROVE Counted'
  OBVIOUS
<1> USE DEF Counted
<1>1. ASSUME NEW i \in Ids, CreateSchedule(i) \/ UpdateSchedule(i) \/ DeleteSchedule(i) PROVE Counted'
  BY <1>1 DEF CreateSchedule, UpdateSchedule, DeleteSchedule
<1>2. ASSUME NEW i \in Ids, Fire(i) PROVE Counted'
  <2>1. made' = made /\ scheduleEvents' = scheduleEvents
    BY <1>2 DEF Fire
  <2>2. launched' = launched
        \/ /\ i \in DOMAIN Loaded
           /\ \A l \in launched' : l \in launched \/ l.id = i
    BY <1>2 DEF Fire
  <2> QED
    BY <2>1, <2>2 DEF ScheduleInv
<1>3. CASE CrawlOver
  BY <1>3 DEF CrawlOver
<1>4. CASE Stop \/ Crash
  BY <1>4, ScheduleAssumption DEF Stop, Crash, ScheduleEvent
<1>5. CASE Start \/ UNCHANGED scheduleVars
  BY <1>5 DEF Start, scheduleVars
<1> QED
  BY <1>1, <1>2, <1>3, <1>4, <1>5 DEF ScheduleNext

\* The type invariant and the two facts above, which the run checks at once.
THEOREM SchedulesSafe == ScheduleSpec => []ScheduleSafety
<1>1. ScheduleInit => Counted
  BY ScheduleAssumption DEF ScheduleInit, Counted
<1>2. ScheduleInv /\ Counted => ScheduleTypeOK
  <2> SUFFICES ASSUME ScheduleInv, Counted PROVE ScheduleTypeOK
    OBVIOUS
  <2>1. jobs \in Maps(Crons \ {Bad})
    <3>1. Loaded \in Maps(Schedule)
      BY LoadedTyped
    <3>2. CASE up
      <4>1. jobs = JobsOf(Loaded)
        BY <3>2 DEF ScheduleInv
      <4>2. DOMAIN Loaded \subseteq Ids /\ \A i \in DOMAIN Loaded : Loaded[i] \in Schedule
        BY <3>1, MapsDef
      <4>3. /\ DOMAIN JobsOf(Loaded) \subseteq Ids
            /\ JobsOf(Loaded) \in [DOMAIN JobsOf(Loaded) -> Crons \ {Bad}]
        BY <4>2 DEF JobsOf, Schedule
      <4> QED
        BY <4>1, <4>3, MapsDef
    <3>3. CASE ~up
      <4>1. jobs = Nothing
        BY <3>3 DEF ScheduleInv
      <4> QED
        BY <4>1, MapsDef DEF Nothing
    <3> QED
      BY <3>2, <3>3
  <2> QED
    BY <2>1 DEF ScheduleInv, Counted, ScheduleTypeOK
<1> QED
  BY <1>1, <1>2, CountedStep, ScheduleInductive, JobsFollowFile, DeletedForGood, PTL DEF ScheduleSpec, ScheduleSafety

-----------------------------------------------------------------------------
(* Tasks and cancel requests.                                              *)

\* Only a crawl is ever at the head of the BFS loop.
OnlyCrawlsCheck == \A t \in IngestTasks : job[t] # "check"

\* NoEarlyEnd for both homes at a time: which of them answers may change.
OverInNoHome ==
    \A t \in Tasks : redis[t] \in Terminal \/ mem[t] \in Terminal => job[t] = "ended"

\* A signal, in either home, is somebody's accepted request.
SignalsAccepted == redisCancel \cup memCancel \cup stopped \subseteq accepted

\* As long as Redis answers and keeps the records, they are all there.
AllInRedis ==
    ~degraded =>
       /\ redisUp
       /\ \A t \in Tasks : mem[t] = None
       /\ \A t \in CrawlTasks :
             /\ Alive(t) => redis[t] = "PENDING"
             /\ job[t] = "ended" => redis[t] \in Terminal

IInv == TypeOK /\ OnlyCrawlsCheck /\ OverInNoHome /\ SignalsAccepted /\ AllInRedis

LEMMA EventTyped ==
  ASSUME TypeOK, NEW e, Event(e)
  PROVE  events' \in 0..MaxEvents
BY TaskAssumption DEF TypeOK, Event

LEMMA InitInv == Init => IInv
<1> SUFFICES ASSUME Init PROVE IInv
  OBVIOUS
<1> USE TaskAssumption DEF Init, Tasks, Jobs, Alive, States, Terminal
<1>1. redisUp \in BOOLEAN /\ degraded \in BOOLEAN /\ (~degraded => redisUp)
  OBVIOUS
<1>2. TypeOK
  BY <1>1 DEF TypeOK
<1>3. OnlyCrawlsCheck /\ OverInNoHome /\ SignalsAccepted
  BY DEF OnlyCrawlsCheck, OverInNoHome, SignalsAccepted
<1>4. AllInRedis
  BY <1>1 DEF AllInRedis
<1> QED
  BY <1>2, <1>3, <1>4 DEF IInv

\* Every step of a task, of a client and of the environment keeps IInv.
LEMMA StepInv == IInv /\ [Next]_vars => IInv'
<1> SUFFICES ASSUME IInv, [Next]_vars PROVE IInv'
  OBVIOUS
<1> USE TaskAssumption DEF IInv, TypeOK, OnlyCrawlsCheck, OverInNoHome,
    SignalsAccepted, AllInRedis, Tasks, Jobs, Alive, States, Terminal, history,
    signals, store
<1>1. ASSUME NEW t \in Tasks, StartTask(t) PROVE IInv'
  BY <1>1 DEF StartTask, set_task
<1>2. ASSUME NEW t \in Tasks, CancelTask(t) PROVE IInv'
  BY <1>2 DEF CancelTask, request_cancel
<1>3. ASSUME NEW t \in Tasks, BeginCrawl(t) PROVE IInv'
  BY <1>3 DEF BeginCrawl, clear_cancel
<1>4. ASSUME NEW t \in Tasks, CheckCancel(t) PROVE IInv'
  BY <1>4 DEF CheckCancel, is_cancel_requested
<1>5. ASSUME NEW t \in Tasks, EndRound(t) PROVE IInv'
  BY <1>5 DEF EndRound
<1>6. ASSUME NEW t \in Tasks, RunOut(t) PROVE IInv'
  BY <1>6 DEF RunOut
<1>7. ASSUME NEW t \in Tasks, FinishTask(t) PROVE IInv'
  BY <1>7 DEF FinishTask, set_task
<1>8. ASSUME NEW t \in Tasks, Raise(t) PROVE IInv'
  <2>1. events' \in 0..MaxEvents
    BY <1>8, EventTyped DEF Raise
  <2> QED
    BY <1>8, <2>1 DEF Raise, set_task
<1>9. ASSUME NEW t \in Tasks, BeginIngest(t) PROVE IInv'
  BY <1>9 DEF BeginIngest
<1>10. ASSUME NEW t \in Tasks, EndIngest(t) PROVE IInv'
  BY <1>10 DEF EndIngest
<1>11. ASSUME NEW t \in Tasks, Expire(t) PROVE IInv'
  <2>1. events' \in 0..MaxEvents
    BY <1>11, EventTyped DEF Expire
  <2> QED
    BY <1>11, <2>1 DEF Expire
<1>12. CASE Outage
  <2>1. events' \in 0..MaxEvents
    BY <1>12, EventTyped DEF Outage
  <2> QED
    BY <1>12, <2>1 DEF Outage
<1>13. CASE Recover
  BY <1>13 DEF Recover
<1>14. CASE Restart
  <2>1. events' \in 0..MaxEvents
    BY <1>14, EventTyped DEF Restart
  <2> QED
    BY <1>14, <2>1 DEF Restart
<1>15. CASE UNCHANGED vars
  BY <1>15 DEF vars
<1> QED
  BY <1>1, <1>2, <1>3, <1>4, <1>5, <1>6, <1>7, <1>8, <1>9, <1>10, <1>11,
     <1>12, <1>13, <1>14, <1>15 DEF Next, Work

LEMMA Inductive == Spec => []IInv
BY InitInv, StepInv, PTL DEF Spec

\* Whatever Redis and the pod do, a task whose coroutine may still write is
\* never reported as over.
THEOREM NeverEarly == Spec => []NoEarlyEnd
<1>1. IInv => NoEarlyEnd
  BY DEF IInv, NoEarlyEnd, OverInNoHome, get_task
<1> QED
  BY <1>1, Inductive, PTL

\* Whatever Redis and the pod do, no crawl stops for a request that was meant
\* for another task, or that nobody made.
THEOREM StopsOnlyOnRequest == Spec => []StopsOnRequest
<1>1. IInv => StopsOnRequest
  BY DEF IInv, StopsOnRequest, SignalsAccepted
<1> QED
  BY <1>1, Inductive, PTL

\* As long as Redis answers and keeps the records, GET /status follows the
\* coroutine of a crawl.
THEOREM RecordFollows == Spec => []RecordFollowsJob
<1>1. IInv => RecordFollowsJob
  BY TaskAssumption DEF IInv, RecordFollowsJob, AllInRedis, get_task, Tasks, States, Terminal
<1> QED
  BY <1>1, Inductive, PTL

\* The type invariant and the three facts above, which the runs check at once.
THEOREM SafetyHolds == Spec => []Safety
<1>1. IInv => TypeOK
  BY DEF IInv
<1> QED
  BY <1>1, Inductive, NeverEarly, StopsOnlyOnRequest, RecordFollows, PTL DEF Safety

\* As long, an answer survives restarts, and the answer that a task is over is
\* final.
THEOREM AnswersStay == Spec => AnswersSurvive
<1> DEFINE Stays == \A t \in Tasks :
              get_task(t) \in States /\ (job'[t] = "killed" \/ get_task(t) \in Terminal)
                 => get_task(t)' = get_task(t)
<1>1. IInv /\ [Next]_vars => [~degraded' => Stays]_vars
  <2> SUFFICES ASSUME IInv, Next, ~degraded', NEW t \in Tasks,
                      get_task(t) \in States,
                      job'[t] = "killed" \/ get_task(t) \in Terminal
               PROVE  get_task(t)' = get_task(t)
    OBVIOUS
  <2>1. ~degraded /\ redisUp /\ redisUp'
    BY DEF IInv, AllInRedis, Next, Work, StartTask, CancelTask, BeginCrawl,
       CheckCancel, EndRound, RunOut, FinishTask, Raise, BeginIngest, EndIngest,
       Expire, Outage, Recover, Restart, history
  <2>2. mem[t] = None /\ redis[t] = get_task(t)
    BY <2>1, TaskAssumption DEF IInv, AllInRedis, get_task
  <2>3. redis'[t] = redis[t]
    <3> USE <2>1, <2>2, TaskAssumption
        DEF IInv, TypeOK, OverInNoHome, set_task, store, Tasks, States, Terminal
    <3>1. ASSUME NEW s \in Tasks, StartTask(s) PROVE redis'[t] = redis[t]
      BY <3>1 DEF StartTask, Jobs
    <3>2. ASSUME NEW s \in Tasks, FinishTask(s) PROVE redis'[t] = redis[t]
      BY <3>2 DEF FinishTask, Jobs
    <3>3. ASSUME NEW s \in Tasks, Raise(s) PROVE redis'[t] = redis[t]
      BY <3>3 DEF Raise, Jobs
    <3>4. ASSUME NEW s \in Tasks,
                 \/ CancelTask(s) \/ BeginCrawl(s) \/ CheckCancel(s) \/ EndRound(s)
                 \/ RunOut(s) \/ BeginIngest(s) \/ EndIngest(s)
          PROVE redis'[t] = redis[t]
      BY <3>4 DEF CancelTask, BeginCrawl, CheckCancel, EndRound, RunOut,
         BeginIngest, EndIngest
    <3>5. ASSUME NEW s \in Tasks, Expire(s) PROVE redis'[t] = redis[t]
      BY <3>5 DEF Expire
    <3>6. CASE Outage \/ Recover \/ Restart
      BY <3>6 DEF Outage, Recover, Restart
    <3> QED
      BY <3>1, <3>2, <3>3, <3>4, <3>5, <3>6 DEF Next, Work
  <2> QED
    BY <2>1, <2>2, <2>3, TaskAssumption DEF get_task
<1> QED
  BY <1>1, Inductive, PTL DEF AnswersSurvive, Spec
=============================================================================
