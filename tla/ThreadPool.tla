----------------------------- MODULE ThreadPool -----------------------------
(***************************************************************************)
(* core/ThreadPool.h: a queue, a mutex, a condition variable and stop_.    *)
(*                                                                         *)
(* A critical section is one step.  What happens between two of them is    *)
(* not: Enqueue notifies after it has let the mutex go, so does the        *)
(* destructor, a sleeping worker may wake up without a reason, and a       *)
(* running job may itself call Enqueue (as the resume command does).       *)
(***************************************************************************)
EXTENDS Naturals, Sequences, FiniteSets

CONSTANTS
    Workers,   \* workers_
    Clients,   \* other threads that call Enqueue and Submit
    MaxJobs    \* bound: jobs handed to the pool in a behaviour

ASSUME ThreadPoolAssumption ==
    /\ IsFiniteSet(Workers)
    /\ Workers # {}              \* with num_threads = 0 no job ever runs
    /\ IsFiniteSet(Clients)
    /\ Workers \cap Clients = {}
    /\ MaxJobs \in Nat

Jobs == 1 .. MaxJobs
NoJob == 0

VARIABLES
    queue,     \* queue_, as job numbers
    stop,      \* stop_
    sleeping,  \* workers blocked in cv_.wait
    worker,    \* "look": about to take the mutex in WorkerLoop; "wait": in
               \* cv_.wait; "job": executing; "notify": its job called
               \* Enqueue, notify_one is still to come; "gone": returned
    job,       \* the job a worker executes
    client,    \* "idle" or "notify", for each client
    owner,     \* the destructor: "open", "notify", "join", "destroyed"
    made,      \* jobs handed in so far; the last one has this number
    ran,       \* jobs that were executed
    future     \* of each job: "none" (Enqueue), or the future's state

vars == <<queue, stop, sleeping, worker, job, client, owner, made, ran, future>>

FutureStates == {"none", "pending", "value", "exception", "broken"}

TypeOK ==
    /\ queue \in Seq(Jobs)
    /\ stop \in BOOLEAN
    /\ sleeping \in SUBSET Workers
    /\ worker \in [Workers -> {"look", "wait", "job", "notify", "gone"}]
    /\ job \in [Workers -> Jobs \cup {NoJob}]
    /\ client \in [Clients -> {"idle", "notify"}]
    /\ owner \in {"open", "notify", "join", "destroyed"}
    /\ made \in 0 .. MaxJobs
    /\ ran \in SUBSET Jobs
    /\ future \in [Jobs -> FutureStates]

\* The constructor: the threads exist, none has reached the mutex yet.
Init ==
    /\ queue = <<>>
    /\ stop = FALSE
    /\ sleeping = {}
    /\ worker = [w \in Workers |-> "look"]
    /\ job = [w \in Workers |-> NoJob]
    /\ client = [c \in Clients |-> "idle"]
    /\ owner = "open"
    /\ made = 0
    /\ ran = {}
    /\ future = [j \in Jobs |-> "none"]

-----------------------------------------------------------------------------
\* Mutant of Push: the number is taken before it is incremented.
PushBefore(f) ==
    /\ made < MaxJobs
    /\ made' = made + 1
    /\ queue' = IF stop THEN queue ELSE Append(queue, made)
    /\ UNCHANGED future

\* The critical section of Enqueue, for a job whose future starts as f.  A
\* refused job is destroyed on the spot, which breaks the promise of Submit.
Push(f) ==
    /\ made < MaxJobs
    /\ made' = made + 1
    /\ IF stop
       THEN /\ UNCHANGED queue
            /\ future' = [future EXCEPT ![made + 1] =
                              IF f = "none" THEN "none" ELSE "broken"]
       ELSE /\ queue' = Append(queue, made + 1)
            /\ future' = [future EXCEPT ![made + 1] = f]

\* cv_.notify_one: some sleeper wakes up, if there is one.
NotifyOne ==
    \/ /\ sleeping = {}
       /\ UNCHANGED <<sleeping, worker>>
    \/ \E w \in sleeping :
         /\ sleeping' = sleeping \ {w}
         /\ worker' = [worker EXCEPT ![w] = "look"]

\* Enqueue ("none") and Submit ("pending") called by a client.
ClientPush(c) ==
    /\ client[c] = "idle"
    /\ owner = "open"            \* nobody uses an object being destroyed
    /\ \E f \in {"none", "pending"} : Push(f)
    /\ client' = [client EXCEPT ![c] = "notify"]
    /\ UNCHANGED <<stop, sleeping, worker, job, owner, ran>>

ClientNotify(c) ==
    /\ client[c] = "notify"
    /\ NotifyOne
    /\ client' = [client EXCEPT ![c] = "idle"]
    /\ UNCHANGED <<queue, stop, job, owner, made, ran, future>>

-----------------------------------------------------------------------------
(***************************************************************************)
(* WorkerLoop.                                                             *)
(***************************************************************************)
\* Mutant of Sleep: wait() without a predicate, on a queue that is not empty.
SleepUnconditionally(w) ==
    /\ worker[w] = "look"
    /\ ~stop
    /\ sleeping' = sleeping \cup {w}
    /\ worker' = [worker EXCEPT ![w] = "wait"]
    /\ UNCHANGED <<queue, stop, job, client, owner, made, ran, future>>

\* The predicate of cv_.wait is false: release the mutex and sleep.
Sleep(w) ==
    /\ worker[w] = "look"
    /\ ~stop
    /\ queue = <<>>
    /\ sleeping' = sleeping \cup {w}
    /\ worker' = [worker EXCEPT ![w] = "wait"]
    /\ UNCHANGED <<queue, stop, job, client, owner, made, ran, future>>

\* cv_.wait may return without a notification; the predicate is tested again.
SpuriousWakeup(w) ==
    /\ w \in sleeping
    /\ sleeping' = sleeping \ {w}
    /\ worker' = [worker EXCEPT ![w] = "look"]
    /\ UNCHANGED <<queue, stop, job, client, owner, made, ran, future>>

\* Mutant of Return: a stopped worker leaves the queue as it is.
ReturnAtOnce(w) ==
    /\ worker[w] = "look"
    /\ stop
    /\ worker' = [worker EXCEPT ![w] = "gone"]
    /\ UNCHANGED <<queue, stop, sleeping, job, client, owner, made, ran, future>>

Return(w) ==
    /\ worker[w] = "look"
    /\ stop
    /\ queue = <<>>
    /\ worker' = [worker EXCEPT ![w] = "gone"]
    /\ UNCHANGED <<queue, stop, sleeping, job, client, owner, made, ran, future>>

\* Mutant of Take: the newest job first.
TakeNewest(w) ==
    /\ worker[w] = "look"
    /\ queue # <<>>
    /\ job' = [job EXCEPT ![w] = queue[Len(queue)]]
    /\ queue' = SubSeq(queue, 1, Len(queue) - 1)
    /\ worker' = [worker EXCEPT ![w] = "job"]
    /\ UNCHANGED <<stop, sleeping, client, owner, made, ran, future>>

Take(w) ==
    /\ worker[w] = "look"
    /\ queue # <<>>
    /\ job' = [job EXCEPT ![w] = Head(queue)]
    /\ queue' = Tail(queue)
    /\ worker' = [worker EXCEPT ![w] = "job"]
    /\ UNCHANGED <<stop, sleeping, client, owner, made, ran, future>>

\* The running job calls Enqueue, as the resume command does, or Submit.  A
\* refused job is followed by no notify_one: Enqueue has returned.
JobPush(w) ==
    /\ worker[w] = "job"
    /\ \E f \in {"none", "pending"} : Push(f)
    /\ worker' = [worker EXCEPT ![w] = IF stop THEN "job" ELSE "notify"]
    /\ UNCHANGED <<stop, sleeping, job, client, owner, ran>>

JobNotify(w) ==
    /\ worker[w] = "notify"
    /\ \/ /\ sleeping = {}
          /\ worker' = [worker EXCEPT ![w] = "job"]
          /\ UNCHANGED sleeping
       \/ \E v \in sleeping :
            /\ sleeping' = sleeping \ {v}
            /\ worker' = [worker EXCEPT ![w] = "job", ![v] = "look"]
    /\ UNCHANGED <<queue, stop, job, client, owner, made, ran, future>>

\* job() returns or throws: a packaged_task keeps the exception for its
\* future, that of a plain job is caught and forgotten.
Finish(w) ==
    /\ worker[w] = "job"
    /\ ran' = ran \cup {job[w]}
    /\ \E r \in {"value", "exception"} :
         future' = [future EXCEPT ![job[w]] = IF @ = "none" THEN "none" ELSE r]
    /\ job' = [job EXCEPT ![w] = NoJob]
    /\ worker' = [worker EXCEPT ![w] = "look"]
    /\ UNCHANGED <<queue, stop, sleeping, client, owner, made>>

-----------------------------------------------------------------------------
(***************************************************************************)
(* ~ThreadPool, once every client is done with the object.                 *)
(***************************************************************************)
Stop ==
    /\ owner = "open"
    /\ \A c \in Clients : client[c] = "idle"
    /\ stop' = TRUE
    /\ owner' = "notify"
    /\ UNCHANGED <<queue, sleeping, worker, job, client, made, ran, future>>

NotifyAll ==
    /\ owner = "notify"
    /\ sleeping' = {}
    /\ worker' = [w \in Workers |->
                    IF w \in sleeping THEN "look" ELSE worker[w]]
    /\ owner' = "join"
    /\ UNCHANGED <<queue, stop, job, client, made, ran, future>>

Join ==
    /\ owner = "join"
    /\ \A w \in Workers : worker[w] = "gone"
    /\ owner' = "destroyed"
    /\ UNCHANGED <<queue, stop, sleeping, worker, job, client, made, ran, future>>

Destroyed == owner = "destroyed" /\ UNCHANGED vars

-----------------------------------------------------------------------------
Run(w) == Return(w) \/ Take(w) \/ Sleep(w) \/ JobNotify(w) \/ Finish(w)

Next ==
    \/ \E c \in Clients : ClientPush(c) \/ ClientNotify(c)
    \/ \E w \in Workers : Run(w) \/ SpuriousWakeup(w) \/ JobPush(w)
    \/ Stop \/ NotifyAll \/ Join \/ Destroyed

(***************************************************************************)
(* Every runnable thread runs and every job returns.  A sleeping worker    *)
(* is not runnable: SpuriousWakeup has no fairness, so nothing here rests  *)
(* on it.  Handing in jobs and destroying the pool are the user's choice.  *)
(***************************************************************************)
Fairness ==
    /\ \A c \in Clients : WF_vars(ClientNotify(c))
    /\ \A w \in Workers : WF_vars(Run(w))
    /\ WF_vars(NotifyAll)
    /\ WF_vars(Join)

Spec == Init /\ [][Next]_vars
FairSpec == Spec /\ Fairness

-----------------------------------------------------------------------------
(***************************************************************************)
(* Properties.                                                             *)
(***************************************************************************)
Looking   == {w \in Workers : worker[w] = "look"}
Notifying == {c \in Clients : client[c] = "notify"}
                \cup {w \in Workers : worker[w] = "notify"}

\* No job waits for a worker that sleeps: as long as a worker is asleep, each
\* queued job has a worker about to look at the queue or a notify_one on its
\* way, although Enqueue notifies after it has let the mutex go and although
\* a worker that was never notified may take the job.
WorkConserving ==
    sleeping # {} =>
        Len(queue) <= Cardinality(Looking) + Cardinality(Notifying)

\* Nobody sleeps through the destruction: after stop_, a worker is in cv_.wait
\* only until the notify_all that is already due, so the join cannot hang.
NoSleeperAfterStop ==
    stop /\ sleeping # {} => owner = "notify"

\* Whoever waits on the future of Submit gets an answer: the value, the
\* exception of the job, or broken_promise.
FutureSettled ==
    \A j \in Jobs : future[j] = "pending" ~> future[j] # "pending"

\* The state of the service as the pool keeps it.
Queued  == {queue[i] : i \in DOMAIN queue}
Running == {job[w] : w \in Workers} \ {NoJob}
Refused == (1 .. made) \ (Queued \cup Running \cup ran)
Phase   == IF owner = "open" THEN "open"
           ELSE IF owner = "destroyed" THEN "closed" ELSE "closing"

service == INSTANCE JobService WITH
    line <- queue, running <- Running, done <- ran, refused <- Refused,
    phase <- Phase

\* The pool is the service it promises to be (JobService): every accepted job
\* runs exactly once, jobs are started in the order of their arrival, and the
\* destructor returns, but not before everything accepted has run.
ImplementsService == service!Spec
=============================================================================
