-------------------------- MODULE ThreadPoolProofs --------------------------
(***************************************************************************)
(* ThreadPool, proved for any finite number of workers and clients and for *)
(* any number of jobs: types, no lost wakeup, and that every step of it is *)
(* a step of JobService.                                                   *)
(***************************************************************************)
EXTENDS ThreadPool, FiniteSetTheorems, SequenceTheorems, TLAPS

\* The predicate of cv_.wait has been seen to be false by every sleeper, and
\* the destructor passes its stations in order.
WaitInv ==
    /\ sleeping = {w \in Workers : worker[w] = "wait"}
    /\ stop <=> owner # "open"
    /\ owner \in {"join", "destroyed"} => sleeping = {}

\* Every job is in one place, and what a worker does agrees with its job.
JobInv ==
    /\ \A i \in DOMAIN queue : queue[i] \in 1 .. made
    /\ \A i, j \in DOMAIN queue : queue[i] = queue[j] => i = j
    /\ \A w \in Workers : job[w] # NoJob <=> worker[w] \in {"job", "notify"}
    /\ \A w \in Workers : job[w] # NoJob => job[w] \in 1 .. made
    /\ \A v, w \in Workers : job[v] = job[w] /\ job[v] # NoJob => v = w
    /\ ran \subseteq 1 .. made
    /\ \A w \in Workers : job[w] \notin Queued \cup ran
    /\ Queued \cap ran = {}
    /\ \A w \in Workers : worker[w] = "gone" => stop /\ queue = <<>>
    /\ owner = "destroyed" => \A w \in Workers : worker[w] = "gone"

Inv == TypeOK /\ WaitInv /\ JobInv

\* Initially every part of the invariant holds: nothing has happened.
LEMMA InitInv == Init => Inv
<1> SUFFICES ASSUME Init PROVE Inv
  OBVIOUS
<1>1. TypeOK
  <2>1. queue \in Seq(Jobs)
    BY DEF Init
  <2>2. made \in 0 .. MaxJobs
    BY ThreadPoolAssumption DEF Init
  <2>3. future \in [Jobs -> FutureStates]
    BY DEF Init, FutureStates
  <2>4. QED
    BY <2>1, <2>2, <2>3 DEF Init, TypeOK
<1>2. WaitInv
  BY DEF Init, WaitInv
<1>3. JobInv
  BY DEF Init, JobInv, NoJob, Queued
<1>4. QED
  BY <1>1, <1>2, <1>3 DEF Inv

\* Every step of the pool keeps the types.
LEMMA TypeStep ==
  ASSUME Inv, [Next]_vars
  PROVE  TypeOK'
<1> USE ThreadPoolAssumption DEF Inv, TypeOK, Jobs, NoJob, FutureStates
<1>1. ASSUME NEW f \in {"none", "pending"}, Push(f)
      PROVE  queue' \in Seq(Jobs) /\ made' \in 0 .. MaxJobs
               /\ future' \in [Jobs -> FutureStates]
  <2>1. made + 1 \in Jobs /\ made' \in 0 .. MaxJobs
    BY <1>1 DEF Push
  <2>2. queue' \in Seq(Jobs)
    <3>1. Append(queue, made + 1) \in Seq(Jobs)
      BY <2>1, AppendProperties
    <3>2. QED
      BY <1>1, <3>1 DEF Push
  <2>3. future' \in [Jobs -> FutureStates]
    BY <1>1, <2>1 DEF Push
  <2>4. QED
    BY <2>1, <2>2, <2>3
<1>2. ASSUME NotifyOne
      PROVE  sleeping' \in SUBSET Workers
               /\ worker' \in [Workers -> {"look", "wait", "job", "notify", "gone"}]
  BY <1>2 DEF NotifyOne
<1>3. ASSUME NEW c \in Clients, ClientPush(c) PROVE TypeOK'
  BY <1>3, <1>1 DEF ClientPush
<1>4. ASSUME NEW c \in Clients, ClientNotify(c) PROVE TypeOK'
  BY <1>4, <1>2 DEF ClientNotify
<1>5. ASSUME NEW w \in Workers, JobPush(w) PROVE TypeOK'
  BY <1>5, <1>1 DEF JobPush
<1>6. ASSUME NEW w \in Workers, Take(w) PROVE TypeOK'
  <2>1. Head(queue) \in Jobs /\ Tail(queue) \in Seq(Jobs)
    BY <1>6, HeadTailProperties DEF Take
  <2>2. QED
    BY <2>1, <1>6 DEF Take
<1>7. ASSUME NEW w \in Workers, Sleep(w) \/ SpuriousWakeup(w) \/ Return(w)
      PROVE  TypeOK'
  BY <1>7 DEF Sleep, SpuriousWakeup, Return
<1>8. ASSUME NEW w \in Workers, JobNotify(w) PROVE TypeOK'
  BY <1>8 DEF JobNotify
<1>9. ASSUME NEW w \in Workers, Finish(w) PROVE TypeOK'
  <2>1. job[w] \in Jobs
    BY <1>9 DEF Finish, JobInv
  <2>2. QED
    BY <1>9, <2>1 DEF Finish
<1>10. ASSUME Stop \/ NotifyAll \/ Join PROVE TypeOK'
  BY <1>10 DEF Stop, NotifyAll, Join
<1>11. CASE UNCHANGED vars
  BY <1>11 DEF vars
<1>12. QED
  BY <1>3, <1>4, <1>5, <1>6, <1>7, <1>8, <1>9, <1>10, <1>11
     DEF Next, Run, Destroyed

\* Every step keeps the record of who sleeps and how far the destructor is.
LEMMA WaitStep ==
  ASSUME Inv, [Next]_vars
  PROVE  WaitInv'
<1> USE DEF Inv, TypeOK, WaitInv
<1>1. ASSUME NEW c \in Clients, ClientPush(c) PROVE WaitInv'
  BY <1>1 DEF ClientPush
<1>2. ASSUME NEW c \in Clients, ClientNotify(c) PROVE WaitInv'
  BY <1>2 DEF ClientNotify, NotifyOne
<1>3. ASSUME NEW w \in Workers, JobPush(w) PROVE WaitInv'
  BY <1>3 DEF JobPush
<1>4. ASSUME NEW w \in Workers, Sleep(w) PROVE WaitInv'
  BY <1>4 DEF Sleep
<1>5. ASSUME NEW w \in Workers, SpuriousWakeup(w) PROVE WaitInv'
  BY <1>5 DEF SpuriousWakeup
<1>6. ASSUME NEW w \in Workers, Return(w) \/ Take(w) \/ Finish(w)
      PROVE  WaitInv'
  BY <1>6 DEF Return, Take, Finish
<1>7. ASSUME NEW w \in Workers, JobNotify(w) PROVE WaitInv'
  BY <1>7 DEF JobNotify
<1>8. ASSUME Stop \/ NotifyAll \/ Join PROVE WaitInv'
  BY <1>8 DEF Stop, NotifyAll, Join
<1>9. CASE UNCHANGED vars
  BY <1>9 DEF vars
<1>10. QED
  BY <1>1, <1>2, <1>3, <1>4, <1>5, <1>6, <1>7, <1>8, <1>9
     DEF Next, Run, Destroyed

\* What Append and Tail do to the set of queued jobs.
LEMMA QueuedAfter ==
  ASSUME TypeOK, NEW j \in Jobs
  PROVE  /\ queue' = Append(queue, j) => Queued' = Queued \cup {j}
         /\ queue # <<>> /\ queue' = Tail(queue) =>
              Queued = Queued' \cup {Head(queue)}
<1> USE DEF TypeOK
<1>1. ASSUME queue' = Append(queue, j) PROVE Queued' = Queued \cup {j}
  <2>1. /\ DOMAIN queue' = 1 .. Len(queue) + 1
        /\ \A i \in 1 .. Len(queue) : queue'[i] = queue[i]
        /\ queue'[Len(queue) + 1] = j
        /\ DOMAIN queue = 1 .. Len(queue)
        /\ Len(queue) \in Nat
    BY <1>1
  <2>2. QED
    BY <2>1 DEF Queued
<1>2. ASSUME queue # <<>>, queue' = Tail(queue)
      PROVE  Queued = Queued' \cup {Head(queue)}
  <2>1. /\ DOMAIN queue = 1 .. Len(queue) /\ Len(queue) \in Nat \ {0}
        /\ Head(queue) = queue[1]
        /\ DOMAIN queue' = 1 .. Len(queue) - 1
        /\ \A i \in 1 .. Len(queue) - 1 : queue'[i] = queue[i + 1]
    BY <1>2, HeadTailProperties
  <2>2. ASSUME NEW i \in DOMAIN queue, i # 1 PROVE queue[i] \in Queued'
    <3>1. i - 1 \in 1 .. Len(queue) - 1 /\ (i - 1) + 1 = i
      BY <2>2, <2>1
    <3>2. QED
      BY <3>1, <2>1 DEF Queued
  <2>3. ASSUME NEW i \in DOMAIN queue' PROVE queue'[i] \in Queued
    <3>1. i + 1 \in DOMAIN queue
      BY <2>1
    <3>2. QED
      BY <3>1, <2>1 DEF Queued
  <2>4. Head(queue) \in Queued
    BY <2>1 DEF Queued
  <2>5. QED
    BY <2>1, <2>2, <2>3, <2>4 DEF Queued
<1>3. QED
  BY <1>1, <1>2

\* Handing in a job keeps the jobs apart: the new number is nobody's.
LEMMA PushJobs ==
  ASSUME Inv, NEW f, Push(f), UNCHANGED <<job, ran>>
  PROVE  /\ \A i \in DOMAIN queue' : queue'[i] \in 1 .. made'
         /\ \A i, j \in DOMAIN queue' : queue'[i] = queue'[j] => i = j
         /\ \A w \in Workers : job'[w] # NoJob => job'[w] \in 1 .. made'
         /\ ran' \subseteq 1 .. made'
         /\ \A w \in Workers : job'[w] \notin Queued' \cup ran'
         /\ Queued' \cap ran' = {}
<1> USE DEF Inv, TypeOK, JobInv
<1>1. CASE stop
  BY <1>1 DEF Push, Queued
<1>2. CASE ~stop
  <2>1. /\ queue' = Append(queue, made + 1)
        /\ made' = made + 1
    BY <1>2 DEF Push
  <2>2. /\ DOMAIN queue' = 1 .. Len(queue) + 1
        /\ \A i \in 1 .. Len(queue) : queue'[i] = queue[i]
        /\ queue'[Len(queue) + 1] = made + 1
        /\ DOMAIN queue = 1 .. Len(queue)
    BY <2>1
  <2>3. Queued' = Queued \cup {made + 1}
    BY <2>2 DEF Queued
  <2>4. \A i \in DOMAIN queue : queue[i] # made + 1
    OBVIOUS
  <2>5. \A w \in Workers : job[w] # made + 1
    BY DEF NoJob
  <2>6. QED
    BY <2>1, <2>2, <2>3, <2>4, <2>5
<1>3. QED
  BY <1>1, <1>2

\* Every step keeps every job in one place.
LEMMA JobStep ==
  ASSUME Inv, [Next]_vars
  PROVE  JobInv'
<1> USE DEF Inv, TypeOK, JobInv
<1>1. ASSUME NEW c \in Clients, ClientPush(c) PROVE JobInv'
  <2>1. PICK f \in {"none", "pending"} : Push(f)
    BY <1>1 DEF ClientPush
  <2>2. UNCHANGED <<job, ran, stop, worker, owner>> /\ ~stop
    BY <1>1 DEF ClientPush, WaitInv
  <2>3. \A w \in Workers : worker[w] # "gone"
    BY <2>2
  <2>4. QED
    BY <2>1, <2>2, <2>3, PushJobs
<1>2. ASSUME NEW c \in Clients, ClientNotify(c) PROVE JobInv'
  <2>1. UNCHANGED <<queue, job, ran, made, stop, owner>>
    BY <1>2 DEF ClientNotify
  <2>2. \A w \in Workers : \/ worker'[w] = worker[w]
                           \/ worker[w] = "wait" /\ worker'[w] = "look"
    BY <1>2 DEF ClientNotify, NotifyOne, WaitInv
  <2>3. QED
    BY <2>1, <2>2 DEF Queued
<1>3. ASSUME NEW w \in Workers, JobPush(w) PROVE JobInv'
  <2>1. PICK f \in {"none", "pending"} : Push(f)
    BY <1>3 DEF JobPush
  <2>2. UNCHANGED <<job, ran, stop, owner>>
    BY <1>3 DEF JobPush
  <2>3. worker[w] = "job" /\ worker'[w] \in {"job", "notify"}
    BY <1>3 DEF JobPush
  <2>4. \A v \in Workers : v # w => worker'[v] = worker[v]
    BY <1>3 DEF JobPush
  <2>5. \A v \in Workers : worker[v] = "gone" => queue' = queue
    BY <2>1 DEF Push
  <2>6. QED
    BY <2>1, <2>2, <2>3, <2>4, <2>5, PushJobs
<1>4. ASSUME NEW w \in Workers, Sleep(w) PROVE JobInv'
  BY <1>4 DEF Sleep, Queued
<1>5. ASSUME NEW w \in Workers, SpuriousWakeup(w) PROVE JobInv'
  BY <1>5 DEF SpuriousWakeup, WaitInv, Queued
<1>6. ASSUME NEW w \in Workers, Return(w) PROVE JobInv'
  BY <1>6 DEF Return, Queued
<1>7. ASSUME NEW w \in Workers, Take(w) PROVE JobInv'
  <2>1. /\ queue # <<>> /\ worker[w] = "look"
        /\ queue' = Tail(queue) /\ job' = [job EXCEPT ![w] = Head(queue)]
        /\ worker' = [worker EXCEPT ![w] = "job"]
        /\ UNCHANGED <<stop, owner, made, ran>>
    BY <1>7 DEF Take
  <2>2. /\ DOMAIN queue = 1 .. Len(queue) /\ Len(queue) \in Nat \ {0}
        /\ Head(queue) = queue[1]
        /\ DOMAIN queue' = 1 .. Len(queue) - 1
        /\ \A i \in 1 .. Len(queue) - 1 : queue'[i] = queue[i + 1]
    BY <2>1, HeadTailProperties
  <2>3. /\ Head(queue) \in Queued /\ Head(queue) \in 1 .. made
        /\ Head(queue) # NoJob
    BY <2>2 DEF Queued, NoJob
  <2>4. Queued' = Queued \ {Head(queue)}
    <3>1. Queued = Queued' \cup {Head(queue)}
      BY <2>1, <2>3, QueuedAfter DEF Jobs
    <3>2. ASSUME NEW i \in DOMAIN queue' PROVE queue'[i] # Head(queue)
      <4>1. i + 1 \in DOMAIN queue /\ 1 \in DOMAIN queue /\ i + 1 # 1
        BY <2>2
      <4>2. queue[i + 1] # queue[1]
        BY <4>1
      <4>3. QED
        BY <2>2, <4>2
    <3>3. Head(queue) \notin Queued'
      BY <3>2 DEF Queued
    <3>4. QED
      BY <3>1, <3>3
  <2>5. job[w] = NoJob
    BY <2>1
  <2>6. \A v \in Workers : worker[v] # "gone"
    BY <2>1
  <2>7. ASSUME NEW i \in DOMAIN queue', NEW j \in DOMAIN queue',
               queue'[i] = queue'[j]
        PROVE  i = j
    <3>1. /\ i + 1 \in DOMAIN queue /\ queue'[i] = queue[i + 1]
          /\ j + 1 \in DOMAIN queue /\ queue'[j] = queue[j + 1]
      BY <2>2
    <3>2. i + 1 = j + 1
      BY <3>1, <2>7
    <3>3. QED
      BY <3>2, <2>2
  <2>8. \A i \in DOMAIN queue' : queue'[i] \in 1 .. made'
    BY <2>1, <2>2
  <2>9. QED
    BY <2>1, <2>3, <2>4, <2>5, <2>6, <2>7, <2>8
<1>8. ASSUME NEW w \in Workers, JobNotify(w) PROVE JobInv'
  <2>1. UNCHANGED <<queue, job, ran, made, stop, owner>>
    BY <1>8 DEF JobNotify
  <2>2. \A v \in Workers : \/ worker'[v] = worker[v]
                           \/ worker[v] = "wait" /\ worker'[v] = "look"
                           \/ worker[v] = "notify" /\ worker'[v] = "job"
    BY <1>8 DEF JobNotify, WaitInv
  <2>3. QED
    BY <2>1, <2>2 DEF Queued
<1>9. ASSUME NEW w \in Workers, Finish(w) PROVE JobInv'
  <2>1. /\ worker[w] = "job" /\ ran' = ran \cup {job[w]}
        /\ job' = [job EXCEPT ![w] = NoJob]
        /\ worker' = [worker EXCEPT ![w] = "look"]
        /\ UNCHANGED <<queue, stop, owner, made>>
    BY <1>9 DEF Finish
  <2>2. job[w] # NoJob /\ job[w] \in 1 .. made /\ job[w] \notin Queued
    BY <2>1
  <2>3. Queued' = Queued
    BY <2>1 DEF Queued
  <2>4. \A v \in Workers : v # w => job'[v] = job[v] /\ job[v] # job[w]
    BY <2>1, <2>2
  <2>5. job'[w] = NoJob /\ NoJob \notin Queued' \cup ran'
    BY <2>1, <2>2, <2>3 DEF NoJob, Queued
  <2>6. \A v \in Workers : job'[v] \notin Queued' \cup ran'
    BY <2>1, <2>3, <2>4, <2>5
  <2>7. owner # "destroyed"
    BY <2>1
  <2>8. \A v \in Workers : job'[v] # NoJob <=> worker'[v] \in {"job", "notify"}
    BY <2>1, <2>4, <2>5
  <2>9. \A v, u \in Workers : job'[v] = job'[u] /\ job'[v] # NoJob => v = u
    BY <2>4, <2>5
  <2>10. \A v \in Workers : job'[v] # NoJob => job'[v] \in 1 .. made'
    BY <2>1, <2>4, <2>5
  <2>11. /\ Queued' \cap ran' = {}
         /\ ran' \subseteq 1 .. made'
    <3>1. Queued' \cap ran' = {}
      BY <2>1, <2>2, <2>3, Zenon
    <3>2. made' = made
      BY <2>1
    <3>3. QED
      BY <2>1, <2>2, <3>1, <3>2
  <2>12. \A v \in Workers : worker'[v] = "gone" => stop' /\ queue' = <<>>
    BY <2>1
  <2>13. QED
    BY <2>1, <2>6, <2>7, <2>8, <2>9, <2>10, <2>11, <2>12
<1>10. ASSUME Stop \/ NotifyAll PROVE JobInv'
  <2>1. UNCHANGED <<queue, job, ran, made>> /\ owner' # "destroyed"
    BY <1>10 DEF Stop, NotifyAll
  <2>2. \A v \in Workers : \/ worker'[v] = worker[v]
                           \/ worker[v] = "wait" /\ worker'[v] = "look"
    BY <1>10 DEF Stop, NotifyAll, WaitInv
  <2>3. stop => stop'
    BY <1>10 DEF Stop, NotifyAll
  <2>4. QED
    BY <2>1, <2>2, <2>3 DEF Queued
<1>11. ASSUME Join PROVE JobInv'
  BY <1>11 DEF Join, Queued
<1>12. CASE UNCHANGED vars
  BY <1>12 DEF vars, Queued
<1>13. QED
  BY <1>1, <1>2, <1>3, <1>4, <1>5, <1>6, <1>7, <1>8, <1>9, <1>10, <1>11,
     <1>12 DEF Next, Run, Destroyed

\* The invariant holds in every reachable state.
LEMMA Invariance == Spec => []Inv
<1>1. Inv /\ [Next]_vars => Inv'
  BY TypeStep, WaitStep, JobStep DEF Inv
<1>2. QED
  BY InitInv, <1>1, PTL DEF Spec

\* The pool's variables keep their types.
THEOREM TypeCorrect == Spec => []TypeOK
<1>1. Inv => TypeOK
  BY DEF Inv
<1>2. QED
  BY Invariance, <1>1, PTL

\* No worker sleeps through the destruction, so the join can end.
THEOREM NobodySleepsOn == Spec => []NoSleeperAfterStop
<1>1. Inv => NoSleeperAfterStop
  BY DEF Inv, TypeOK, WaitInv, NoSleeperAfterStop
<1>2. QED
  BY Invariance, <1>1, PTL

-----------------------------------------------------------------------------
\* The two sets WorkConserving counts are finite.
LEMMA FiniteCrowd ==
  /\ IsFiniteSet(Looking) /\ Cardinality(Looking) \in Nat
  /\ IsFiniteSet(Notifying) /\ Cardinality(Notifying) \in Nat
<1>1. Looking \in SUBSET Workers /\ Notifying \in SUBSET (Clients \cup Workers)
  BY DEF Looking, Notifying
<1>2. IsFiniteSet(Clients \cup Workers)
  BY FS_Union, ThreadPoolAssumption
<1>3. QED
  BY <1>1, <1>2, FS_Subset, FS_CardinalityType, ThreadPoolAssumption

\* Every step keeps a worker or a notification for each queued job.
LEMMA ConservingStep ==
  ASSUME Inv, WorkConserving, [Next]_vars
  PROVE  WorkConserving'
<1> SUFFICES ASSUME sleeping' # {}
             PROVE  Len(queue') <= Cardinality(Looking') + Cardinality(Notifying')
  BY DEF WorkConserving
<1>t. /\ worker \in [Workers -> {"look", "wait", "job", "notify", "gone"}]
      /\ client \in [Clients -> {"idle", "notify"}]
      /\ queue \in Seq(Jobs) /\ sleeping \in SUBSET Workers
  BY DEF Inv, TypeOK
<1>v. sleeping = {w \in Workers : worker[w] = "wait"} /\ (stop <=> owner # "open")
  BY DEF Inv, WaitInv
<1> DEFINE here == Cardinality(Looking)
           coming == Cardinality(Notifying)
<1>0. Len(queue) \in Nat /\ here \in Nat /\ coming \in Nat
  BY <1>t, FiniteCrowd
<1>a. /\ \A x : x \notin Looking => Cardinality(Looking \cup {x}) = here + 1
      /\ \A x \in Looking : Cardinality(Looking \ {x}) = here - 1
      /\ \A x : x \notin Notifying => Cardinality(Notifying \cup {x}) = coming + 1
      /\ \A x \in Notifying : Cardinality(Notifying \ {x}) = coming - 1
  BY FiniteCrowd, FS_AddElement, FS_RemoveElement
<1> HIDE DEF here, coming
<1>1. ASSUME NEW c \in Clients, ClientPush(c) PROVE WorkConserving'
  <2>1. sleeping' = sleeping /\ Looking' = Looking
    BY <1>t, <1>v, <1>1 DEF ClientPush, Looking
  <2>2. Len(queue') = Len(queue) + 1
    BY <1>t, <1>v, <1>1, <1>0 DEF ClientPush, Push
  <2>3. c \notin Notifying /\ Notifying' = Notifying \cup {c}
    BY <1>t, <1>v, <1>1, ThreadPoolAssumption DEF ClientPush, Notifying
  <2>4. QED
    BY <1>0, <1>a, <2>1, <2>2, <2>3 DEF WorkConserving, here, coming
<1>2. ASSUME NEW c \in Clients, ClientNotify(c), sleeping # {}
      PROVE  WorkConserving'
  <2>1. PICK v \in sleeping : worker' = [worker EXCEPT ![v] = "look"]
    BY <1>t, <1>v, <1>2 DEF ClientNotify, NotifyOne
  <2>2. worker[v] = "wait" /\ v \in Workers
    BY <1>t, <1>v
  <2>3. v \notin Looking /\ Looking' = Looking \cup {v}
    BY <1>t, <1>v, <2>1, <2>2 DEF Looking
  <2>4. c \in Notifying /\ Notifying' = Notifying \ {c}
    BY <1>t, <1>v, <1>2, <2>1, <2>2, ThreadPoolAssumption DEF ClientNotify, Notifying
  <2>5. queue' = queue
    BY <1>t, <1>v, <1>2 DEF ClientNotify
  <2>6. QED
    BY <1>0, <1>a, <1>2, <2>3, <2>4, <2>5 DEF WorkConserving, here, coming
<1>3. ASSUME NEW w \in Workers, JobPush(w) PROVE WorkConserving'
  <2>1. sleeping' = sleeping /\ Looking' = Looking
    BY <1>t, <1>v, <1>3 DEF JobPush, Looking
  <2>2. CASE stop
    <3>1. queue' = queue /\ Notifying' = Notifying
      BY <1>t, <1>v, <1>3, <2>2 DEF JobPush, Push, Notifying
    <3>2. QED
      BY <1>t, <1>v, <2>1, <3>1 DEF WorkConserving
  <2>3. CASE ~stop
    <3>1. Len(queue') = Len(queue) + 1
      BY <1>t, <1>v, <1>3, <2>3, <1>0 DEF JobPush, Push
    <3>2. w \notin Notifying /\ Notifying' = Notifying \cup {w}
      BY <1>t, <1>v, <1>3, <2>3, ThreadPoolAssumption DEF JobPush, Notifying
    <3>3. QED
      BY <1>0, <1>a, <2>1, <3>1, <3>2 DEF WorkConserving, here, coming
  <2>4. QED
    BY <1>t, <1>v, <2>2, <2>3
<1>4. ASSUME NEW w \in Workers, JobNotify(w), sleeping # {}
      PROVE  WorkConserving'
  <2>1. PICK v \in sleeping :
          worker' = [worker EXCEPT ![w] = "job", ![v] = "look"]
    BY <1>t, <1>v, <1>4 DEF JobNotify
  <2>2. worker[v] = "wait" /\ v \in Workers /\ worker[w] = "notify"
    BY <1>t, <1>v, <1>4 DEF JobNotify
  <2>3. v \notin Looking /\ Looking' = Looking \cup {v}
    BY <1>t, <1>v, <2>1, <2>2 DEF Looking
  <2>4. w \in Notifying /\ Notifying' = Notifying \ {w}
    BY <1>t, <1>v, <1>4, <2>1, <2>2, ThreadPoolAssumption DEF JobNotify, Notifying
  <2>5. queue' = queue
    BY <1>t, <1>v, <1>4 DEF JobNotify
  <2>6. QED
    BY <1>0, <1>a, <1>4, <2>3, <2>4, <2>5 DEF WorkConserving, here, coming
<1>5. ASSUME NEW w \in Workers, Sleep(w) \/ Return(w) PROVE WorkConserving'
  <2>1. queue' = <<>>
    BY <1>t, <1>v, <1>5 DEF Sleep, Return
  <2>2. Cardinality(Looking') \in Nat /\ Cardinality(Notifying') \in Nat
    <3>1. TypeOK'
      BY <1>t, <1>v, TypeStep
    <3>2. Looking' \in SUBSET Workers /\ Notifying' \in SUBSET (Clients \cup Workers)
      BY <1>t, <1>v DEF Looking, Notifying
    <3>3. IsFiniteSet(Clients \cup Workers)
      BY FS_Union, ThreadPoolAssumption
    <3>4. QED
      BY <1>t, <1>v, <3>2, <3>3, FS_Subset, FS_CardinalityType, ThreadPoolAssumption
  <2>3. QED
    BY <1>t, <1>v, <2>1, <2>2 DEF WorkConserving
<1>6. ASSUME NEW w \in Workers, SpuriousWakeup(w) PROVE WorkConserving'
  <2>1. worker[w] = "wait" /\ worker' = [worker EXCEPT ![w] = "look"]
    BY <1>t, <1>v, <1>6 DEF SpuriousWakeup
  <2>2. w \notin Looking /\ Looking' = Looking \cup {w}
    BY <1>t, <1>v, <2>1 DEF Looking
  <2>3. Notifying' = Notifying /\ queue' = queue /\ sleeping # {}
    BY <1>t, <1>v, <1>6, <2>1 DEF SpuriousWakeup, Notifying
  <2>4. QED
    BY <1>0, <1>a, <2>2, <2>3 DEF WorkConserving, here, coming
<1>7. ASSUME NEW w \in Workers, Take(w) PROVE WorkConserving'
  <2>1. Len(queue') = Len(queue) - 1
    BY <1>t, <1>v, <1>7, HeadTailProperties DEF Take
  <2>2. w \in Looking /\ Looking' = Looking \ {w}
    BY <1>t, <1>v, <1>7 DEF Take, Looking
  <2>3. Notifying' = Notifying /\ sleeping' = sleeping
    BY <1>t, <1>v, <1>7 DEF Take, Notifying
  <2>4. QED
    BY <1>0, <1>a, <2>1, <2>2, <2>3 DEF WorkConserving, here, coming
<1>8. ASSUME NEW w \in Workers, Finish(w) PROVE WorkConserving'
  <2>1. w \notin Looking /\ Looking' = Looking \cup {w}
    BY <1>t, <1>v, <1>8 DEF Finish, Looking
  <2>2. Notifying' = Notifying /\ sleeping' = sleeping /\ queue' = queue
    BY <1>t, <1>v, <1>8 DEF Finish, Notifying
  <2>3. QED
    BY <1>0, <1>a, <2>1, <2>2 DEF WorkConserving, here, coming
<1>9. ASSUME (\E c \in Clients : ClientNotify(c)) \/ (\E w \in Workers : JobNotify(w)),
             sleeping = {}
      PROVE  sleeping' = {}
  BY <1>t, <1>v, <1>9 DEF ClientNotify, JobNotify, NotifyOne
<1>10. ASSUME NotifyAll PROVE sleeping' = {}
  BY <1>t, <1>v, <1>10 DEF NotifyAll
<1>11. ASSUME Stop \/ Join \/ UNCHANGED vars PROVE WorkConserving'
  BY <1>t, <1>v, <1>11 DEF Stop, Join, vars, WorkConserving, Looking, Notifying
<1>12. QED
  BY <1>t, <1>v, <1>1, <1>2, <1>3, <1>4, <1>5, <1>6, <1>7, <1>8, <1>9, <1>10, <1>11
     DEF Next, Run, Destroyed, WorkConserving

\* While a worker sleeps, no job waits without somebody on its way to it.
THEOREM NoLostWakeup == Spec => []WorkConserving
<1>1. Init => WorkConserving
  BY DEF Init, WorkConserving
<1>2. Inv /\ WorkConserving /\ [Next]_vars => WorkConserving'
  BY ConservingStep
<1>3. QED
  BY <1>1, <1>2, Invariance, PTL DEF Spec

-----------------------------------------------------------------------------
\* The next number is not known to the service yet.
LEMMA FreshJob ==
  ASSUME Inv, made < MaxJobs
  PROVE  made + 1 \in Jobs /\ made + 1 \notin service!Known
<1> USE DEF Inv, TypeOK, JobInv
<1>1. made \in Nat /\ made + 1 \in Jobs
  BY ThreadPoolAssumption DEF Jobs
<1>2. /\ made + 1 \notin Queued
      /\ made + 1 \notin Running
      /\ made + 1 \notin ran
      /\ made + 1 \notin Refused
  BY <1>1 DEF Queued, Running, Refused, NoJob
<1>3. service!Known = Queued \cup Running \cup ran \cup Refused
  BY DEF service!Known, Queued
<1>4. QED
  BY <1>1, <1>2, <1>3

\* Steps that touch no job leave the service where it is.
LEMMA Quiet ==
  ASSUME UNCHANGED <<queue, job, ran, made, owner>>
  PROVE  UNCHANGED service!vars
BY DEF service!vars, Queued, Running, Refused, Phase

\* Every step of the pool is a step of the service, or a stutter.
LEMMA StepRefines ==
  ASSUME Inv, Inv', [Next]_vars
  PROVE  [service!Next]_service!vars
<1> USE DEF Inv, TypeOK
<1>1. ASSUME NEW c \in Clients, ClientPush(c) PROVE service!Next
  <2>1. /\ made < MaxJobs /\ made' = made + 1
        /\ queue' = Append(queue, made + 1)
        /\ UNCHANGED <<job, ran, owner>> /\ owner = "open"
    BY <1>1 DEF ClientPush, Push, WaitInv
  <2>2. Queued' = Queued \cup {made + 1}
    BY <2>1, FreshJob, QueuedAfter
  <2>3. Refused' = Refused /\ Running' = Running
    BY <2>1, <2>2 DEF Refused, Running
  <2>4. service!Accept(made + 1)
    BY <2>1, <2>3, FreshJob DEF service!Accept, Phase
  <2>5. QED
    BY <2>4, <2>1, FreshJob DEF service!Next
<1>2. ASSUME NEW w \in Workers, JobPush(w) PROVE service!Next
  <2>1. /\ made < MaxJobs /\ made' = made + 1
        /\ UNCHANGED <<job, ran, owner>> /\ worker[w] = "job"
    BY <1>2 DEF JobPush, Push
  <2>2. Running' = Running
    BY <2>1 DEF Running
  <2>3. CASE stop
    <3>1. queue' = queue
      BY <1>2, <2>3 DEF JobPush, Push
    <3>2. Refused' = Refused \cup {made + 1}
      <4>1. /\ made + 1 \notin Queued
            /\ made + 1 \notin Running
            /\ made + 1 \notin ran
        BY DEF JobInv, Queued, Running, NoJob
      <4>2. Queued' = Queued
        BY <3>1 DEF Queued
      <4>3. QED
        BY <2>1, <2>2, <4>1, <4>2 DEF Refused
    <3>3. Phase = "closing" /\ Phase' = Phase
      BY <2>1, <2>3 DEF WaitInv, JobInv, Phase
    <3>4. service!Refuse(made + 1)
      BY <2>1, <2>2, <3>1, <3>2, <3>3, FreshJob DEF service!Refuse
    <3>5. QED
      BY <3>4, <2>1, FreshJob DEF service!Next
  <2>4. CASE ~stop
    <3>1. queue' = Append(queue, made + 1)
      BY <1>2, <2>4 DEF JobPush, Push
    <3>2. Queued' = Queued \cup {made + 1}
      BY <2>1, <3>1, FreshJob, QueuedAfter
    <3>3. Refused' = Refused
      BY <2>1, <2>2, <3>2 DEF Refused
    <3>4. Phase = "open" /\ Phase' = Phase
      BY <2>1, <2>4 DEF WaitInv, Phase
    <3>5. service!Accept(made + 1)
      BY <2>1, <2>2, <3>1, <3>3, <3>4, FreshJob DEF service!Accept
    <3>6. QED
      BY <3>5, <2>1, FreshJob DEF service!Next
  <2>5. QED
    BY <2>3, <2>4
<1>3. ASSUME NEW w \in Workers, Take(w) PROVE service!Next
  <2>1. /\ queue # <<>> /\ worker[w] = "look" /\ queue' = Tail(queue)
        /\ job' = [job EXCEPT ![w] = Head(queue)]
        /\ UNCHANGED <<ran, owner, made>>
    BY <1>3 DEF Take
  <2>2. job[w] = NoJob /\ Head(queue) \in Jobs /\ Head(queue) # NoJob
    <3>1. Head(queue) \in Jobs
      BY <2>1, HeadTailProperties
    <3>2. Head(queue) # NoJob
      BY <3>1 DEF NoJob, Jobs
    <3>3. job[w] = NoJob
      BY <2>1 DEF JobInv
    <3>4. QED
      BY <3>1, <3>2, <3>3
  <2>3. Running' = Running \cup {Head(queue)}
    BY <2>1, <2>2 DEF Running
  <2>4. Queued = Queued' \cup {Head(queue)}
    BY <2>1, <2>2, QueuedAfter
  <2>5. Refused' = Refused
    BY <2>1, <2>3, <2>4 DEF Refused
  <2>6. service!Begin
    BY <2>1, <2>3, <2>5 DEF service!Begin, Phase
  <2>7. QED
    BY <2>6 DEF service!Next
<1>4. ASSUME NEW w \in Workers, Finish(w) PROVE service!Next
  <2>1. /\ worker[w] = "job" /\ ran' = ran \cup {job[w]}
        /\ job' = [job EXCEPT ![w] = NoJob]
        /\ UNCHANGED <<queue, owner, made>>
    BY <1>4 DEF Finish
  <2>2. job[w] # NoJob /\ job[w] \in Jobs /\ job[w] \in Running
    BY <2>1 DEF JobInv, Running
  <2>3. Running' = Running \ {job[w]}
    BY <2>1, <2>2 DEF Running, JobInv
  <2>4. Refused' = Refused
    BY <2>1, <2>2, <2>3 DEF Refused, Queued
  <2>5. service!End(job[w])
    BY <2>1, <2>2, <2>3, <2>4 DEF service!End, Phase
  <2>6. QED
    BY <2>5, <2>2 DEF service!Next
<1>5. ASSUME Stop PROVE service!Next
  <2>1. service!Close
    BY <1>5 DEF Stop, service!Close, Phase, Running, Refused, Queued
  <2>2. QED
    BY <2>1 DEF service!Next
<1>6. ASSUME Join PROVE service!Next
  <2>1. queue = <<>> /\ Running = {}
    BY <1>6, ThreadPoolAssumption DEF Join, JobInv, Running
  <2>2. service!Closed
    BY <1>6, <2>1 DEF Join, service!Closed, Phase, Running, Refused, Queued
  <2>3. QED
    BY <2>2 DEF service!Next
<1>7. ASSUME NotifyAll PROVE UNCHANGED service!vars
  BY <1>7 DEF NotifyAll, service!vars, Queued, Running, Refused, Phase
<1>8. ASSUME NEW c \in Clients, ClientNotify(c) PROVE UNCHANGED service!vars
  BY <1>8, Quiet DEF ClientNotify
<1>9. ASSUME NEW w \in Workers,
             Sleep(w) \/ SpuriousWakeup(w) \/ Return(w) \/ JobNotify(w)
      PROVE  UNCHANGED service!vars
  BY <1>9, Quiet DEF Sleep, SpuriousWakeup, Return, JobNotify
<1>10. CASE UNCHANGED vars
  BY <1>10, Quiet DEF vars
<1>11. QED
  BY <1>1, <1>2, <1>3, <1>4, <1>5, <1>6, <1>7, <1>8, <1>9, <1>10
     DEF Next, Run, Destroyed

\* ThreadPool implements JobService: whatever the interleaving, every accepted
\* job runs exactly once, in order of arrival, and the destructor waits for all.
THEOREM Implements == Spec => service!Promise
<1>1. Init => service!Init
  BY DEF Init, service!Init, Running, Refused, Queued, Phase
<1>2. Inv /\ Inv' /\ [Next]_vars => [service!Next]_service!vars
  BY StepRefines
<1>3. QED
  BY <1>1, <1>2, Invariance, PTL DEF Spec, service!Promise
=============================================================================
