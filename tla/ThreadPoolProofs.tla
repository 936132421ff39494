-------------------------- MODULE ThreadPoolProofs --------------------------
(***************************************************************************)
(* Safety of c10::ThreadPool for any number of threads, tasks and waiters: *)
(* work is neither lost nor executed twice, complete_ and available_ are   *)
(* exact, waitWorkComplete() returns late enough, and no thread sleeps     *)
(* while a task needs it.                                                  *)
(***************************************************************************)
EXTENDS ThreadPool, FiniteSetTheorems, TLAPS

(* Every task is at one place: a queued or running task has been submitted *)
(* and is not finished, the queue holds no task twice and none that runs,  *)
(* and no two threads run the same one.                                    *)
WorkInv ==
  /\ finished \subseteq submitted
  /\ \A i \in 1 .. Len(tasks_) : tasks_[i] \in submitted \ finished
  /\ \A i, j \in 1 .. Len(tasks_) : tasks_[i] = tasks_[j] => i = j
  /\ \A th \in Running : current[th] \in submitted \ finished
  /\ \A th \in Running : \A i \in 1 .. Len(tasks_) : tasks_[i] # current[th]
  /\ \A th, th2 \in Running : current[th] = current[th2] => th = th2
  /\ \A task \in submitted :
       \/ task \in finished
       \/ \E i \in 1 .. Len(tasks_) : tasks_[i] = task
       \/ \E th \in Running : current[th] = task

(* complete_ and available_ describe the queue and the threads. *)
CountInv ==
  /\ available_ = total_ - Cardinality(Running)
  /\ complete_ = (tasks_ = <<>> /\ Running = {})

(* What a waiter was promised is submitted, and done once it has returned. *)
WaitInv ==
  \A w \in Waiters : /\ promised[w] \subseteq submitted
                     /\ wpc[w] = "returned" => promised[w] \subseteq finished

PoolInv == TypeOK /\ WorkInv /\ CountInv /\ WaitInv /\ WorkConserving

-----------------------------------------------------------------------------
(* The threads at each place are finitely many, and none of them runs a    *)
(* task exactly when all are available.                                    *)
LEMMA FinitePlaces ==
  /\ IsFiniteSet(Running) /\ IsFiniteSet(Awake)
  /\ Cardinality(Running) \in 0 .. total_
  /\ Cardinality(Awake) \in Nat
  /\ total_ \in Nat
BY ThreadPoolAssumption, FS_Subset, FS_CardinalityType
   DEF Running, Awake, total_

(* The queue without its first task. *)
LEMMA TailFacts ==
  ASSUME NEW S, NEW s \in Seq(S), s # <<>>
  PROVE  /\ Len(s) \in Nat \ {0}
         /\ Head(s) = s[1] /\ s[1] \in S
         /\ Tail(s) \in Seq(S)
         /\ Len(Tail(s)) = Len(s) - 1
         /\ \A i \in 1 .. Len(s) - 1 : Tail(s)[i] = s[i + 1]
OBVIOUS

(* The queue with one more task. *)
LEMMA AppendFacts ==
  ASSUME NEW S, NEW s \in Seq(S), NEW x \in S
  PROVE  /\ Len(s) \in Nat
         /\ Append(s, x) \in Seq(S)
         /\ Append(s, x) # <<>>
         /\ Len(Append(s, x)) = Len(s) + 1
         /\ \A i \in 1 .. Len(s) : Append(s, x)[i] = s[i]
         /\ Append(s, x)[Len(s) + 1] = x
OBVIOUS

(* complete_ of the code is what CompleteExact says of it: with an empty   *)
(* queue and no running task every submitted task is finished, and what is *)
(* queued or running is not.                                               *)
LEMMA WorkDone ==
  ASSUME TypeOK, WorkInv
  PROVE  (tasks_ = <<>> /\ Running = {}) <=> submitted = finished
<1>1. ASSUME tasks_ = <<>>, Running = {} PROVE submitted = finished
  <2>1. 1 .. Len(tasks_) = {} BY <1>1
  <2> QED BY <2>1, <1>1 DEF WorkInv
<1>2. ASSUME submitted = finished PROVE tasks_ = <<>> /\ Running = {}
  <2>1. Running = {} BY <1>2 DEF WorkInv
  <2>2. SUFFICES ASSUME tasks_ # <<>> PROVE FALSE BY <2>1
  <2>3. 1 \in 1 .. Len(tasks_) BY <2>2, TailFacts DEF TypeOK
  <2> QED BY <2>3, <1>2 DEF WorkInv
<1> QED BY <1>1, <1>2

-----------------------------------------------------------------------------
(* Initially there is no work. *)
LEMMA InitPool == Init => PoolInv
<1> SUFFICES ASSUME Init PROVE PoolInv OBVIOUS
<1>1. Running = {} /\ Sleeping = {} BY DEF Init, Running, Sleeping
<1>2. Cardinality(Running) = 0 BY <1>1, FS_EmptySet
<1>3. total_ \in Nat BY FinitePlaces
<1>4. TypeOK BY <1>3 DEF Init, TypeOK
<1>5. WorkInv
  <2>1. 1 .. Len(tasks_) = {} BY DEF Init
  <2> QED BY <1>1, <2>1 DEF Init, WorkInv
<1>6. CountInv
  <2>1. available_ = total_ - Cardinality(Running) BY <1>2, <1>3 DEF Init
  <2>2. complete_ = (tasks_ = <<>> /\ Running = {}) BY <1>1 DEF Init
  <2> QED BY <2>1, <2>2 DEF CountInv
<1>7. WaitInv BY DEF Init, WaitInv
<1>8. WorkConserving BY <1>1 DEF WorkConserving
<1> QED BY <1>4, <1>5, <1>6, <1>7, <1>8 DEF PoolInv

(* run(): one more task, and one sleeping thread less if there is one. *)
LEMMA RunPool ==
  ASSUME PoolInv, NEW task \in Tasks, run(task)
  PROVE  PoolInv'
<1> USE DEF PoolInv
<1>1. PICK wake \in SUBSET Sleeping :
        /\ pc' = [th \in Threads |-> IF th \in wake THEN "acquire" ELSE pc[th]]
        /\ wake = {} => Sleeping = {}
        /\ \A x, y \in wake : x = y
  <2>1. CASE \E x \in DOMAIN pc : pc[x] = "waiting"
    <3>1. PICK x \in DOMAIN pc : pc[x] = "waiting"
                                 /\ pc' = [pc EXCEPT ![x] = "acquire"]
      BY <2>1 DEF run, WakeOne
    <3>2. x \in Sleeping BY <3>1 DEF Sleeping, TypeOK
    <3>3. pc' = [th \in Threads |-> IF th \in {x} THEN "acquire" ELSE pc[th]]
      BY <3>1 DEF TypeOK
    <3>4. {x} \in SUBSET Sleeping BY <3>2
    <3> QED BY <3>3, <3>4
  <2>2. CASE ~ \E x \in DOMAIN pc : pc[x] = "waiting"
    <3>1. pc' = pc BY <2>2 DEF run, WakeOne
    <3>2. Sleeping = {} BY <2>2 DEF Sleeping, TypeOK
    <3>3. pc' = [th \in Threads |-> IF th \in {} THEN "acquire" ELSE pc[th]]
      BY <3>1 DEF TypeOK
    <3> QED BY <3>2, <3>3
  <2> QED BY <2>1, <2>2
<1>2. /\ Running' = Running
      /\ Sleeping' = Sleeping \ wake
      /\ Awake' = Awake \cup wake
      /\ Awake \cap wake = {}
  BY <1>1 DEF Running, Sleeping, Awake
<1>3. /\ tasks_' = Append(tasks_, task)
      /\ submitted' = submitted \cup {task} /\ task \notin submitted
      /\ finished' = finished /\ current' = current /\ complete_' = FALSE
      /\ available_' = available_ /\ running_' = running_
      /\ wpc' = wpc /\ promised' = promised /\ pool' = pool
  BY DEF run, waitVars
<1>4. /\ Len(tasks_) \in Nat /\ tasks_' \in Seq(Tasks) /\ tasks_' # <<>>
      /\ Len(tasks_') = Len(tasks_) + 1
      /\ \A i \in 1 .. Len(tasks_) : tasks_'[i] = tasks_[i]
      /\ tasks_'[Len(tasks_) + 1] = task
  BY <1>3, AppendFacts DEF TypeOK
<1>5. TypeOK' BY <1>1, <1>3, <1>4 DEF TypeOK
<1>6. WorkInv'
  <2>1. \A i \in 1 .. Len(tasks_') :
           i \in 1 .. Len(tasks_) \/ (i = Len(tasks_) + 1 /\ tasks_'[i] = task)
    BY <1>4
  <2>2. (finished \subseteq submitted)'
        /\ (\A i \in 1 .. Len(tasks_) : tasks_[i] \in submitted \ finished)'
    BY <1>3, <1>4, <2>1 DEF WorkInv
  <2>3. (\A i, j \in 1 .. Len(tasks_) : tasks_[i] = tasks_[j] => i = j)'
    BY <1>3, <1>4, <2>1 DEF WorkInv
  <2>4. (\A th \in Running : current[th] \in submitted \ finished)'
        /\ (\A th, th2 \in Running : current[th] = current[th2] => th = th2)'
    BY <1>2, <1>3 DEF WorkInv
  <2>5. (\A th \in Running : \A i \in 1 .. Len(tasks_) :
           tasks_[i] # current[th])'
    BY <1>2, <1>3, <1>4, <2>1 DEF WorkInv
  <2>6. (\A t \in submitted :
           \/ t \in finished
           \/ \E i \in 1 .. Len(tasks_) : tasks_[i] = t
           \/ \E th \in Running : current[th] = t)'
    <3> SUFFICES ASSUME NEW t \in submitted'
                 PROVE  \/ t \in finished
                        \/ \E i \in 1 .. Len(tasks_') : tasks_'[i] = t
                        \/ \E th \in Running : current[th] = t
      BY <1>2, <1>3
    <3>1. CASE t = task BY <3>1, <1>4
    <3>2. CASE t \in submitted
      <4>1. CASE \E i \in 1 .. Len(tasks_) : tasks_[i] = t BY <4>1, <1>4
      <4> QED BY <4>1, <3>2 DEF WorkInv
    <3> QED BY <3>1, <3>2, <1>3
  <2> QED BY <2>2, <2>3, <2>4, <2>5, <2>6 DEF WorkInv
<1>7. CountInv' BY <1>2, <1>3, <1>4 DEF CountInv, total_
<1>8. WaitInv' BY <1>3 DEF WaitInv
<1>9. WorkConserving'
  <2> SUFFICES ASSUME running_, Sleeping' # {}
               PROVE  Len(tasks_') <= Cardinality(Awake')
    BY <1>3 DEF WorkConserving
  <2>1. PICK x \in Sleeping : wake = {x} BY <1>1, <1>2
  <2>2. x \notin Awake BY <1>2, <2>1
  <2>3. Cardinality(Awake') = Cardinality(Awake) + 1
    BY <1>2, <2>1, <2>2, FinitePlaces, FS_AddElement
  <2>4. Len(tasks_) <= Cardinality(Awake) BY <2>1 DEF WorkConserving
  <2> QED BY <2>3, <2>4, <1>4, FinitePlaces
<1> QED BY <1>5, <1>6, <1>7, <1>8, <1>9

(* The state of one thread decides who runs and who is awake. *)
LEMMA OneThreadMoves ==
  ASSUME TypeOK, NEW th \in Threads, NEW to,
         pc' = [pc EXCEPT ![th] = to]
  PROVE  /\ to # "running" => Running' = Running \ {th}
         /\ to = "running" => Running' = Running \cup {th}
         /\ to # "acquire" => Awake' = Awake \ {th}
         /\ to # "waiting" => Sleeping' = Sleeping \ {th}
BY DEF TypeOK, Running, Awake, Sleeping

(* A thread that has taken a task from the queue works on it: what th      *)
(* worked on before is finished (done), and everything else is where it    *)
(* was.                                                                    *)
LEMMA TakeTaskWork ==
  ASSUME PoolInv, NEW th \in Threads, NEW avail, TakeTask(th, avail),
         NEW done \in SUBSET Tasks,
         finished' = finished \cup done, submitted' = submitted,
         running_' = running_,
         done = IF th \in Running THEN {current[th]} ELSE {}
  PROVE  WorkInv'
<1> USE DEF PoolInv
<1>0. /\ done \subseteq submitted
      /\ \A i \in 1 .. Len(tasks_) : tasks_[i] \notin done
      /\ \A u \in Running \ {th} : current[u] \notin done
  BY DEF WorkInv, Running
<1>1. Len(tasks_) \in Nat BY DEF TypeOK
<1>2. CASE ~ running_ \/ tasks_ = <<>>
  <2>1. PICK to : to # "running" /\ pc' = [pc EXCEPT ![th] = to]
    BY <1>2 DEF TakeTask
  <2>2. Running' = Running \ {th} BY <2>1, OneThreadMoves
  <2>3. tasks_' = tasks_ /\ \A u \in Threads \ {th} : current'[u] = current[u]
    BY <1>2 DEF TakeTask, TypeOK
  <2>4. Running' \subseteq Threads BY <2>2 DEF Running
  <2>5. (\A task \in submitted :
           \/ task \in finished
           \/ \E i \in 1 .. Len(tasks_) : tasks_[i] = task
           \/ \E u \in Running : current[u] = task)'
    BY <2>2, <2>3, <2>4 DEF WorkInv
  <2> QED BY <1>0, <2>2, <2>3, <2>4, <2>5 DEF WorkInv
<1>3. CASE running_ /\ tasks_ # <<>>
  <2>1. /\ pc' = [pc EXCEPT ![th] = "running"]
        /\ current' = [current EXCEPT ![th] = Head(tasks_)]
        /\ tasks_' = Tail(tasks_)
    BY <1>3 DEF TakeTask
  <2>2. Running' = Running \cup {th} BY <2>1, OneThreadMoves
  <2>3. /\ Len(tasks_) \in Nat \ {0} /\ Len(tasks_') = Len(tasks_) - 1
        /\ current'[th] = tasks_[1]
        /\ \A i \in 1 .. Len(tasks_') : tasks_'[i] = tasks_[i + 1]
                                        /\ i + 1 \in 1 .. Len(tasks_)
        /\ 1 \in 1 .. Len(tasks_)
    BY <1>3, <2>1, TailFacts DEF TypeOK
  <2>4. \A u \in Running' \ {th} : u \in Running /\ current'[u] = current[u]
    BY <2>1, <2>2 DEF TypeOK, Running
  <2>5. (finished \subseteq submitted)'
        /\ (\A i \in 1 .. Len(tasks_) : tasks_[i] \in submitted \ finished)'
    BY <1>0, <2>3 DEF WorkInv
  <2>6. (\A i, j \in 1 .. Len(tasks_) : tasks_[i] = tasks_[j] => i = j)'
    <3> SUFFICES ASSUME NEW i \in 1 .. Len(tasks_'), NEW j \in 1 .. Len(tasks_'),
                        tasks_'[i] = tasks_'[j]
                 PROVE  i = j
      OBVIOUS
    <3>1. tasks_[i + 1] = tasks_[j + 1] /\ i + 1 \in 1 .. Len(tasks_)
          /\ j + 1 \in 1 .. Len(tasks_)
      BY <2>3
    <3>2. i + 1 = j + 1 BY <3>1 DEF WorkInv
    <3> QED BY <3>2
  <2>7. (\A u \in Running : current[u] \in submitted \ finished)'
    BY <1>0, <2>2, <2>3, <2>4 DEF WorkInv
  <2>8. (\A u \in Running : \A i \in 1 .. Len(tasks_) : tasks_[i] # current[u])'
    <3> SUFFICES ASSUME NEW u \in Running', NEW i \in 1 .. Len(tasks_')
                 PROVE  tasks_'[i] # current'[u]
      OBVIOUS
    <3>1. tasks_'[i] = tasks_[i + 1] /\ i + 1 \in 1 .. Len(tasks_) /\ i + 1 # 1
      BY <2>3
    <3>2. CASE u = th BY <3>1, <3>2, <2>3 DEF WorkInv
    <3>3. CASE u # th BY <3>1, <3>3, <2>4 DEF WorkInv
    <3> QED BY <3>2, <3>3
  <2>9. (\A u, v \in Running : current[u] = current[v] => u = v)'
    BY <2>3, <2>4 DEF WorkInv
  <2>10. (\A task \in submitted :
            \/ task \in finished
            \/ \E i \in 1 .. Len(tasks_) : tasks_[i] = task
            \/ \E u \in Running : current[u] = task)'
    <3> SUFFICES ASSUME NEW task \in submitted, task \notin finished'
                 PROVE  \/ \E i \in 1 .. Len(tasks_') : tasks_'[i] = task
                        \/ \E u \in Running' : current'[u] = task
      OBVIOUS
    <3>1. CASE \E i \in 1 .. Len(tasks_) : tasks_[i] = task
      <4>1. PICK i \in 1 .. Len(tasks_) : tasks_[i] = task BY <3>1
      <4>2. CASE i = 1 BY <4>1, <4>2, <2>2, <2>3
      <4>3. CASE i # 1
        <5>1. i - 1 \in 1 .. Len(tasks_') /\ (i - 1) + 1 = i BY <4>3, <2>3
        <5>2. tasks_'[i - 1] = tasks_[i] BY <5>1, <2>3
        <5> QED BY <5>1, <5>2, <4>1
      <4> QED BY <4>2, <4>3
    <3>2. CASE \E u \in Running : current[u] = task
      <4>1. PICK u \in Running : current[u] = task BY <3>2
      <4>2. u # th BY <4>1
      <4> QED BY <4>1, <4>2, <2>2, <2>4
    <3> QED BY <3>1, <3>2 DEF WorkInv
  <2> QED BY <2>5, <2>6, <2>7, <2>8, <2>9, <2>10 DEF WorkInv
<1> QED BY <1>2, <1>3

(* main_loop() after a wake-up or at its start: a thread that is awake     *)
(* exits, goes to sleep or takes one of the queued tasks with it.          *)
LEMMA AcquirePool ==
  ASSUME PoolInv, NEW th \in Threads, Acquire(th)
  PROVE  PoolInv'
<1> USE DEF PoolInv
<1>1. /\ th \in Awake /\ th \notin Running /\ th \notin Sleeping
      /\ TakeTask(th, available_)
      /\ running_' = running_ /\ complete_' = complete_ /\ wpc' = wpc
      /\ promised' = promised /\ pool' = pool /\ submitted' = submitted
      /\ finished' = finished
  BY DEF Acquire, waitVars, Awake, Running, Sleeping
<1>2. WorkInv'
  <2>1. finished' = finished \cup {} BY <1>1
  <2>2. {} = IF th \in Running THEN {current[th]} ELSE {} BY <1>1
  <2> QED BY <1>1, <2>1, <2>2, TakeTaskWork
<1>3. WaitInv' BY <1>1 DEF WaitInv
<1>4. CASE ~ running_ \/ tasks_ = <<>>
  <2>1. PICK to \in {"exited", "waiting"} :
           /\ pc' = [pc EXCEPT ![th] = to]
           /\ to = "waiting" => tasks_ = <<>>
    BY <1>1, <1>4 DEF TakeTask
  <2>2. /\ tasks_' = tasks_ /\ available_' = available_
        /\ current' = [current EXCEPT ![th] = NoTask]
    BY <1>1, <1>4 DEF TakeTask
  <2>3. Running' = Running
    <3>1. Running' = Running \ {th} BY <2>1, OneThreadMoves
    <3> QED BY <1>1, <3>1
  <2>4. TypeOK' BY <1>1, <2>1, <2>2 DEF TypeOK
  <2>5. CountInv' BY <1>1, <2>2, <2>3 DEF CountInv, total_
  <2>6. WorkConserving'
    <3>1. CASE tasks_ = <<>>
      <4>1. Len(tasks_') = 0 BY <2>2, <3>1
      <4>2. Cardinality(Awake') \in Nat
        <5>1. Awake' = Awake \ {th} BY <2>1, OneThreadMoves
        <5> QED BY <5>1, FinitePlaces, FS_Subset, FS_CardinalityType
      <4> QED BY <4>1, <4>2 DEF WorkConserving
    <3>2. CASE ~ running_ BY <3>2, <1>1 DEF WorkConserving
    <3> QED BY <1>4, <3>1, <3>2
  <2> QED BY <1>2, <1>3, <2>4, <2>5, <2>6
<1>5. CASE running_ /\ tasks_ # <<>>
  <2>1. /\ pc' = [pc EXCEPT ![th] = "running"]
        /\ current' = [current EXCEPT ![th] = Head(tasks_)]
        /\ available_' = available_ - 1
        /\ tasks_' = Tail(tasks_)
    BY <1>1, <1>5 DEF TakeTask
  <2>2. /\ Running' = Running \cup {th} /\ Awake' = Awake \ {th}
        /\ Sleeping' = Sleeping
    <3>1. /\ Running' = Running \cup {th} /\ Awake' = Awake \ {th}
          /\ Sleeping' = Sleeping \ {th}
      BY <2>1, OneThreadMoves
    <3> QED BY <1>1, <3>1
  <2>3. /\ Len(tasks_) \in Nat \ {0} /\ Len(tasks_') = Len(tasks_) - 1
        /\ tasks_' \in Seq(Tasks) /\ Head(tasks_) \in Tasks
    BY <1>5, <2>1, TailFacts DEF TypeOK
  <2>4. /\ Cardinality(Running') = Cardinality(Running) + 1
        /\ Cardinality(Running') <= total_
    <3>1. Cardinality(Running \cup {th}) = Cardinality(Running) + 1
      BY <1>1, FinitePlaces, FS_AddElement
    <3>2. Running \cup {th} \subseteq Threads BY DEF Running
    <3>3. Cardinality(Running \cup {th}) <= total_
      BY <3>2, ThreadPoolAssumption, FS_Subset DEF total_
    <3> QED BY <3>1, <3>3, <2>2
  <2>5. available_' = total_ - Cardinality(Running') /\ available_' \in 0 .. total_
    BY <2>1, <2>4, FinitePlaces DEF CountInv
  <2>6. TypeOK' BY <1>1, <2>1, <2>3, <2>5 DEF TypeOK, total_
  <2>7. CountInv'
    <3>1. complete_' = FALSE BY <1>1, <1>5 DEF CountInv
    <3>2. Running' # {} BY <2>2
    <3> QED BY <2>5, <3>1, <3>2 DEF CountInv, total_
  <2>8. WorkConserving'
    <3>1. Cardinality(Awake') = Cardinality(Awake) - 1
      BY <1>1, <2>2, FinitePlaces, FS_RemoveElement
    <3> QED BY <1>1, <2>2, <2>3, <3>1, FinitePlaces DEF WorkConserving
  <2> QED BY <1>2, <1>3, <2>6, <2>7, <2>8
<1> QED BY <1>4, <1>5

(* A task ends: the thread sets complete_ exactly when the queue is empty  *)
(* and it was the only thread that ran a task.                             *)
LEMMA TaskDonePool ==
  ASSUME PoolInv, NEW th \in Threads, TaskDone(th)
  PROVE  PoolInv'
<1> USE DEF PoolInv
<1>1. /\ th \in Running /\ th \notin Awake /\ th \notin Sleeping
      /\ TakeTask(th, available_ + 1)
      /\ running_' = running_ /\ promised' = promised /\ pool' = pool
      /\ submitted' = submitted /\ finished' = finished \cup {current[th]}
  BY DEF TaskDone, Awake, Running, Sleeping
<1>2. WorkInv'
  <2>1. current[th] \in Tasks BY <1>1 DEF WorkInv, TypeOK
  <2>2. {current[th]} = IF th \in Running THEN {current[th]} ELSE {} BY <1>1
  <2>3. {current[th]} \in SUBSET Tasks BY <2>1
  <2> QED BY <1>1, <2>2, <2>3, TakeTaskWork
<1>3. /\ Cardinality(Running \ {th}) = Cardinality(Running) - 1
      /\ IsFiniteSet(Running \ {th})
      /\ Cardinality(Running) >= 1
  <2>1. /\ Cardinality(Running \ {th}) = Cardinality(Running) - 1
        /\ IsFiniteSet(Running \ {th})
    BY <1>1, FinitePlaces, FS_RemoveElement
  <2>2. Cardinality(Running \ {th}) \in Nat BY <2>1, FS_CardinalityType
  <2> QED BY <2>1, <2>2, FinitePlaces
<1>4. available_ + 1 = total_ <=> Running \ {th} = {}
  <2>1. available_ + 1 = total_ <=> Cardinality(Running \ {th}) = 0
    BY <1>3, FinitePlaces DEF CountInv
  <2> QED BY <2>1, <1>3, FS_EmptySet
<1>5. /\ wpc' \in [Waiters -> {"idle", "waiting", "acquire", "returned"}]
      /\ \A w \in Waiters : wpc'[w] = "returned" => wpc[w] = "returned"
  <2>1. CASE tasks_ = <<>> /\ available_ + 1 = total_
    <3>1. WakeOne(wpc, wpc') BY <2>1 DEF TaskDone
    <3>2. CASE \E x \in DOMAIN wpc : wpc[x] = "waiting"
      <4>1. PICK x \in DOMAIN wpc : wpc' = [wpc EXCEPT ![x] = "acquire"]
        BY <3>1, <3>2 DEF WakeOne
      <4> QED BY <4>1 DEF TypeOK
    <3>3. CASE ~ \E x \in DOMAIN wpc : wpc[x] = "waiting"
      <4>1. wpc' = wpc BY <3>1, <3>3 DEF WakeOne
      <4> QED BY <4>1 DEF TypeOK
    <3> QED BY <3>2, <3>3
  <2>2. CASE ~ (tasks_ = <<>> /\ available_ + 1 = total_)
    <3>1. wpc' = wpc BY <2>2 DEF TaskDone
    <3> QED BY <3>1 DEF TypeOK
  <2> QED BY <2>1, <2>2
<1>6. WaitInv' BY <1>1, <1>5 DEF WaitInv
<1>7. complete_' = (tasks_ = <<>> /\ available_ + 1 = total_)
  <2>1. complete_ = FALSE BY <1>1 DEF CountInv
  <2> QED BY <2>1 DEF TaskDone
<1>8. finished' \in SUBSET Tasks BY <1>1 DEF WorkInv, TypeOK
<1>9. CASE ~ running_ \/ tasks_ = <<>>
  <2>1. PICK to \in {"exited", "waiting"} : pc' = [pc EXCEPT ![th] = to]
    BY <1>1, <1>9 DEF TakeTask
  <2>2. /\ tasks_' = tasks_ /\ available_' = available_ + 1
        /\ current' = [current EXCEPT ![th] = NoTask]
    BY <1>1, <1>9 DEF TakeTask
  <2>3. Running' = Running \ {th} /\ Awake' = Awake
    <3>1. Running' = Running \ {th} /\ Awake' = Awake \ {th}
      BY <2>1, OneThreadMoves
    <3> QED BY <1>1, <3>1
  <2>4. available_' = total_ - Cardinality(Running') /\ available_' \in 0 .. total_
    BY <2>2, <2>3, <1>3, FinitePlaces DEF CountInv
  <2>5. TypeOK' BY <1>1, <1>5, <1>7, <1>8, <2>1, <2>2, <2>4 DEF TypeOK, total_
  <2>6. CountInv'
    <3>1. complete_' = (tasks_' = <<>> /\ Running' = {})
      BY <1>4, <1>7, <2>2, <2>3
    <3> QED BY <2>4, <3>1 DEF CountInv, total_
  <2>7. WorkConserving'
    <3>1. CASE tasks_ = <<>>
      <4>1. Len(tasks_') = 0 BY <2>2, <3>1
      <4> QED BY <4>1, <2>3, FinitePlaces DEF WorkConserving
    <3>2. CASE ~ running_ BY <3>2, <1>1 DEF WorkConserving
    <3> QED BY <1>9, <3>1, <3>2
  <2> QED BY <1>2, <1>6, <2>5, <2>6, <2>7
<1>10. CASE running_ /\ tasks_ # <<>>
  <2>1. /\ pc' = [pc EXCEPT ![th] = "running"]
        /\ current' = [current EXCEPT ![th] = Head(tasks_)]
        /\ available_' = available_ + 1 - 1
        /\ tasks_' = Tail(tasks_)
    BY <1>1, <1>10 DEF TakeTask, TypeOK
  <2>2. Running' = Running /\ Awake' = Awake /\ Sleeping' = Sleeping
    <3>1. /\ Running' = Running \cup {th} /\ Awake' = Awake \ {th}
          /\ Sleeping' = Sleeping \ {th}
      BY <2>1, OneThreadMoves
    <3> QED BY <1>1, <3>1
  <2>3. /\ Len(tasks_) \in Nat \ {0} /\ Len(tasks_') = Len(tasks_) - 1
        /\ tasks_' \in Seq(Tasks) /\ Head(tasks_) \in Tasks
    BY <1>10, <2>1, TailFacts DEF TypeOK
  <2>4. available_' = available_ BY <2>1, FinitePlaces DEF TypeOK
  <2>5. TypeOK' BY <1>1, <1>5, <1>7, <1>8, <2>1, <2>3, <2>4 DEF TypeOK, total_
  <2>6. CountInv'
    <3>1. complete_' = FALSE /\ Running' # {} BY <1>1, <1>7, <1>10, <2>2
    <3> QED BY <2>2, <2>4, <3>1 DEF CountInv, total_
  <2>7. WorkConserving'
    BY <1>1, <2>2, <2>3, FinitePlaces DEF WorkConserving
  <2> QED BY <1>2, <1>6, <2>5, <2>6, <2>7
<1> QED BY <1>9, <1>10

(* waitWorkComplete(), at its start and after a wake-up, returns only when *)
(* complete_ is set, and then everything submitted so far is finished.     *)
LEMMA WaiterPool ==
  ASSUME PoolInv, NEW w \in Waiters, waitWorkComplete(w) \/ WaitAgain(w)
  PROVE  PoolInv'
<1> USE DEF PoolInv
<1>1. UNCHANGED <<tasks_, running_, complete_, available_, pc, current, pool,
                  submitted, finished>>
  BY DEF waitWorkComplete, WaitAgain, threadVars
<1>2. /\ wpc' = [wpc EXCEPT ![w] = IF complete_ THEN "returned" ELSE "waiting"]
      /\ promised' \in {promised, [promised EXCEPT ![w] = submitted]}
  BY DEF waitWorkComplete, WaitAgain
<1>3. TypeOK' BY <1>1, <1>2 DEF TypeOK, total_
<1>4. WorkInv' BY <1>1 DEF WorkInv, Running
<1>5. CountInv' BY <1>1 DEF CountInv, Running, total_
<1>6. WorkConserving' BY <1>1 DEF WorkConserving, Sleeping, Awake
<1>7. complete_ => submitted = finished BY WorkDone DEF CountInv
<1>8. WaitInv'
  <2> SUFFICES ASSUME NEW v \in Waiters
               PROVE  /\ promised'[v] \subseteq submitted
                      /\ wpc'[v] = "returned" => promised'[v] \subseteq finished
    BY <1>1 DEF WaitInv
  <2>1. CASE v = w BY <1>2, <1>7, <2>1 DEF WaitInv, TypeOK
  <2>2. CASE v # w BY <1>2, <2>2 DEF WaitInv, TypeOK
  <2> QED BY <2>1, <2>2
<1> QED BY <1>3, <1>4, <1>5, <1>6, <1>8

(* A wake-up that nobody asked for makes a thread or a waiter look again. *)
LEMMA SpuriousPool ==
  ASSUME PoolInv, SpuriousWakeup
  PROVE  PoolInv'
<1> USE DEF PoolInv
<1>1. UNCHANGED <<tasks_, running_, complete_, available_, current, promised,
                  pool, submitted, finished>>
  BY DEF SpuriousWakeup
<1>2. CASE \E th \in Sleeping : pc' = [pc EXCEPT ![th] = "acquire"] /\ wpc' = wpc
  <2>1. PICK th \in Sleeping : pc' = [pc EXCEPT ![th] = "acquire"] /\ wpc' = wpc
    BY <1>2
  <2>2. th \in Threads /\ th \notin Running /\ th \notin Awake
    BY <2>1 DEF Sleeping, Running, Awake
  <2>3. /\ Running' = Running /\ Sleeping' = Sleeping \ {th}
        /\ Awake' = Awake \cup {th}
    BY <2>1, <2>2 DEF Running, Sleeping, Awake, TypeOK
  <2>4. TypeOK' BY <1>1, <2>1, <2>2 DEF TypeOK, total_
  <2>5. WorkInv' BY <1>1, <2>3 DEF WorkInv
  <2>6. CountInv' BY <1>1, <2>3 DEF CountInv, total_
  <2>7. WaitInv' BY <1>1, <2>1 DEF WaitInv
  <2>8. WorkConserving'
    <3>1. Cardinality(Awake') = Cardinality(Awake) + 1
      BY <2>2, <2>3, FinitePlaces, FS_AddElement
    <3>2. Len(tasks_) \in Nat BY DEF TypeOK
    <3> QED BY <1>1, <2>3, <3>1, <3>2, FinitePlaces DEF WorkConserving
  <2> QED BY <2>4, <2>5, <2>6, <2>7, <2>8
<1>3. CASE \E w \in Waiters : /\ wpc[w] = "waiting" /\ pc' = pc
                              /\ wpc' = [wpc EXCEPT ![w] = "acquire"]
  <2>1. TypeOK' BY <1>1, <1>3 DEF TypeOK, total_
  <2>2. WorkInv' BY <1>1, <1>3 DEF WorkInv, Running
  <2>3. CountInv' BY <1>1, <1>3 DEF CountInv, Running, total_
  <2>4. WaitInv' BY <1>1, <1>3 DEF WaitInv, TypeOK
  <2>5. WorkConserving' BY <1>1, <1>3 DEF WorkConserving, Sleeping, Awake
  <2> QED BY <2>1, <2>2, <2>3, <2>4, <2>5
<1> QED BY <1>2, <1>3 DEF SpuriousWakeup

(* The destructor wakes every thread and lets running tasks end. *)
LEMMA DestroyPool ==
  ASSUME PoolInv, Destroy \/ Join
  PROVE  PoolInv'
<1> USE DEF PoolInv
<1>1. UNCHANGED <<tasks_, complete_, available_, current, wpc, promised,
                  submitted, finished>>
  BY DEF Destroy, Join, threadVars, waitVars
<1>2. CASE Destroy
  <2>1. Running' = Running BY <1>2 DEF Destroy, Running, Sleeping, TypeOK
  <2>2. TypeOK' BY <1>1, <1>2 DEF Destroy, TypeOK, total_
  <2>3. WorkInv' BY <1>1, <2>1 DEF WorkInv
  <2>4. CountInv' BY <1>1, <2>1 DEF CountInv, total_
  <2>5. WaitInv' BY <1>1 DEF WaitInv
  <2>6. WorkConserving' BY <1>2 DEF Destroy, WorkConserving
  <2> QED BY <2>2, <2>3, <2>4, <2>5, <2>6
<1>3. CASE Join
  <2>1. pc' = pc /\ running_' = running_ BY <1>3 DEF Join, threadVars
  <2>2. TypeOK' BY <1>1, <1>3, <2>1 DEF Join, TypeOK, total_
  <2>3. WorkInv' BY <1>1, <2>1 DEF WorkInv, Running
  <2>4. CountInv' BY <1>1, <2>1 DEF CountInv, Running, total_
  <2>5. WaitInv' BY <1>1 DEF WaitInv
  <2>6. WorkConserving' BY <1>1, <2>1 DEF WorkConserving, Sleeping, Awake
  <2> QED BY <2>2, <2>3, <2>4, <2>5, <2>6
<1> QED BY <1>2, <1>3

(* Every step of the pool preserves the invariant. *)
LEMMA NextPool == PoolInv /\ [Next]_vars => PoolInv'
<1> SUFFICES ASSUME PoolInv, [Next]_vars PROVE PoolInv' OBVIOUS
<1>1. CASE \E task \in Tasks : run(task) BY <1>1, RunPool
<1>2. CASE \E th \in Threads : Acquire(th) \/ TaskDone(th)
  BY <1>2, AcquirePool, TaskDonePool
<1>3. CASE \E w \in Waiters : waitWorkComplete(w) \/ WaitAgain(w)
  BY <1>3, WaiterPool
<1>4. CASE SpuriousWakeup BY <1>4, SpuriousPool
<1>5. CASE Destroy \/ Join BY <1>5, DestroyPool
<1>6. CASE UNCHANGED vars
  <2> USE <1>6 DEF vars, threadVars, waitVars, PoolInv
  <2>1. TypeOK' BY DEF TypeOK, total_
  <2>2. WorkInv' BY DEF WorkInv, Running
  <2>3. CountInv' BY DEF CountInv, Running, total_
  <2>4. WaitInv' BY DEF WaitInv
  <2>5. WorkConserving' BY DEF WorkConserving, Sleeping, Awake
  <2> QED BY <2>1, <2>2, <2>3, <2>4, <2>5
<1> QED BY <1>1, <1>2, <1>3, <1>4, <1>5, <1>6 DEF Next

(* The inductive invariant of the pool. *)
THEOREM PoolInvariant == Spec => []PoolInv
BY InitPool, NextPool, PTL DEF Spec

(* complete_ is set exactly when everything submitted has been executed,   *)
(* and available_ counts the threads without a task, for every number of   *)
(* threads: the test `tasks_.empty() && available_ == total_` of           *)
(* main_loop() misses no end of the work and reports none too early.       *)
THEOREM CompleteIsExact == Spec => []CompleteExact
<1>1. PoolInv => CompleteExact
  BY WorkDone DEF PoolInv, CountInv, CompleteExact
<1> QED BY <1>1, PoolInvariant, PTL

(* waitWorkComplete() returns only when everything submitted before the    *)
(* call has been executed, also when run() is called meanwhile and when    *)
(* wake-ups are spurious.                                                  *)
THEOREM WaitIsSound == Spec => []WaitSound
<1>1. PoolInv => WaitSound BY DEF PoolInv, WaitInv, WaitSound
<1> QED BY <1>1, PoolInvariant, PTL

(* One notify_one() per run() is enough: a thread sleeps only while every  *)
(* queued task has an awake thread on its way to it.                       *)
THEOREM PoolIsWorkConserving == Spec => []WorkConserving
<1>1. PoolInv => WorkConserving BY DEF PoolInv
<1> QED BY <1>1, PoolInvariant, PTL
=============================================================================
