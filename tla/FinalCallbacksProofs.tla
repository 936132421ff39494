------------------------ MODULE FinalCallbacksProofs ------------------------
(***************************************************************************)
(* The final callbacks when calls of execute() do not overlap: for any     *)
(* number of calls and of callbacks, every callback of a call that returns *)
(* has been called once and in order, and no call runs another one's       *)
(* callbacks.                                                              *)
(***************************************************************************)
EXTENDS FinalCallbacks, TLAPS

(* One call of execute() at a time: no other thread is inside it, and no   *)
(* function or callback calls it.  The vector belongs to the process, so   *)
(* without this another call may clear it at any moment.                   *)
Sequential == ~Overlap /\ \A r \in Runs : Outer[r] = NoRun

(* The first n callbacks queued for r. *)
FirstOf(r, n) == [m \in 1 .. n |-> <<r, m>>]

(* A call that has not started has no history. *)
IdleInv ==
  \A r \in Runs : pc[r] = "idle" =>
    queued[r] = 0 /\ i[r] = 1 /\ called[r] = <<>>

(* The vector holds exactly what was queued for the call under way, until  *)
(* its loop is left.                                                       *)
VectorInv ==
  \A r \in Active :
    /\ \A s \in Active : s = r
    /\ Listening(r) => final_callbacks = FirstOf(r, queued[r])

(* The loop has called the callbacks before index i, and the one at i once *)
(* it is running; the index is past the end only when the loop is left.    *)
LoopInv ==
  \A r \in Runs :
    /\ pc[r] = "backward" => i[r] = 1
    /\ pc[r] \in {"backward", "loop"} => i[r] <= queued[r] + 1
    /\ pc[r] \in {"call", "callback"} => i[r] <= queued[r]
    /\ pc[r] = "clear" => i[r] = queued[r] + 1
    /\ pc[r] \in {"backward", "loop", "call", "clear"} =>
         called[r] = FirstOf(r, i[r] - 1)
    /\ pc[r] = "callback" => called[r] = FirstOf(r, i[r])

CallbackInv ==
  /\ TypeOK
  /\ IdleInv
  /\ VectorInv
  /\ LoopInv
  /\ CallbacksRun
  /\ OwnCallbacksOnly

-----------------------------------------------------------------------------
(* Queueing or calling one more callback extends the sequence by one. *)
LEMMA FirstOfAppend ==
  ASSUME NEW r, NEW n \in Nat
  PROVE  /\ FirstOf(r, 0) = <<>>
         /\ FirstOf(r, n) \in Seq({r} \X (1 .. n))
         /\ Len(FirstOf(r, n)) = n
         /\ \A m \in 1 .. n : FirstOf(r, n)[m] = <<r, m>>
         /\ Append(FirstOf(r, n), <<r, n + 1>>) = FirstOf(r, n + 1)
<1>1. /\ FirstOf(r, n) \in Seq({r} \X (1 .. n))
      /\ Len(FirstOf(r, n)) = n
      /\ \A m \in 1 .. n : FirstOf(r, n)[m] = <<r, m>>
      /\ DOMAIN FirstOf(r, n) = 1 .. n
  BY DEF FirstOf
<1>2. /\ FirstOf(r, n + 1) \in Seq({r} \X (1 .. n + 1))
      /\ Len(FirstOf(r, n + 1)) = n + 1
      /\ \A m \in 1 .. n + 1 : FirstOf(r, n + 1)[m] = <<r, m>>
  BY DEF FirstOf
<1>3. FirstOf(r, 0) = <<>> BY DEF FirstOf
<1>4. Append(FirstOf(r, n), <<r, n + 1>>) = FirstOf(r, n + 1)
  <2> DEFINE a == FirstOf(r, n)
             b == FirstOf(r, n + 1)
  <2>1. a \in Seq({r} \X Nat) /\ Len(a) = n /\ \A m \in 1 .. n : a[m] = <<r, m>>
    BY <1>1
  <2>2. b \in Seq({r} \X Nat) /\ Len(b) = n + 1
        /\ \A m \in 1 .. n + 1 : b[m] = <<r, m>>
    BY <1>2
  <2> HIDE DEF a, b
  <2>3. Append(a, <<r, n + 1>>) = b BY <2>1, <2>2
  <2> QED BY <2>3 DEF a, b
<1> QED BY <1>1, <1>3, <1>4

(* Only one call is under way, and it is alone in the vector. *)
LEMMA OnlyOne ==
  ASSUME VectorInv, NEW r \in Active
  PROVE  /\ Active = {r}
         /\ Listening(r) => final_callbacks = FirstOf(r, queued[r])
BY DEF VectorInv

(* No call has been made and nothing has been queued. *)
LEMMA CallbackInit == Init => CallbackInv
<1> SUFFICES ASSUME Init PROVE CallbackInv OBVIOUS
<1>1. TypeOK BY RunsAssumption DEF Init, TypeOK, Callback, Ended
<1>2. IdleInv /\ VectorInv BY DEF Init, IdleInv, VectorInv, Active
<1>3. LoopInv /\ CallbacksRun /\ OwnCallbacksOnly
  BY DEF Init, LoopInv, CallbacksRun, OwnCallbacksOnly
<1> QED BY <1>1, <1>2, <1>3 DEF CallbackInv

(* execute() clears the vector and starts with nothing queued for it. *)
LEMMA EnterStep ==
  ASSUME Sequential, CallbackInv, NEW r \in Runs, Enter(r)
  PROVE  CallbackInv'
<1> USE RunsAssumption
<1>1. /\ pc[r] = "idle" /\ Active = {} /\ DOMAIN pc = Runs
      /\ pc' = [pc EXCEPT ![r] = "backward"] /\ final_callbacks' = <<>>
      /\ UNCHANGED <<i, queued, called>>
  BY DEF Enter, Goto, Sequential, CallbackInv, TypeOK, Ended
<1>2. TypeOK' BY <1>1 DEF CallbackInv, TypeOK, Callback, Ended
<1>3. /\ pc'[r] = "backward" /\ \A s \in Runs \ {r} : pc'[s] = pc[s]
      /\ Active' = {r}
  BY <1>1 DEF Active, Ended
<1>4. queued[r] = 0 /\ i[r] = 1 /\ called[r] = <<>>
  BY <1>1 DEF CallbackInv, IdleInv
<1>5. IdleInv' BY <1>1, <1>3 DEF CallbackInv, IdleInv
<1>6. VectorInv'
  <2>1. final_callbacks' = FirstOf(r, 0) BY <1>1, FirstOfAppend
  <2>2. queued'[r] = 0 BY <1>1, <1>4
  <2> QED BY <1>3, <2>1, <2>2 DEF VectorInv
<1>7. LoopInv'
  <2>1. i[r] - 1 = 0 BY <1>4
  <2>2. FirstOf(r, i[r] - 1) = <<>> BY <2>1, FirstOfAppend
  <2> QED BY <1>1, <1>3, <1>4, <2>2 DEF CallbackInv, LoopInv
<1>8. CallbacksRun' BY <1>1, <1>3 DEF CallbackInv, CallbacksRun
<1>9. OwnCallbacksOnly' BY <1>1 DEF CallbackInv, OwnCallbacksOnly
<1> QED BY <1>2, <1>5, <1>6, <1>7, <1>8, <1>9 DEF CallbackInv

(* queue_callback(): the vector grows with what is queued for the call. *)
LEMMA QueueStep ==
  ASSUME Sequential, CallbackInv, NEW r \in Runs \cup {NoRun}, queue_callback(r)
  PROVE  CallbackInv'
<1> USE RunsAssumption
<1>1. /\ queued[r] < MaxCallbacks
      /\ queued' = [queued EXCEPT ![r] = @ + 1]
      /\ final_callbacks' = Append(final_callbacks, <<r, queued[r] + 1>>)
      /\ UNCHANGED <<pc, i, called>>
  BY DEF queue_callback
<1>2. queued \in [Runs \cup {NoRun} -> Nat] BY DEF CallbackInv, TypeOK
<1>3. TypeOK'
  <2>1. <<r, queued[r] + 1>> \in Callback /\ queued[r] + 1 \in 0 .. MaxCallbacks
    BY <1>1, <1>2 DEF Callback
  <2> QED BY <1>1, <2>1 DEF CallbackInv, TypeOK, Callback, Ended
<1>4. CASE r = NoRun
  <2>1. Active' = Active /\ \A s \in Active : ~ Listening(s) /\ ~ Listening(s)'
    BY <1>1, <1>4 DEF queue_callback, Active, Ended, Listening
  <2>2. \A s \in Runs : queued'[s] = queued[s] BY <1>1, <1>2, <1>4
  <2>3. IdleInv' /\ LoopInv' BY <1>1, <2>2 DEF CallbackInv, IdleInv, LoopInv
  <2>4. VectorInv' BY <2>1 DEF CallbackInv, VectorInv
  <2>5. CallbacksRun' BY <1>1, <2>2 DEF CallbackInv, CallbacksRun
  <2>6. OwnCallbacksOnly' BY <1>1 DEF CallbackInv, OwnCallbacksOnly
  <2> QED BY <1>3, <2>3, <2>4, <2>5, <2>6 DEF CallbackInv
<1>5. CASE r \in Runs
  <2>1. pc[r] \in {"backward", "loop", "call", "callback"} /\ r # NoRun
    BY <1>5 DEF queue_callback, Listening
  <2>2. r \in Active BY <1>5, <2>1 DEF Active, Ended
  <2>3. Active = {r} /\ final_callbacks = FirstOf(r, queued[r])
    BY <2>1, <2>2, OnlyOne DEF CallbackInv, Listening
  <2>4. Active' = {r} BY <1>1, <2>3 DEF Active
  <2>5. queued'[r] = queued[r] + 1 /\ \A s \in Runs \ {r} : queued'[s] = queued[s]
    BY <1>1, <1>2, <1>5
  <2>6. final_callbacks' = FirstOf(r, queued'[r])
    BY <1>1, <1>2, <1>5, <2>3, <2>5, FirstOfAppend
  <2>7. VectorInv' BY <2>4, <2>6 DEF VectorInv
  <2>8. IdleInv' BY <1>1, <2>1, <2>5 DEF CallbackInv, IdleInv
  <2>9. LoopInv'
    <3>1. i \in [Runs -> Nat] BY DEF CallbackInv, TypeOK
    <3> QED BY <1>1, <1>2, <1>5, <2>1, <2>5, <3>1 DEF CallbackInv, LoopInv
  <2>10. CallbacksRun' BY <1>1, <2>1, <2>5 DEF CallbackInv, CallbacksRun
  <2>11. OwnCallbacksOnly' BY <1>1 DEF CallbackInv, OwnCallbacksOnly
  <2> QED BY <1>3, <2>7, <2>8, <2>9, <2>10, <2>11 DEF CallbackInv
<1> QED BY <1>4, <1>5

(* The call under way throws, from its functions or from a callback. *)
LEMMA FailStep ==
  ASSUME CallbackInv, NEW r \in Runs, BackwardFails(r) \/ CallbackThrows(r)
  PROVE  CallbackInv'
<1> USE RunsAssumption
<1>1. /\ pc[r] \in {"backward", "callback"} /\ DOMAIN pc = Runs
      /\ pc' = [pc EXCEPT ![r] = "threw"] /\ final_callbacks' = <<>>
      /\ UNCHANGED <<i, queued, called>>
  BY DEF BackwardFails, CallbackThrows, Goto, CallbackInv, TypeOK, Ended
<1>2. r \in Active BY <1>1 DEF Active, Ended
<1>3. Active = {r} BY <1>2, OnlyOne DEF CallbackInv
<1>4. /\ pc'[r] = "threw" /\ \A s \in Runs \ {r} : pc'[s] = pc[s]
      /\ Active' = {}
  BY <1>1, <1>3 DEF Active, Ended
<1>5. TypeOK' BY <1>1 DEF CallbackInv, TypeOK, Callback, Ended
<1>6. IdleInv' /\ LoopInv' BY <1>1, <1>4 DEF CallbackInv, IdleInv, LoopInv
<1>7. VectorInv' BY <1>4 DEF VectorInv
<1>8. CallbacksRun' BY <1>1, <1>4 DEF CallbackInv, CallbacksRun
<1>9. OwnCallbacksOnly' BY <1>1 DEF CallbackInv, OwnCallbacksOnly
<1> QED BY <1>5, <1>6, <1>7, <1>8, <1>9 DEF CallbackInv

(* The loop starts at the first element. *)
LEMMA BackwardDoneStep ==
  ASSUME CallbackInv, NEW r \in Runs, BackwardDone(r)
  PROVE  CallbackInv'
<1> USE RunsAssumption
<1>1. /\ pc[r] = "backward" /\ DOMAIN pc = Runs
      /\ pc' = [pc EXCEPT ![r] = "loop"]
      /\ UNCHANGED <<final_callbacks, i, queued, called>>
  BY DEF BackwardDone, Goto, CallbackInv, TypeOK, Ended
<1>2. /\ pc'[r] = "loop" /\ \A s \in Runs \ {r} : pc'[s] = pc[s]
      /\ Active' = Active
  BY <1>1 DEF Active, Ended
<1>3. TypeOK' BY <1>1 DEF CallbackInv, TypeOK, Callback, Ended
<1>4. IdleInv' /\ LoopInv' BY <1>1, <1>2 DEF CallbackInv, IdleInv, LoopInv
<1>5. VectorInv' BY <1>1, <1>2 DEF CallbackInv, VectorInv, Listening
<1>6. CallbacksRun' BY <1>1, <1>2 DEF CallbackInv, CallbacksRun
<1>7. OwnCallbacksOnly' BY <1>1 DEF CallbackInv, OwnCallbacksOnly
<1> QED BY <1>3, <1>4, <1>5, <1>6, <1>7 DEF CallbackInv

(* The loop condition compares the index with what has been queued. *)
LEMMA LoopTestStep ==
  ASSUME CallbackInv, NEW r \in Runs, LoopTest(r)
  PROVE  CallbackInv'
<1> USE RunsAssumption
<1> DEFINE where == IF i[r] <= Len(final_callbacks) THEN "call" ELSE "clear"
<1>1. /\ pc[r] = "loop" /\ DOMAIN pc = Runs
      /\ pc' = [pc EXCEPT ![r] = where]
      /\ UNCHANGED <<final_callbacks, i, queued, called>>
  BY DEF LoopTest, Goto, CallbackInv, TypeOK, Ended
<1>2. where \in {"call", "clear"} OBVIOUS
<1>3. i[r] \in Nat /\ queued[r] \in Nat BY DEF CallbackInv, TypeOK
<1>4. /\ where = "call" => i[r] <= queued[r]
      /\ where = "clear" => i[r] = queued[r] + 1
  <2>1. r \in Active BY <1>1 DEF Active, Ended
  <2>2. final_callbacks = FirstOf(r, queued[r])
    BY <1>1, <2>1, OnlyOne DEF CallbackInv, Listening
  <2>3. Len(FirstOf(r, queued[r])) = queued[r] BY <1>3, FirstOfAppend
  <2>4. i[r] <= queued[r] + 1 BY <1>1 DEF CallbackInv, LoopInv
  <2> QED BY <1>3, <2>2, <2>3, <2>4
<1> HIDE DEF where
<1>5. /\ pc'[r] = where /\ \A s \in Runs \ {r} : pc'[s] = pc[s]
      /\ Active' = Active
  BY <1>1, <1>2 DEF Active, Ended
<1>6. TypeOK' BY <1>1, <1>2 DEF CallbackInv, TypeOK, Callback, Ended
<1>7. IdleInv' /\ LoopInv'
  BY <1>1, <1>2, <1>4, <1>5 DEF CallbackInv, IdleInv, LoopInv
<1>8. VectorInv' BY <1>1, <1>5 DEF CallbackInv, VectorInv, Listening
<1>9. CallbacksRun' BY <1>1, <1>2, <1>5 DEF CallbackInv, CallbacksRun
<1>10. OwnCallbacksOnly' BY <1>1 DEF CallbackInv, OwnCallbacksOnly
<1> QED BY <1>6, <1>7, <1>8, <1>9, <1>10 DEF CallbackInv

(* The element the loop calls is the next one queued for this call. *)
LEMMA CallStep ==
  ASSUME CallbackInv, NEW r \in Runs, Call(r)
  PROVE  CallbackInv'
<1> USE RunsAssumption
<1>1. /\ pc[r] = "call" /\ DOMAIN pc = Runs
      /\ pc' = [pc EXCEPT ![r] = "callback"]
      /\ UNCHANGED <<final_callbacks, i, queued>>
  BY DEF Call, Goto, CallbackInv, TypeOK, Ended
<1>2. /\ i[r] \in Nat \ {0} /\ queued[r] \in Nat /\ i[r] <= queued[r]
      /\ queued[r] <= MaxCallbacks /\ MaxCallbacks \in Nat
  BY <1>1 DEF CallbackInv, TypeOK, LoopInv
<1>3. r \in Active BY <1>1 DEF Active, Ended
<1>4. final_callbacks[i[r]] = <<r, i[r]>>
  <2>1. final_callbacks = FirstOf(r, queued[r])
    BY <1>1, <1>3, OnlyOne DEF CallbackInv, Listening
  <2>2. \A m \in 1 .. queued[r] : FirstOf(r, queued[r])[m] = <<r, m>>
    BY <1>2, FirstOfAppend
  <2>3. i[r] \in 1 .. queued[r] BY <1>2
  <2> QED BY <2>1, <2>2, <2>3
<1>5. called' = [called EXCEPT ![r] = Append(@, <<r, i[r]>>)]
  BY <1>4 DEF Call
<1>6. called \in [Runs \cup {NoRun} -> Seq(Runs \X (1 .. MaxCallbacks))]
  BY DEF CallbackInv, TypeOK
<1>7. called'[r] = FirstOf(r, i[r])
  <2>1. called[r] = FirstOf(r, i[r] - 1) BY <1>1 DEF CallbackInv, LoopInv
  <2>2. i[r] - 1 \in Nat /\ (i[r] - 1) + 1 = i[r] BY <1>2
  <2>3. Append(FirstOf(r, i[r] - 1), <<r, (i[r] - 1) + 1>>)
          = FirstOf(r, (i[r] - 1) + 1)
    BY <2>2, FirstOfAppend
  <2>4. called'[r] = Append(called[r], <<r, i[r]>>) BY <1>5, <1>6
  <2> QED BY <2>1, <2>2, <2>3, <2>4
<1>8. \A s \in (Runs \cup {NoRun}) \ {r} : called'[s] = called[s]
  BY <1>5, <1>6
<1>9. /\ pc'[r] = "callback" /\ \A s \in Runs \ {r} : pc'[s] = pc[s]
      /\ Active' = Active
  BY <1>1 DEF Active, Ended
<1>10. TypeOK'
  <2>1. <<r, i[r]>> \in Runs \X (1 .. MaxCallbacks) BY <1>2
  <2>2. called' \in [Runs \cup {NoRun} -> Seq(Runs \X (1 .. MaxCallbacks))]
    BY <1>5, <1>6, <2>1
  <2> QED BY <1>1, <2>2 DEF CallbackInv, TypeOK, Callback, Ended
<1>11. IdleInv' BY <1>1, <1>8, <1>9 DEF CallbackInv, IdleInv
<1>12. LoopInv' BY <1>1, <1>2, <1>7, <1>8, <1>9 DEF CallbackInv, LoopInv
<1>13. VectorInv' BY <1>1, <1>9 DEF CallbackInv, VectorInv, Listening
<1>14. CallbacksRun' BY <1>1, <1>8, <1>9 DEF CallbackInv, CallbacksRun
<1>15. OwnCallbacksOnly'
  <2> SUFFICES ASSUME NEW s \in Runs \cup {NoRun}, NEW n \in 1 .. Len(called'[s])
               PROVE  called'[s][n][1] = s
    BY DEF OwnCallbacksOnly
  <2>1. CASE s = r
    <3>1. /\ Len(FirstOf(r, i[r])) = i[r]
          /\ \A m \in 1 .. i[r] : FirstOf(r, i[r])[m] = <<r, m>>
      BY <1>2, FirstOfAppend
    <3>2. called'[s][n] = <<r, n>> BY <1>7, <2>1, <3>1
    <3> QED BY <2>1, <3>2
  <2>2. CASE s # r BY <1>8, <2>2 DEF CallbackInv, OwnCallbacksOnly
  <2> QED BY <2>1, <2>2
<1> QED BY <1>10, <1>11, <1>12, <1>13, <1>14, <1>15 DEF CallbackInv

(* The index moves past the element that has been called. *)
LEMMA CallbackReturnsStep ==
  ASSUME CallbackInv, NEW r \in Runs, CallbackReturns(r)
  PROVE  CallbackInv'
<1> USE RunsAssumption
<1>1. /\ pc[r] = "callback" /\ DOMAIN pc = Runs
      /\ pc' = [pc EXCEPT ![r] = "loop"] /\ i' = [i EXCEPT ![r] = @ + 1]
      /\ UNCHANGED <<final_callbacks, queued, called>>
  BY DEF CallbackReturns, Goto, CallbackInv, TypeOK, Ended
<1>2. /\ i[r] \in Nat \ {0} /\ queued[r] \in Nat /\ i[r] <= queued[r]
      /\ queued[r] <= MaxCallbacks /\ MaxCallbacks \in Nat
      /\ called[r] = FirstOf(r, i[r])
  BY <1>1 DEF CallbackInv, TypeOK, LoopInv
<1>3. i'[r] = i[r] + 1 /\ \A s \in Runs \ {r} : i'[s] = i[s]
  BY <1>1 DEF CallbackInv, TypeOK
<1>4. /\ pc'[r] = "loop" /\ \A s \in Runs \ {r} : pc'[s] = pc[s]
      /\ Active' = Active
  BY <1>1 DEF Active, Ended
<1>5. TypeOK'
  <2>1. i[r] + 1 \in 1 .. (MaxCallbacks + 1) BY <1>2
  <2> QED BY <1>1, <2>1 DEF CallbackInv, TypeOK, Callback, Ended
<1>6. IdleInv' BY <1>1, <1>3, <1>4 DEF CallbackInv, IdleInv
<1>7. LoopInv'
  <2>1. i'[r] - 1 = i[r] BY <1>2, <1>3
  <2>2. i'[r] <= queued[r] + 1 BY <1>2, <1>3
  <2> QED BY <1>1, <1>2, <1>3, <1>4, <2>1, <2>2 DEF CallbackInv, LoopInv
<1>8. VectorInv' BY <1>1, <1>4 DEF CallbackInv, VectorInv, Listening
<1>9. CallbacksRun' BY <1>1, <1>4 DEF CallbackInv, CallbacksRun
<1>10. OwnCallbacksOnly' BY <1>1 DEF CallbackInv, OwnCallbacksOnly
<1> QED BY <1>5, <1>6, <1>7, <1>8, <1>9, <1>10 DEF CallbackInv

(* The loop has been left: everything has been called. *)
LEMMA ClearStep ==
  ASSUME CallbackInv, NEW r \in Runs, Clear(r)
  PROVE  CallbackInv'
<1> USE RunsAssumption
<1>1. /\ pc[r] = "clear" /\ DOMAIN pc = Runs
      /\ pc' = [pc EXCEPT ![r] = "returned"] /\ final_callbacks' = <<>>
      /\ UNCHANGED <<i, queued, called>>
  BY DEF Clear, Goto, CallbackInv, TypeOK, Ended
<1>2. r \in Active BY <1>1 DEF Active, Ended
<1>3. Active = {r} BY <1>2, OnlyOne DEF CallbackInv
<1>4. /\ pc'[r] = "returned" /\ \A s \in Runs \ {r} : pc'[s] = pc[s]
      /\ Active' = {}
  BY <1>1, <1>3 DEF Active, Ended
<1>5. called[r] = FirstOf(r, queued[r])
  <2>1. i[r] = queued[r] + 1 /\ called[r] = FirstOf(r, i[r] - 1)
    BY <1>1 DEF CallbackInv, LoopInv
  <2>2. queued[r] \in Nat BY DEF CallbackInv, TypeOK
  <2>3. i[r] - 1 = queued[r] BY <2>1, <2>2
  <2> QED BY <2>1, <2>3
<1>6. TypeOK' BY <1>1 DEF CallbackInv, TypeOK, Callback, Ended
<1>7. IdleInv' /\ LoopInv' BY <1>1, <1>4 DEF CallbackInv, IdleInv, LoopInv
<1>8. VectorInv' BY <1>4 DEF VectorInv
<1>9. CallbacksRun' BY <1>1, <1>4, <1>5 DEF CallbackInv, CallbacksRun, FirstOf
<1>10. OwnCallbacksOnly' BY <1>1 DEF CallbackInv, OwnCallbacksOnly
<1> QED BY <1>6, <1>7, <1>8, <1>9, <1>10 DEF CallbackInv

(* Every step keeps the invariant. *)
LEMMA CallbackStep ==
  ASSUME Sequential, CallbackInv, [Next]_vars
  PROVE  CallbackInv'
<1>1. CASE \E r \in Runs \cup {NoRun} : queue_callback(r) BY <1>1, QueueStep
<1>2. CASE \E r \in Runs : Enter(r) BY <1>2, EnterStep
<1>3. CASE \E r \in Runs : BackwardFails(r) \/ CallbackThrows(r)
  BY <1>3, FailStep
<1>4. CASE \E r \in Runs : BackwardDone(r) BY <1>4, BackwardDoneStep
<1>5. CASE \E r \in Runs : LoopTest(r) BY <1>5, LoopTestStep
<1>6. CASE \E r \in Runs : Call(r) BY <1>6, CallStep
<1>7. CASE \E r \in Runs : CallbackReturns(r) BY <1>7, CallbackReturnsStep
<1>8. CASE \E r \in Runs : Clear(r) BY <1>8, ClearStep
<1>9. CASE UNCHANGED vars
  BY <1>9 DEF vars, CallbackInv, TypeOK, IdleInv, VectorInv, LoopInv,
              CallbacksRun, OwnCallbacksOnly, Active, Listening
<1> QED
  BY <1>1, <1>2, <1>3, <1>4, <1>5, <1>6, <1>7, <1>8, <1>9 DEF Next

-----------------------------------------------------------------------------
(* CallbackInvariant: when calls of execute() do not overlap, the vector   *)
(* holds, until the loop of the call under way is left, the callbacks of   *)
(* that call and nothing else, and the loop has called exactly those       *)
(* before its index.                                                       *)
THEOREM CallbackInvariant ==
  ASSUME Sequential
  PROVE  Spec => []CallbackInv
<1>1. CallbackInv /\ [Next]_vars => CallbackInv' BY CallbackStep
<1> QED BY CallbackInit, <1>1, PTL DEF Spec

(* CallbacksAreRun: every callback queued for a call that returns, before  *)
(* its loop is left, has been called exactly once and in the order it was  *)
(* queued, the ones that callbacks and other threads queued in the middle  *)
(* of the loop and the ones after an earlier failure included.             *)
THEOREM CallbacksAreRun ==
  ASSUME Sequential
  PROVE  Spec => []CallbacksRun
<1>1. CallbackInv => CallbacksRun BY DEF CallbackInv
<1> QED BY CallbackInvariant, <1>1, PTL

(* CallbacksAreOwn: no call runs what was queued for another call, or by a *)
(* thread while no call was under way or had still to leave its loop.      *)
THEOREM CallbacksAreOwn ==
  ASSUME Sequential
  PROVE  Spec => []OwnCallbacksOnly
<1>1. CallbackInv => OwnCallbacksOnly BY DEF CallbackInv
<1> QED BY CallbackInvariant, <1>1, PTL
=============================================================================
