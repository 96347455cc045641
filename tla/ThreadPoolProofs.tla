-------------------------- MODULE ThreadPoolProofs --------------------------
(***************************************************************************)
(* Proofs about ThreadPool for any number of workers, tasks and time-outs: *)
(* the dispatcher destroys no worker that still runs, and wakes none that  *)
(* it has destroyed, although it reads m_status with no lock held; a task  *)
(* in the list is not forgotten, and every request is handled once.        *)
(***************************************************************************)
EXTENDS ThreadPool, SequenceTheorems, TLAPS

\* What is in the list, or in the hands of a worker, has been received.
TaskInv ==
    /\ tasks \in Seq(1 .. NTasks)
    /\ rcv = "push" => taken > 0
    /\ \A w \in Workers : wpc[w] = "handle" => task[w] \in 1 .. taken

\* A worker is told to leave after its last time-out, and leaves at once.
RepeatInv ==
    \A w \in Workers :
        /\ repeat[w] = 0 => mExit[w]
        /\ mExit[w] => wpc[w] \in {"top", "end", "none"}

\* The status says "exit" only after the thread has ended, and an ended worker stays
\* in the pool until it is erased.
StatusInv ==
    /\ \A w \in Workers : status[w] = "exit" => wpc[w] \in {"end", "none"}
    /\ \A w \in Workers : w \in Range(pool) <=> wpc[w] # "none"

Distinct == \A i, j \in 1 .. Len(pool) : i # j => pool[i] # pool[j]

\* The worker that the search has found is one that it has passed.
PickInv ==
    /\ disp = "scan" /\ pick # None => \E i \in 1 .. pos - 1 : i <= Len(pool) /\ pool[i] = pick
    /\ disp = "wake" => pick \in Range(pool)

IInv == TypeOK /\ TaskInv /\ RepeatInv /\ StatusInv /\ Distinct /\ PickInv
-----------------------------------------------------------------------------
\* What erasing an element leaves.
LEMMA Removed ==
    ASSUME NEW S, NEW s \in Seq(S), NEW k \in 1 .. Len(s)
    PROVE  /\ RemoveAt(s, k) \in Seq(S) /\ Len(RemoveAt(s, k)) = Len(s) - 1
           /\ \A i \in 1 .. Len(s) - 1 :
                 RemoveAt(s, k)[i] = IF i < k THEN s[i] ELSE s[i + 1]
<1>1. /\ SubSeq(s, 1, k - 1) \in Seq(S) /\ Len(SubSeq(s, 1, k - 1)) = k - 1
      /\ \A i \in 1 .. k - 1 : SubSeq(s, 1, k - 1)[i] = s[i]
  OBVIOUS
<1>2. /\ SubSeq(s, k + 1, Len(s)) \in Seq(S) /\ Len(SubSeq(s, k + 1, Len(s))) = Len(s) - k
      /\ \A i \in 1 .. Len(s) - k : SubSeq(s, k + 1, Len(s))[i] = s[k + i]
  OBVIOUS
<1> DEFINE a == SubSeq(s, 1, k - 1)
           b == SubSeq(s, k + 1, Len(s))
<1>3. RemoveAt(s, k) = a \o b
  BY DEF RemoveAt
<1> HIDE DEF a, b
<1>4. /\ a \o b \in Seq(S) /\ Len(a \o b) = Len(a) + Len(b)
      /\ \A i \in 1 .. Len(a) + Len(b) :
            (a \o b)[i] = IF i <= Len(a) THEN a[i] ELSE b[i - Len(a)]
  <2>1. a \in Seq(S) /\ b \in Seq(S)
    BY <1>1, <1>2 DEF a, b
  <2> QED
    BY <2>1, ConcatProperties
<1>5. Len(a) = k - 1 /\ Len(b) = Len(s) - k
  BY <1>1, <1>2 DEF a, b
<1>6. \A i \in 1 .. k - 1 : a[i] = s[i]
  BY <1>1 DEF a
<1>7. \A i \in 1 .. Len(s) - k : b[i] = s[k + i]
  BY <1>2 DEF b
<1> QED
  BY <1>3, <1>4, <1>5, <1>6, <1>7

\* Without repetitions, one that is erased is no longer there and the others are.
LEMMA RemovedRange ==
    ASSUME NEW S, NEW s \in Seq(S), NEW k \in 1 .. Len(s),
           \A i, j \in 1 .. Len(s) : i # j => s[i] # s[j]
    PROVE  /\ Range(RemoveAt(s, k)) = Range(s) \ {s[k]}
           /\ \A i, j \in 1 .. Len(s) - 1 : i # j => RemoveAt(s, k)[i] # RemoveAt(s, k)[j]
<1> DEFINE r == RemoveAt(s, k)
<1>1. /\ r \in Seq(S) /\ Len(r) = Len(s) - 1 /\ Len(s) \in Nat
      /\ \A i \in 1 .. Len(s) - 1 : r[i] = IF i < k THEN s[i] ELSE s[i + 1]
  <2>1. /\ r \in Seq(S) /\ Len(r) = Len(s) - 1
        /\ \A i \in 1 .. Len(s) - 1 : r[i] = IF i < k THEN s[i] ELSE s[i + 1]
    BY Removed, Zenon
  <2>2. Len(s) \in Nat
    OBVIOUS
  <2> QED
    BY <2>1, <2>2
<1> HIDE DEF r
<1>2. \A x : x \in Range(s) <=> \E i \in 1 .. Len(s) : s[i] = x
  BY DEF Range
<1>3. \A x : x \in Range(r) <=> \E i \in 1 .. Len(s) - 1 : r[i] = x
  <2>1. DOMAIN r = 1 .. Len(r)
    BY <1>1
  <2> QED
    BY <1>1, <2>1 DEF Range
<1>4. ASSUME NEW x \in Range(r)
      PROVE  x \in Range(s) /\ x # s[k]
  <2>1. PICK i \in 1 .. Len(s) - 1 : r[i] = x
    BY <1>3
  <2>2. CASE i < k
    BY <1>1, <1>2, <2>1, <2>2
  <2>3. CASE i >= k
    BY <1>1, <1>2, <2>1, <2>3
  <2> QED
    BY <2>2, <2>3
<1>5. ASSUME NEW x \in Range(s), x # s[k]
      PROVE  x \in Range(r)
  <2>1. PICK i \in 1 .. Len(s) : s[i] = x
    BY <1>2
  <2>2. CASE i < k
    BY <1>1, <1>3, <2>1, <2>2
  <2>3. CASE i > k
    <3>1. i - 1 \in 1 .. Len(s) - 1 /\ ~(i - 1 < k) /\ (i - 1) + 1 = i
      BY <1>1, <2>3
    <3>2. r[i - 1] = x
      BY <1>1, <2>1, <3>1
    <3> QED
      BY <1>3, <3>1, <3>2
  <2> QED
    BY <1>5, <2>1, <2>2, <2>3
<1>6. \A i, j \in 1 .. Len(s) - 1 : i # j => r[i] # r[j]
  BY <1>1
<1> QED
  BY <1>4, <1>5, <1>6 DEF r

\* The elements of a sequence that has grown at its end.
LEMMA Appended ==
    ASSUME NEW S, NEW s \in Seq(S), NEW x \in S
    PROVE  /\ Append(s, x) \in Seq(S) /\ Len(Append(s, x)) = Len(s) + 1
           /\ \A i \in 1 .. Len(s) : Append(s, x)[i] = s[i]
           /\ Append(s, x)[Len(s) + 1] = x
           /\ Range(Append(s, x)) = Range(s) \cup {x}
<1>1. /\ Append(s, x) \in Seq(S) /\ Len(Append(s, x)) = Len(s) + 1
      /\ \A i \in 1 .. Len(s) : Append(s, x)[i] = s[i]
      /\ Append(s, x)[Len(s) + 1] = x
  OBVIOUS
<1>2. DOMAIN s = 1 .. Len(s) /\ DOMAIN Append(s, x) = 1 .. Len(s) + 1
  BY <1>1
<1> HIDE DEF Range
<1> QED
  BY <1>1, <1>2 DEF Range

\* Every step keeps the types.
LEMMA TypeStep == TypeOK /\ TaskInv /\ RepeatInv /\ [Next]_vars => TypeOK'
<1> SUFFICES ASSUME TypeOK, TaskInv, RepeatInv, [Next]_vars
             PROVE  TypeOK'
  OBVIOUS
<1> USE WorkersAssumption, BoundsAssumption
        DEF TypeOK, TaskInv, RepeatInv, rcvVars, dispVars, workerVars, WorkerPCs, Set
<1>1. CASE KernelSend
  BY <1>1 DEF KernelSend
<1>2. CASE RcvRead
  BY <1>2 DEF RcvRead
<1>3. CASE RcvDies
  BY <1>3 DEF RcvDies
<1>4. CASE Push
  <2>1. taken \in 1 .. NTasks
    BY <1>4 DEF Push
  <2>2. /\ Len(tasks') = Len(tasks) + 1
        /\ \A i \in 1 .. Len(tasks) : tasks'[i] = tasks[i]
        /\ tasks'[Len(tasks) + 1] = taken
    BY <1>4, <2>1, Appended DEF Push
  <2>3. ASSUME NEW i \in 1 .. Len(tasks')
        PROVE  tasks'[i] \in 1 .. taken
    <3>1. Len(tasks) \in Nat
      OBVIOUS
    <3>2. \A j \in 1 .. Len(tasks) : tasks[j] \in 1 .. taken
      OBVIOUS
    <3> HIDE DEF TypeOK, TaskInv, RepeatInv
    <3>3. i \in 1 .. Len(tasks) \/ i = Len(tasks) + 1
      BY <2>2, <3>1
    <3>4. taken \in 1 .. taken
      BY <2>1
    <3> QED
      BY <2>2, <3>2, <3>3, <3>4
  <2> QED
    BY <1>4, <2>3 DEF Push
<1>5. CASE Notify
  BY <1>5 DEF Notify
<1>6. CASE DispatchWait
  <2>1. poolEvent' \in BOOLEAN
    BY <1>6, Zenon DEF DispatchWait
  <2>2. pos' \in 1 .. Len(pool) + 1
    BY <1>6 DEF DispatchWait
  <2> QED
    BY <1>6, <2>1, <2>2 DEF DispatchWait
<1>7. CASE DispatchScan
  <2>1. pos \in 1 .. Len(pool) /\ pool[pos] \in Workers
    BY <1>7 DEF DispatchScan
  <2>2. RemoveAt(pool, pos) \in Seq(Workers) /\ Len(RemoveAt(pool, pos)) = Len(pool) - 1
    BY <2>1, Removed
  <2>3. /\ pool' \in Seq(Workers) /\ pos' \in 1 .. Len(pool') + 1
        /\ pick' \in Workers \cup {None}
    <3>1. CASE status[pool[pos]] = "wait" \/ status[pool[pos]] = "running"
      <4>1. pool' = pool /\ pos' = pos + 1 /\ (pick' = pick \/ pick' = pool[pos])
        BY <1>7, <3>1 DEF DispatchScan
      <4> QED
        BY <2>1, <4>1
    <3>2. CASE status[pool[pos]] = "exit"
      <4>1. pool' = RemoveAt(pool, pos) /\ pos' = pos /\ pick' = pick
        BY <1>7, <3>2 DEF DispatchScan
      <4> QED
        BY <2>1, <2>2, <4>1
    <3> QED
      BY <2>1, <3>1, <3>2
  <2>4. wpc' \in [Workers -> WorkerPCs]
    BY <1>7, <2>1 DEF DispatchScan
  <2> QED
    BY <1>7, <2>3, <2>4 DEF DispatchScan
<1>8. CASE DispatchPick
  <2>1. CASE pick # None
    BY <1>8, <2>1 DEF DispatchPick
  <2>2. CASE pick = None
    <3>1. PICK w \in Workers :
             /\ wpc[w] = "none" /\ pick' = w /\ pool' = Append(pool, w)
             /\ wpc' = Set(wpc, w, "top") /\ status' = Set(status, w, "wait")
             /\ mExit' = Set(mExit, w, FALSE) /\ repeat' = Set(repeat, w, MaxRepeat)
             /\ event' = Set(event, w, FALSE) /\ task' = Set(task, w, 0)
      BY <1>8, <2>2 DEF DispatchPick
    <3>2. pool' \in Seq(Workers) /\ pos' \in 1 .. Len(pool') + 1
      <4>1. pool' \in Seq(Workers) /\ Len(pool') = Len(pool) + 1
        BY <3>1, Appended
      <4>2. pos' = pos /\ Len(pool) \in Nat
        BY <1>8 DEF DispatchPick
      <4> QED
        BY <4>1, <4>2
    <3>3. mExit' \in [Workers -> BOOLEAN] /\ event' \in [Workers -> BOOLEAN]
      BY <3>1
    <3>4. /\ wpc' \in [Workers -> WorkerPCs]
          /\ status' \in [Workers -> {"wait", "running", "exit"}]
          /\ repeat' \in [Workers -> 0 .. MaxRepeat]
          /\ task' \in [Workers -> 0 .. NTasks]
      BY <3>1
    <3> QED
      BY <1>8, <3>1, <3>2, <3>3, <3>4 DEF DispatchPick
  <2> QED
    BY <2>1, <2>2
<1>9. CASE DispatchWake
  BY <1>9 DEF DispatchWake
<1>10. ASSUME NEW w \in Workers, Top(w)
       PROVE  TypeOK'
  BY <1>10 DEF Top
<1>11. ASSUME NEW w \in Workers, Pop(w)
       PROVE  TypeOK'
  <2>1. CASE tasks = <<>>
    BY <1>11, <2>1 DEF Pop
  <2>2. CASE tasks # <<>>
    <3>1. Head(tasks) \in 0 .. NTasks
      BY <2>2
    <3>2. \A i \in 1 .. Len(Tail(tasks)) : Tail(tasks)[i] \in 1 .. taken
      BY <2>2
    <3>3. task' \in [Workers -> 0 .. NTasks]
      BY <1>11, <2>2, <3>1 DEF Pop
    <3> QED
      BY <1>11, <2>2, <3>2, <3>3 DEF Pop
  <2> QED
    BY <2>1, <2>2
<1>12. ASSUME NEW w \in Workers, Mark(w)
       PROVE  TypeOK'
  BY <1>12 DEF Mark
<1>13. ASSUME NEW w \in Workers, WaitForEvent(w)
       PROVE  TypeOK'
  BY <1>13 DEF WaitForEvent
<1>14. ASSUME NEW w \in Workers, Awake(w)
       PROVE  TypeOK'
  BY <1>14 DEF Awake
<1>15. ASSUME NEW w \in Workers, Timeout(w)
       PROVE  TypeOK'
  <2>0. repeat[w] # 0
    BY <1>15, Zenon DEF Timeout
  <2>1. repeat' \in [Workers -> 0 .. MaxRepeat]
    BY <1>15, <2>0 DEF Timeout
  <2>2. mExit' \in [Workers -> BOOLEAN]
    BY <1>15, Zenon DEF Timeout
  <2> QED
    BY <1>15, <2>1, <2>2 DEF Timeout
<1>16. ASSUME NEW w \in Workers, Handle(w)
       PROVE  TypeOK'
  <2>1. handled' \subseteq 1 .. taken
    BY <1>16 DEF Handle
  <2> QED
    BY <1>16, <2>1 DEF Handle
<1>17. CASE UNCHANGED vars
  BY <1>17 DEF vars
<1> QED
  BY <1>1, <1>2, <1>3, <1>4, <1>5, <1>6, <1>7, <1>8, <1>9, <1>10, <1>11, <1>12, <1>13,
     <1>14, <1>15, <1>16, <1>17 DEF Next, Dispatch, Work

\* A task number is one of a request that has been received.
LEMMA TaskStep == TypeOK /\ TaskInv /\ [Next]_vars => TaskInv'
<1> SUFFICES ASSUME TypeOK, TaskInv, [Next]_vars
             PROVE  TaskInv'
  OBVIOUS
<1> USE BoundsAssumption DEF Set
<1>1. CASE KernelSend \/ RcvRead \/ RcvDies \/ Notify
  <2>1. UNCHANGED <<tasks, wpc, task>> /\ taken \in Nat /\ taken' \in Nat /\ taken <= taken'
    BY <1>1 DEF KernelSend, RcvRead, RcvDies, Notify, TypeOK, workerVars
  <2>2. (rcv = "push" => taken > 0)'
    BY <1>1 DEF KernelSend, RcvRead, RcvDies, Notify, TypeOK, TaskInv
  <2> QED
    BY <2>1, <2>2 DEF TaskInv
<1>2. CASE Push
  <2>1. taken \in 1 .. NTasks
    BY <1>2 DEF Push, TypeOK, TaskInv
  <2>2. tasks' \in Seq(1 .. NTasks)
    BY <1>2, <2>1, Appended DEF Push, TaskInv
  <2> QED
    BY <1>2, <2>2 DEF Push, TaskInv, workerVars
<1>3. CASE DispatchWait \/ DispatchWake
  BY <1>3 DEF DispatchWait, DispatchWake, TaskInv, rcvVars, workerVars
<1>4. CASE DispatchScan \/ DispatchPick
  <2>1. UNCHANGED <<tasks, taken, rcv>>
    BY <1>4 DEF DispatchScan, DispatchPick, rcvVars
  <2>2. ASSUME NEW u \in Workers, wpc'[u] = "handle"
        PROVE  wpc[u] = "handle" /\ task'[u] = task[u]
    BY <1>4, <2>2 DEF DispatchScan, DispatchPick, TypeOK, workerVars
  <2> QED
    BY <2>1, <2>2 DEF TaskInv
<1>5. ASSUME NEW w \in Workers, Pop(w)
      PROVE  TaskInv'
  <2>1. CASE tasks = <<>>
    BY <1>5, <2>1 DEF Pop, TaskInv, TypeOK, rcvVars
  <2>2. CASE tasks # <<>>
    <3>1. Tail(tasks) \in Seq(1 .. NTasks) /\ Head(tasks) = tasks[1] /\ 1 \in 1 .. Len(tasks)
      BY <2>2 DEF TaskInv
    <3>2. Head(tasks) \in 1 .. taken
      BY <3>1 DEF TypeOK
    <3> QED
      BY <1>5, <2>2, <3>1, <3>2 DEF Pop, TaskInv, TypeOK, rcvVars
  <2> QED
    BY <2>1, <2>2
<1>6. ASSUME NEW w \in Workers, Top(w) \/ Mark(w) \/ WaitForEvent(w) \/ Awake(w)
                                 \/ Timeout(w) \/ Handle(w)
      PROVE  TaskInv'
  <2>1. UNCHANGED <<tasks, taken, rcv>>
    BY <1>6 DEF Top, Mark, WaitForEvent, Awake, Timeout, Handle, rcvVars
  <2>2. ASSUME NEW u \in Workers, wpc'[u] = "handle"
        PROVE  wpc[u] = "handle" /\ task'[u] = task[u]
    BY <1>6, <2>2 DEF Top, Mark, WaitForEvent, Awake, Timeout, Handle, TypeOK
  <2> QED
    BY <2>1, <2>2 DEF TaskInv
<1>7. CASE UNCHANGED vars
  BY <1>7 DEF TaskInv, vars
<1> QED
  BY <1>1, <1>2, <1>3, <1>4, <1>5, <1>6, <1>7 DEF Next, Dispatch, Work

\* A worker with no time-outs left is told to leave, and goes to no other place.
LEMMA RepeatStep == TypeOK /\ RepeatInv /\ [Next]_vars => RepeatInv'
<1> SUFFICES ASSUME TypeOK, RepeatInv, [Next]_vars, NEW u \in Workers
             PROVE  /\ repeat'[u] = 0 => mExit'[u]
                    /\ mExit'[u] => wpc'[u] \in {"top", "end", "none"}
  BY DEF RepeatInv
<1> DEFINE Good == /\ repeat'[u] = 0 => mExit'[u]
                   /\ mExit'[u] => wpc'[u] \in {"top", "end", "none"}
<1>0. /\ repeat[u] = 0 => mExit[u]
      /\ mExit[u] => wpc[u] \in {"top", "end", "none"}
  BY DEF RepeatInv
<1> USE BoundsAssumption DEF Set
<1>1. CASE UNCHANGED <<wpc, mExit, repeat>>
  BY <1>0, <1>1
<1>2. CASE DispatchScan
  <2>1. UNCHANGED <<mExit, repeat>> /\ wpc'[u] \in {wpc[u], "none"}
    BY <1>2 DEF DispatchScan, TypeOK
  <2> QED
    BY <1>0, <2>1
<1>3. CASE DispatchPick
  <2>1. CASE UNCHANGED workerVars
    BY <1>0, <2>1 DEF workerVars
  <2>2. ASSUME NEW w \in Workers, wpc' = Set(wpc, w, "top"), mExit' = Set(mExit, w, FALSE),
               repeat' = Set(repeat, w, MaxRepeat)
        PROVE  Good
    <3>1. CASE u = w
      <4>1. mExit'[u] = FALSE /\ repeat'[u] = MaxRepeat
        BY <2>2, <3>1 DEF TypeOK
      <4>2. repeat'[u] # 0
        BY <4>1
      <4> QED
        BY <4>1, <4>2, Zenon
    <3>2. CASE u # w
      BY <1>0, <2>2, <3>2 DEF TypeOK
    <3> QED
      BY <3>1, <3>2
  <2> QED
    BY <1>3, <2>1, <2>2 DEF DispatchPick
<1>4. ASSUME NEW w \in Workers, u # w, Work(w) \/ Timeout(w)
      PROVE  Good
  <2>1. wpc'[u] = wpc[u] /\ mExit'[u] = mExit[u] /\ repeat'[u] = repeat[u]
    BY <1>4 DEF Work, Top, Pop, Mark, WaitForEvent, Awake, Handle, Timeout, TypeOK
  <2> QED
    BY <1>0, <2>1
<1>5. CASE Top(u)
  <2>1. UNCHANGED <<mExit, repeat>> /\ (mExit[u] => wpc'[u] = "end")
    BY <1>5 DEF Top, TypeOK
  <2> QED
    BY <1>0, <2>1
<1>6. CASE Pop(u) \/ Mark(u) \/ WaitForEvent(u) \/ Awake(u) \/ Handle(u)
  <2>1. /\ wpc[u] \in {"pop", "mark", "wait", "asleep", "handle"} /\ UNCHANGED mExit
        /\ repeat' = repeat \/ repeat' = Set(repeat, u, MaxRepeat)
    BY <1>6 DEF Pop, Mark, WaitForEvent, Awake, Handle
  <2>2. ~mExit[u]
    BY <1>0, <2>1
  <2>3. repeat[u] # 0
    BY <1>0, <2>2
  <2>4. repeat'[u] # 0
    BY <2>1, <2>3 DEF TypeOK
  <2> QED
    BY <2>1, <2>2, <2>4
<1>7. CASE Timeout(u)
  <2>1. wpc'[u] = "top" /\ repeat'[u] = repeat[u] - 1 /\ mExit'[u] = (repeat[u] = 1)
    BY <1>7 DEF Timeout, TypeOK
  <2>2. repeat'[u] = 0 => repeat[u] = 1
    BY <2>1 DEF TypeOK
  <2> QED
    BY <2>1, <2>2, Zenon
<1> QED
  BY <1>1, <1>2, <1>3, <1>4, <1>5, <1>6, <1>7
  DEF Next, Dispatch, Work, KernelSend, RcvRead, RcvDies, Push, Notify, DispatchWait,
      DispatchWake, vars, workerVars

\* What one iteration of the search does: it goes on, or erases a worker that has ended.
LEMMA ScanStep ==
    ASSUME IInv, DispatchScan
    PROVE  \/ /\ UNCHANGED <<pool, wpc>> /\ pos' = pos + 1
              /\ pick' = pick \/ pick' = pool[pos]
           \/ /\ UNCHANGED <<pos, pick>>
              /\ wpc[pool[pos]] = "end" /\ wpc' = [wpc EXCEPT ![pool[pos]] = "none"]
              /\ pool' = RemoveAt(pool, pos)
<1>1. pos \in 1 .. Len(pool) /\ pool[pos] \in Workers /\ pool[pos] \in Range(pool)
  BY DEF DispatchScan, IInv, TypeOK, Range
<1>2. CASE status[pool[pos]] = "exit"
  <2>1. wpc[pool[pos]] = "end"
    BY <1>1, <1>2 DEF IInv, StatusInv
  <2> QED
    BY <1>2, <2>1 DEF DispatchScan, Set
<1>3. CASE status[pool[pos]] # "exit"
  BY <1>3 DEF DispatchScan
<1> QED
  BY <1>2, <1>3

\* Who is in the pool is what is known of the threads.
LEMMA StatusStep == IInv /\ [Next]_vars => StatusInv' /\ Distinct'
<1> SUFFICES ASSUME IInv, [Next]_vars
             PROVE  StatusInv' /\ Distinct'
  OBVIOUS
<1> USE DEF Set
<1>1. CASE UNCHANGED <<wpc, status, pool>>
  BY <1>1 DEF IInv, StatusInv, Distinct
<1>2. CASE DispatchScan
  <2>1. UNCHANGED status
    BY <1>2 DEF DispatchScan
  <2>2. CASE UNCHANGED <<pool, wpc>>
    BY <1>1, <2>1, <2>2
  <2>3. CASE /\ wpc[pool[pos]] = "end" /\ wpc' = [wpc EXCEPT ![pool[pos]] = "none"]
             /\ pool' = RemoveAt(pool, pos)
    <3>1. pos \in 1 .. Len(pool) /\ pool \in Seq(Workers) /\ Distinct
      BY <1>2 DEF DispatchScan, IInv, TypeOK
    <3>2. Len(pool') = Len(pool) - 1 /\ Range(pool') = Range(pool) \ {pool[pos]} /\ Distinct'
      <4>1. Len(RemoveAt(pool, pos)) = Len(pool) - 1
        BY <3>1, Removed, Zenon
      <4>2. /\ Range(RemoveAt(pool, pos)) = Range(pool) \ {pool[pos]}
            /\ \A i, j \in 1 .. Len(pool) - 1 :
                  i # j => RemoveAt(pool, pos)[i] # RemoveAt(pool, pos)[j]
        BY <3>1, RemovedRange, Zenon DEF Distinct
      <4> QED
        BY <2>3, <4>1, <4>2 DEF Distinct
    <3>3. StatusInv'
      BY <2>1, <2>3, <3>2 DEF IInv, StatusInv, TypeOK
    <3> QED
      BY <3>2, <3>3
  <2> QED
    BY <1>2, <2>2, <2>3, ScanStep
<1>3. CASE DispatchPick
  <2>1. CASE UNCHANGED <<pool, workerVars>>
    BY <1>1, <2>1 DEF workerVars
  <2>2. ASSUME NEW w \in Workers, wpc[w] = "none", pool' = Append(pool, w),
               wpc' = Set(wpc, w, "top"), status' = Set(status, w, "wait")
        PROVE  StatusInv' /\ Distinct'
    <3>1. pool \in Seq(Workers) /\ Len(pool) \in Nat /\ w \notin Range(pool) /\ Distinct
      BY <2>2 DEF IInv, StatusInv, TypeOK
    <3>2. /\ Len(pool') = Len(pool) + 1 /\ \A i \in 1 .. Len(pool) : pool'[i] = pool[i]
          /\ pool'[Len(pool) + 1] = w /\ Range(pool') = Range(pool) \cup {w}
      BY <2>2, <3>1, Appended
    <3>3. StatusInv'
      BY <2>2, <3>2 DEF IInv, StatusInv, TypeOK
    <3>4. \A i \in 1 .. Len(pool) : pool[i] # w
      BY <3>1 DEF Range
    <3>5. Distinct'
      BY <3>1, <3>2, <3>4 DEF Distinct
    <3> QED
      BY <3>3, <3>5
  <2> QED
    BY <1>3, <2>1, <2>2 DEF DispatchPick
<1>4. ASSUME NEW w \in Workers, Work(w) \/ Timeout(w)
      PROVE  StatusInv' /\ Distinct'
  <2>1. UNCHANGED pool
    BY <1>4 DEF Work, Top, Pop, Mark, WaitForEvent, Awake, Handle, Timeout, dispVars
  <2>2. ASSUME NEW u \in Workers
        PROVE  /\ wpc[u] # "none" <=> wpc'[u] # "none"
               /\ status'[u] = "exit" => wpc'[u] \in {"end", "none"}
    <3> USE DEF IInv, StatusInv, TypeOK
    <3>1. CASE u # w
      BY <1>4, <3>1 DEF Work, Top, Pop, Mark, WaitForEvent, Awake, Handle, Timeout
    <3>2. CASE u = w
      BY <1>4, <3>2 DEF Work, Top, Pop, Mark, WaitForEvent, Awake, Handle, Timeout
    <3> QED
      BY <3>1, <3>2
  <2> QED
    BY <2>1, <2>2 DEF IInv, StatusInv, Distinct
<1> QED
  BY <1>1, <1>2, <1>3, <1>4
  DEF Next, Dispatch, KernelSend, RcvRead, RcvDies, Push, Notify, DispatchWait,
      DispatchWake, vars, workerVars, dispVars

\* The search never erases what it has passed.
LEMMA PickStep == IInv /\ [Next]_vars => PickInv'
<1> SUFFICES ASSUME IInv, [Next]_vars
             PROVE  PickInv'
  OBVIOUS
<1>1. CASE UNCHANGED dispVars
  BY <1>1 DEF IInv, PickInv, dispVars
<1>2. CASE DispatchWait \/ DispatchWake
  BY <1>2 DEF DispatchWait, DispatchWake, PickInv
<1>3. CASE DispatchScan
  <2>1. /\ disp = "scan" /\ disp' = "scan" /\ pos \in 1 .. Len(pool) /\ Len(pool) \in Nat
        /\ pool \in Seq(Workers)
    BY <1>3 DEF DispatchScan, IInv, TypeOK
  <2>2. pick # None => \E i \in 1 .. pos - 1 : i <= Len(pool) /\ pool[i] = pick
    BY <2>1 DEF IInv, PickInv
  <2>3. CASE pool' = pool /\ pos' = pos + 1 /\ (pick' = pick \/ pick' = pool[pos])
    <3>1. pick' # None => \E i \in 1 .. pos : i <= Len(pool) /\ pool[i] = pick'
      BY <2>1, <2>2, <2>3
    <3> QED
      BY <2>1, <2>3, <3>1 DEF PickInv
  <2>4. CASE pos' = pos /\ pick' = pick /\ pool' = RemoveAt(pool, pos)
    <3>1. Len(pool') = Len(pool) - 1 /\ \A i \in 1 .. pos - 1 : pool'[i] = pool[i]
      <4>1. /\ Len(pool') = Len(pool) - 1
            /\ \A i \in 1 .. Len(pool) - 1 :
                  pool'[i] = IF i < pos THEN pool[i] ELSE pool[i + 1]
        BY <2>1, <2>4, Removed, Zenon
      <4> QED
        BY <2>1, <4>1
    <3>2. pick' # None => \E i \in 1 .. pos - 1 : i <= Len(pool') /\ pool'[i] = pick'
      BY <2>1, <2>2, <2>4, <3>1
    <3> QED
      BY <2>1, <2>4, <3>2 DEF PickInv
  <2> QED
    BY <1>3, <2>3, <2>4, ScanStep
<1>4. CASE DispatchPick
  <2>1. disp = "scan" /\ disp' = "wake" /\ pool \in Seq(Workers) /\ Len(pool) \in Nat
    BY <1>4 DEF DispatchPick, IInv, TypeOK
  <2>2. CASE pick # None
    <3>1. pick' = pick /\ pool' = pool
      BY <1>4, <2>2 DEF DispatchPick
    <3>2. PICK i \in 1 .. pos - 1 : i <= Len(pool) /\ pool[i] = pick
      BY <2>1, <2>2 DEF IInv, PickInv
    <3>3. pick \in Range(pool)
      BY <2>1, <3>2 DEF Range
    <3> QED
      BY <2>1, <3>1, <3>3 DEF PickInv
  <2>3. CASE pick = None
    <3>1. PICK w \in Workers : pick' = w /\ pool' = Append(pool, w)
      BY <1>4, <2>3 DEF DispatchPick
    <3>2. w \in Range(pool')
      BY <2>1, <3>1, Appended
    <3> QED
      BY <2>1, <3>1, <3>2 DEF PickInv
  <2> QED
    BY <2>2, <2>3
<1> QED
  BY <1>1, <1>2, <1>3, <1>4
  DEF Next, Dispatch, KernelSend, RcvRead, RcvDies, Push, Notify, Work, Top, Pop, Mark,
      WaitForEvent, Awake, Handle, Timeout, vars, dispVars

\* The invariant of the pool.
THEOREM Invariance == Spec => []IInv
<1>1. Init => IInv
  <2> SUFFICES ASSUME Init
               PROVE  IInv
    OBVIOUS
  <2> USE WorkersAssumption, BoundsAssumption
  <2>1. tasks = <<>> /\ pool = <<>> /\ Len(tasks) = 0 /\ Len(pool) = 0
    BY DEF Init
  <2>2. poolEvent \in BOOLEAN
    BY Zenon DEF Init
  <2>3. event \in [Workers -> BOOLEAN] /\ mExit \in [Workers -> BOOLEAN]
    BY DEF Init
  <2>4. /\ wpc \in [Workers -> WorkerPCs]
        /\ status \in [Workers -> {"wait", "running", "exit"}]
        /\ repeat \in [Workers -> 0 .. MaxRepeat] /\ task \in [Workers -> 0 .. NTasks]
    BY DEF Init, WorkerPCs
  <2>5. TypeOK
    BY <2>1, <2>2, <2>3, <2>4 DEF Init, TypeOK
  <2>6. TaskInv /\ Distinct /\ PickInv
    BY <2>1 DEF Init, TaskInv, Distinct, PickInv
  <2>7. RepeatInv
    BY DEF Init, RepeatInv
  <2>8. Range(pool) = {}
    BY <2>1 DEF Range
  <2>9. StatusInv
    BY <2>8 DEF Init, StatusInv
  <2> QED
    BY <2>5, <2>6, <2>7, <2>9 DEF IInv
<1>2. IInv /\ [Next]_vars => IInv'
  BY TypeStep, TaskStep, RepeatStep, StatusStep, PickStep DEF IInv
<1> QED
  BY <1>1, <1>2, PTL DEF Spec

\* Type correctness: the counts, lists and states of the daemon's threads stay in range.
THEOREM TypeCorrect == Spec => []TypeOK
<1>1. IInv => TypeOK
  BY DEF IInv
<1> QED
  BY Invariance, <1>1, PTL

\* The dispatcher destroys a CThreadWork only after its thread has ended, and wakes only
\* one that still exists (thread_pool.h, CThreadPool::Runnable).
THEOREM NeverUsedAfterErase == Spec => []NoUseAfterErase
<1>1. IInv => NoUseAfterErase
  BY DEF IInv, StatusInv, Distinct, PickInv, NoUseAfterErase, Alive
<1> QED
  BY Invariance, <1>1, PTL
-----------------------------------------------------------------------------
\* A task in the list is not forgotten

\* w is on its way to look at the list.
Looking(w) == wpc[w] \in {"pop", "handle"} \/ (wpc[w] = "top" /\ ~mExit[w])

\* Somebody is to look at the list: the receive thread is about to tell the dispatcher, the
\* dispatcher has been told or is at it, or a worker has been woken or is looking.
NotForgotten == tasks # <<>> =>
    \/ rcv = "notify" \/ poolEvent \/ disp \in {"scan", "wake"}
    \/ \E w \in Workers : event[w] /\ Alive(w) /\ ~Dying(w)
    \/ \E w \in Workers : Looking(w)
    \/ WakeWasted

\* The same without asking whether the worker that was woken still looks.
WakeInv == tasks # <<>> =>
    \/ rcv = "notify" \/ poolEvent \/ disp \in {"scan", "wake"}
    \/ \E w \in Workers : event[w] \/ Looking(w)

\* Every step hands the duty to look at the list on.
LEMMA WakeStep == IInv /\ WakeInv /\ [Next]_vars => WakeInv'
<1> SUFFICES ASSUME IInv, WakeInv, [Next]_vars
             PROVE  WakeInv'
  OBVIOUS
<1>0. /\ wpc \in [Workers -> WorkerPCs] /\ mExit \in [Workers -> BOOLEAN]
      /\ event \in [Workers -> BOOLEAN] /\ RepeatInv
      /\ disp \in {"wait", "scan", "wake"}
  BY DEF IInv, TypeOK
<1>1. CASE KernelSend \/ RcvRead \/ RcvDies \/ UNCHANGED vars
  <2>1. /\ UNCHANGED <<tasks, poolEvent, disp, wpc, mExit, event>>
        /\ rcv = "notify" => rcv' = "notify"
    BY <1>1 DEF KernelSend, RcvRead, RcvDies, vars, rcvVars, dispVars, workerVars
  <2> QED
    BY <2>1 DEF WakeInv, Looking
<1>2. CASE Push \/ Notify
  BY <1>2 DEF Push, Notify, WakeInv
<1>3. CASE DispatchWait \/ DispatchScan \/ DispatchPick
  BY <1>3 DEF DispatchWait, DispatchScan, DispatchPick, WakeInv
<1>4. CASE DispatchWake
  <2>1. pick \in Workers
    <3>1. disp = "wake" /\ pool \in Seq(Workers) /\ pick \in Range(pool)
      BY <1>4 DEF DispatchWake, IInv, TypeOK, PickInv
    <3> QED
      BY <3>1 DEF Range
  <2>2. event'[pick]
    BY <1>0, <1>4, <2>1 DEF DispatchWake, Set
  <2> QED
    BY <2>1, <2>2 DEF WakeInv
<1>5. ASSUME NEW w \in Workers, Work(w) \/ Timeout(w)
      PROVE  WakeInv'
  <2>1. UNCHANGED <<rcv, poolEvent, disp>> /\ (tasks' # <<>> => tasks # <<>>)
    BY <1>5 DEF Work, Top, Pop, Mark, WaitForEvent, Awake, Handle, Timeout, rcvVars, dispVars
  <2>2. \A v \in Workers : v # w => /\ event'[v] = event[v] /\ wpc'[v] = wpc[v]
                                    /\ mExit'[v] = mExit[v]
    BY <1>0, <1>5 DEF Work, Top, Pop, Mark, WaitForEvent, Awake, Handle, Timeout, Set
  <2>3. \A v \in Workers : v # w /\ (event[v] \/ Looking(v)) => event'[v] \/ Looking(v)'
    BY <2>2 DEF Looking
  <2>4. ASSUME tasks' # <<>>, event[w] \/ Looking(w)
        PROVE  event'[w] \/ Looking(w)'
    <3>1. wpc[w] \in {"pop", "mark", "wait", "asleep", "handle"} => ~mExit[w]
      BY <1>0 DEF RepeatInv
    <3>2. CASE Top(w)
      BY <1>0, <2>4, <3>2 DEF Top, Looking, Set
    <3>3. CASE Pop(w)
      BY <1>0, <2>4, <3>3 DEF Pop, Looking, Set
    <3>4. CASE Mark(w)
      BY <1>0, <2>4, <3>4 DEF Mark, Looking, Set
    <3>5. CASE WaitForEvent(w) \/ Awake(w)
      <4>1. wpc[w] \in {"wait", "asleep"} /\ event[w]
        BY <2>4, <3>5 DEF WaitForEvent, Awake, Looking
      <4>2. wpc'[w] = "top" /\ mExit'[w] = mExit[w]
        BY <1>0, <3>5, <4>1 DEF WaitForEvent, Awake, Set
      <4> QED
        BY <3>1, <4>1, <4>2 DEF Looking
    <3>6. CASE Handle(w)
      <4>1. wpc[w] = "handle" /\ wpc'[w] = "top" /\ mExit'[w] = mExit[w]
        BY <1>0, <3>6 DEF Handle, Set
      <4> QED
        BY <3>1, <4>1 DEF Looking
    <3>7. CASE Timeout(w)
      <4>1. wpc[w] = "asleep" /\ event'[w] = event[w]
        BY <3>7 DEF Timeout
      <4> QED
        BY <2>4, <4>1 DEF Looking
    <3> QED
      BY <1>5, <3>2, <3>3, <3>4, <3>5, <3>6, <3>7 DEF Work
  <2> QED
    BY <2>1, <2>3, <2>4 DEF WakeInv
<1> QED
  BY <1>1, <1>2, <1>3, <1>4, <1>5 DEF Next, Dispatch

\* No wake-up is lost between AddTask, the dispatcher and the workers (thread_pool.h), in
\* spite of the fields that they read without a lock, except on a worker that is leaving:
\* while a task is in the list somebody is to look at it.  This is the safety half of
\* HandledUnlessWasted, for any number of workers and tasks.
THEOREM NeverForgotten == Spec => []NotForgotten
<1>1. Init => WakeInv
  BY DEF Init, WakeInv
<1>2. WakeInv => NotForgotten
  BY DEF WakeInv, NotForgotten, WakeWasted
<1> QED
  BY <1>1, <1>2, WakeStep, Invariance, PTL DEF Spec
-----------------------------------------------------------------------------
\* Every request is in one place

\* The requests that AddTask has put into the list, and those that have been popped.
Pushed == IF rcv = "push" THEN taken - 1 ELSE taken
Popped == Pushed - Len(tasks)

InHand(w) == wpc[w] = "handle"

\* The list holds the requests that are not popped, in the order in which they came.
ListInv ==
    /\ Popped \in Nat
    /\ \A i \in 1 .. Len(tasks) : tasks[i] = Popped + i

\* A request that is popped is in the hands of one worker, until its handler has returned.
HandInv ==
    /\ handled \subseteq 1 .. Popped
    /\ \A w \in Workers : InHand(w) => task[w] \in (1 .. Popped) \ handled
    /\ \A v, w \in Workers : InHand(v) /\ InHand(w) /\ task[v] = task[w] => v = w
    /\ \A k \in 1 .. Popped : k \in handled \/ \E w \in Workers : InHand(w) /\ task[w] = k

\* The requests that are about to be added, in the list, and in the hands of workers.
Adding == IF rcv = "push" THEN {taken} ELSE {}
Held   == {task[w] : w \in {v \in Workers : InHand(v)}}

\* Every request that ThreadRcv has read is in exactly one place: about to be added, in the
\* list, in the hands of one worker, or handled; and the list is in the order of arrival.
EachOnce ==
    /\ 1 .. taken = Adding \cup Range(tasks) \cup Held \cup handled
    /\ Adding \cap (Range(tasks) \cup Held \cup handled) = {}
    /\ Range(tasks) \cap (Held \cup handled) = {}
    /\ Held \cap handled = {}
    /\ \A v, w \in Workers : InHand(v) /\ InHand(w) /\ task[v] = task[w] => v = w
    /\ \A i, j \in 1 .. Len(tasks) : i < j => tasks[i] < tasks[j]

\* What a step that leaves the list and the tasks in hand alone leaves.
LEMMA PlacesFrame ==
    ASSUME ListInv, HandInv, UNCHANGED <<tasks, handled, Pushed>>,
           \A w \in Workers : /\ InHand(w)' <=> InHand(w)
                              /\ InHand(w) => task'[w] = task[w]
    PROVE  ListInv' /\ HandInv'
<1>1. Popped' = Popped
  BY DEF Popped
<1>2. ListInv'
  BY <1>1 DEF ListInv
<1> QED
  BY <1>1, <1>2 DEF HandInv

\* Requests go from one place to the next.
LEMMA PlacesStep == IInv /\ ListInv /\ HandInv /\ [Next]_vars => ListInv' /\ HandInv'
<1> SUFFICES ASSUME IInv, ListInv, HandInv, [Next]_vars
             PROVE  ListInv' /\ HandInv'
  OBVIOUS
<1>0. /\ taken \in Nat /\ tasks \in Seq(1 .. NTasks) /\ Len(tasks) \in Nat
      /\ wpc \in [Workers -> WorkerPCs] /\ task \in [Workers -> 0 .. NTasks]
      /\ rcv \in {"poll", "push", "notify", "dead"}
  BY BoundsAssumption DEF IInv, TypeOK, TaskInv
<1>1. CASE KernelSend \/ RcvRead \/ RcvDies \/ Notify \/ UNCHANGED vars
  <2>1. UNCHANGED <<tasks, handled, wpc, task>>
    BY <1>1 DEF KernelSend, RcvRead, RcvDies, Notify, vars, workerVars
  <2>2. Pushed' = Pushed
    BY <1>0, <1>1 DEF KernelSend, RcvRead, RcvDies, Notify, vars, Pushed
  <2> QED
    BY <2>1, <2>2, PlacesFrame DEF InHand
<1>2. CASE Dispatch
  <2>1. UNCHANGED <<tasks, handled, rcv, taken>>
    BY <1>2 DEF Dispatch, DispatchWait, DispatchScan, DispatchPick, DispatchWake, rcvVars
  <2>2. Pushed' = Pushed
    BY <2>1 DEF Pushed
  <2>3. CASE DispatchWait \/ DispatchWake
    <3>1. UNCHANGED <<wpc, task>>
      BY <2>3 DEF DispatchWait, DispatchWake, workerVars
    <3> QED
      BY <2>1, <2>2, <3>1, PlacesFrame DEF InHand
  <2>4. CASE DispatchScan
    <3>1. UNCHANGED task /\ \A w \in Workers : \/ wpc'[w] = wpc[w]
                                               \/ wpc[w] = "end" /\ wpc'[w] = "none"
      BY <1>0, <2>4 DEF DispatchScan, Set
    <3> QED
      BY <2>1, <2>2, <3>1, PlacesFrame DEF InHand
  <2>5. CASE DispatchPick
    <3>1. \A w \in Workers : \/ wpc'[w] = wpc[w] /\ task'[w] = task[w]
                             \/ wpc[w] = "none" /\ wpc'[w] = "top"
      BY <1>0, <2>5 DEF DispatchPick, Set, workerVars
    <3> QED
      BY <2>1, <2>2, <3>1, PlacesFrame DEF InHand
  <2> QED
    BY <1>2, <2>3, <2>4, <2>5 DEF Dispatch
<1>3. CASE Push
  <2>1. /\ rcv = "push" /\ rcv' = "notify" /\ taken' = taken /\ tasks' = Append(tasks, taken)
        /\ UNCHANGED <<wpc, task, handled>>
    BY <1>3 DEF Push, workerVars
  <2>2. taken \in 1 .. NTasks
    BY <2>1, BoundsAssumption DEF IInv, TypeOK, TaskInv
  <2>3. /\ Len(tasks') = Len(tasks) + 1 /\ tasks'[Len(tasks) + 1] = taken
        /\ \A i \in 1 .. Len(tasks) : tasks'[i] = tasks[i]
    BY <1>0, <2>1, <2>2, Appended
  <2>4. Popped' = Popped /\ taken = Popped + (Len(tasks) + 1)
    BY <1>0, <2>1, <2>3 DEF Popped, Pushed
  <2>5. ASSUME NEW i \in 1 .. Len(tasks')
        PROVE  tasks'[i] = Popped + i
    <3>1. i \in 1 .. Len(tasks) \/ i = Len(tasks) + 1
      BY <1>0, <2>3
    <3> QED
      BY <2>3, <2>4, <3>1 DEF ListInv
  <2>6. ListInv'
    BY <2>4, <2>5 DEF ListInv
  <2> QED
    BY <2>1, <2>4, <2>6 DEF HandInv, InHand
<1>4. ASSUME NEW w \in Workers, Pop(w)
      PROVE  ListInv' /\ HandInv'
  <2>0. UNCHANGED <<rcv, taken, handled>> /\ Pushed' = Pushed /\ wpc[w] = "pop"
    BY <1>4 DEF Pop, rcvVars, Pushed
  <2>1. CASE tasks = <<>>
    <3>1. UNCHANGED <<tasks, task>> /\ wpc' = [wpc EXCEPT ![w] = "mark"]
      BY <1>4, <2>1 DEF Pop, Set
    <3> QED
      BY <1>0, <2>0, <3>1, PlacesFrame DEF InHand
  <2>2. CASE tasks # <<>>
    <3>1. /\ tasks' = Tail(tasks) /\ task' = [task EXCEPT ![w] = Head(tasks)]
          /\ wpc' = [wpc EXCEPT ![w] = "handle"]
      BY <1>4, <2>2 DEF Pop, Set
    <3>2. /\ Len(tasks) \in Nat \ {0} /\ Len(tasks') = Len(tasks) - 1 /\ Head(tasks) = tasks[1]
          /\ \A i \in 1 .. Len(tasks) - 1 : tasks'[i] = tasks[i + 1]
      BY <1>0, <2>2, <3>1
    <3>3. Popped \in Nat /\ \A i \in 1 .. Len(tasks) : tasks[i] = Popped + i
      BY DEF ListInv
    <3>4. Popped' = Popped + 1 /\ Head(tasks) = Popped + 1
      <4>1. Pushed \in Int
        BY <1>0 DEF Pushed
      <4>2. Popped = Pushed - Len(tasks) /\ Popped' = Pushed - Len(tasks')
        BY <2>0 DEF Popped
      <4> QED
        BY <3>2, <3>3, <4>1, <4>2
    <3>5. ASSUME NEW i \in 1 .. Len(tasks')
          PROVE  tasks'[i] = Popped' + i
      <4>1. i + 1 \in 1 .. Len(tasks) /\ i \in 1 .. Len(tasks) - 1
        BY <3>2
      <4> QED
        BY <3>2, <3>3, <3>4, <4>1
    <3>6. ListInv'
      BY <3>3, <3>4, <3>5 DEF ListInv
    <3>7. /\ InHand(w)' /\ task'[w] = Popped + 1 /\ ~InHand(w)
          /\ \A v \in Workers : v # w => (InHand(v)' <=> InHand(v)) /\ task'[v] = task[v]
      BY <1>0, <2>0, <3>1, <3>4 DEF InHand
    <3>8. /\ 1 .. Popped + 1 = (1 .. Popped) \cup {Popped + 1} /\ Popped + 1 \notin 1 .. Popped
      BY <3>3
    <3>9. HandInv'
      <4> HIDE DEF Popped, InHand
      <4>1. handled' \subseteq 1 .. Popped' /\ handled' = handled /\ Popped + 1 \notin handled
        BY <2>0, <3>4, <3>8 DEF HandInv
      <4>2. \A v \in Workers : InHand(v)' => task'[v] \in (1 .. Popped') \ handled'
        BY <3>4, <3>7, <3>8, <4>1 DEF HandInv
      <4>3. \A u, v \in Workers : InHand(u)' /\ InHand(v)' /\ task'[u] = task'[v] => u = v
        BY <3>7, <3>8 DEF HandInv
      <4>4. \A k \in 1 .. Popped' :
                k \in handled' \/ \E v \in Workers : InHand(v)' /\ task'[v] = k
        BY <3>4, <3>7, <3>8, <4>1 DEF HandInv
      <4> QED
        BY <4>1, <4>2, <4>3, <4>4 DEF HandInv
    <3> QED
      BY <3>6, <3>9
  <2> QED
    BY <2>1, <2>2
<1>5. ASSUME NEW w \in Workers,
             Top(w) \/ Mark(w) \/ WaitForEvent(w) \/ Awake(w) \/ Timeout(w)
      PROVE  ListInv' /\ HandInv'
  <2>1. UNCHANGED <<tasks, handled, rcv, taken, task>>
    BY <1>5 DEF Top, Mark, WaitForEvent, Awake, Timeout, rcvVars
  <2>2. \A v \in Workers : InHand(v)' <=> InHand(v)
    BY <1>0, <1>5 DEF Top, Mark, WaitForEvent, Awake, Timeout, Set, InHand
  <2>3. Pushed' = Pushed
    BY <2>1 DEF Pushed
  <2> QED
    BY <2>1, <2>2, <2>3, PlacesFrame
<1>6. ASSUME NEW w \in Workers, Handle(w)
      PROVE  ListInv' /\ HandInv'
  <2>1. /\ UNCHANGED <<tasks, rcv, taken>> /\ InHand(w) /\ handled' = handled \cup {task[w]}
        /\ task' = [task EXCEPT ![w] = 0] /\ wpc' = [wpc EXCEPT ![w] = "top"]
    BY <1>6 DEF Handle, rcvVars, Set, InHand
  <2>2. Popped' = Popped
    BY <2>1 DEF Popped, Pushed
  <2>3. /\ ~InHand(w)'
        /\ \A v \in Workers : v # w => (InHand(v)' <=> InHand(v)) /\ task'[v] = task[v]
    BY <1>0, <2>1 DEF InHand
  <2>4. ListInv'
    BY <2>1, <2>2 DEF ListInv
  <2>5. HandInv'
    <3> HIDE DEF Popped, InHand
    <3>1. handled' \subseteq 1 .. Popped'
      BY <2>1, <2>2 DEF HandInv
    <3>2. \A v \in Workers : InHand(v)' => task'[v] \in (1 .. Popped') \ handled'
      BY <2>1, <2>2, <2>3 DEF HandInv
    <3>3. \A u, v \in Workers : InHand(u)' /\ InHand(v)' /\ task'[u] = task'[v] => u = v
      BY <2>3 DEF HandInv
    <3>4. \A k \in 1 .. Popped' :
              k \in handled' \/ \E v \in Workers : InHand(v)' /\ task'[v] = k
      BY <2>1, <2>2, <2>3 DEF HandInv
    <3> QED
      BY <3>1, <3>2, <3>3, <3>4 DEF HandInv
  <2> QED
    BY <2>4, <2>5
<1> QED
  BY <1>1, <1>2, <1>3, <1>4, <1>5, <1>6 DEF Next, Work

\* The places are those that the invariant says.
LEMMA PlacesAre == IInv /\ ListInv /\ HandInv => EachOnce
<1> SUFFICES ASSUME IInv, ListInv, HandInv
             PROVE  EachOnce
  OBVIOUS
<1>1. /\ taken \in Nat /\ Len(tasks) \in Nat /\ tasks \in Seq(1 .. NTasks)
      /\ rcv = "push" => taken > 0
  BY BoundsAssumption DEF IInv, TypeOK, TaskInv
<1>2. /\ Popped \in Nat /\ Pushed = Popped + Len(tasks) /\ Pushed \in Nat
      /\ \A i \in 1 .. Len(tasks) : tasks[i] = Popped + i
  BY <1>1 DEF ListInv, Popped, Pushed
<1>3. Range(tasks) = Popped + 1 .. Pushed
  <2>1. \A k : k \in Range(tasks) <=> \E i \in 1 .. Len(tasks) : tasks[i] = k
    BY <1>1 DEF Range
  <2>2. ASSUME NEW k \in Popped + 1 .. Pushed
        PROVE  k - Popped \in 1 .. Len(tasks) /\ tasks[k - Popped] = k
    BY <1>1, <1>2
  <2>3. ASSUME NEW i \in 1 .. Len(tasks)
        PROVE  tasks[i] \in Popped + 1 .. Pushed
    BY <1>1, <1>2
  <2> QED
    BY <2>1, <2>2, <2>3
<1>4. Held \cup handled = 1 .. Popped /\ Held \cap handled = {}
  <2>1. \A k : k \in Held <=> \E w \in Workers : InHand(w) /\ task[w] = k
    BY DEF Held
  <2> DEFINE D == 1 .. Popped
  <2>2. /\ handled \subseteq D
        /\ \A w \in Workers : InHand(w) => task[w] \in D \ handled
        /\ \A k \in D : k \in handled \/ \E w \in Workers : InHand(w) /\ task[w] = k
    BY DEF HandInv
  <2> HIDE DEF D
  <2>3. Held \cup handled = D /\ Held \cap handled = {}
    BY <2>1, <2>2
  <2> QED
    BY <2>3 DEF D
<1>5. /\ 1 .. taken = Adding \cup (Popped + 1 .. Pushed) \cup (1 .. Popped)
      /\ Adding \cap ((Popped + 1 .. Pushed) \cup (1 .. Popped)) = {}
      /\ (Popped + 1 .. Pushed) \cap (1 .. Popped) = {}
  <2> HIDE DEF Popped
  <2>1. \/ Pushed = taken /\ Adding = {}
        \/ Pushed = taken - 1 /\ Adding = {taken} /\ taken > 0
    BY <1>1 DEF Pushed, Adding
  <2> HIDE DEF Pushed, Adding
  <2>2. Popped <= Pushed
    BY <1>1, <1>2
  <2> QED
    BY <1>1, <1>2, <2>1, <2>2
<1>6. \A i, j \in 1 .. Len(tasks) : i < j => tasks[i] < tasks[j]
  BY <1>1, <1>2
<1> QED
  BY <1>3, <1>4, <1>5, <1>6 DEF EachOnce, HandInv

\* No request is lost, handled twice or overtaken in the list between recvfrom in ThreadRcv
\* and the end of its handler (CTaskList, CThreadWork::Runnable), for any number of workers:
\* workers that end, and are erased, have nothing in their hands.
THEOREM HandledOnce == Spec => []EachOnce
<1>1. Init => ListInv /\ HandInv
  <2> SUFFICES ASSUME Init
               PROVE  ListInv /\ HandInv
    OBVIOUS
  <2>1. Len(tasks) = 0 /\ Pushed = 0 /\ handled = {}
    BY DEF Init, Pushed
  <2>2. Popped = 0
    BY <2>1 DEF Popped
  <2>3. \A w \in Workers : ~InHand(w)
    BY DEF Init, InHand
  <2> QED
    BY <2>1, <2>2, <2>3 DEF ListInv, HandInv
<1> QED
  BY <1>1, PlacesStep, PlacesAre, Invariance, PTL DEF Spec
=============================================================================
