----------------------------- MODULE ThreadPool -----------------------------
(***************************************************************************)
(* The daemon's side of the upcall: the receive thread reads requests from *)
(* the netlink socket and adds them to a task list; a dispatcher thread    *)
(* wakes or creates worker threads; a worker pops tasks, runs the handler, *)
(* and ends after being idle for some number of time-outs.                 *)
(*                                                                         *)
(*   netlink.cpp    CNetlinkInfo::ThreadRcv                                *)
(*   thread_pool.h  CTaskList, CThreadWork, CThreadPool                    *)
(*   pevents.cpp    the auto-reset events they wait on                     *)
(*                                                                         *)
(* Task list operations and event operations each run under a mutex of     *)
(* their own and are atomic here; m_status and m_bExit are plain fields    *)
(* that the dispatcher reads while the worker writes them.                 *)
(***************************************************************************)
EXTENDS Naturals, Sequences, SequencesExt

CONSTANTS
    Workers,    \* CThreadWork objects that can exist at the same time
    NTasks,     \* bound: how many requests the kernel sends
    MaxRepeat,  \* MAX_REPEAT_COUNT, 12 in the code
    None        \* ptrThread == nullptr

ASSUME WorkersAssumption == Workers # {} /\ None \notin Workers
ASSUME BoundsAssumption  == NTasks \in Nat /\ MaxRepeat \in Nat \ {0}

VARIABLES
    sent,       \* requests the kernel has put into the socket
    rcv,        \* ThreadRcv: "poll", "push", "notify" or "dead"
    taken,      \* requests ThreadRcv has read from the socket
    tasks,      \* CTaskList::m_list
    poolEvent,  \* CThreadPool::m_event is signalled
    disp,       \* CThreadPool::Runnable: "wait", "scan" or "wake"
    pos,        \*   position of its iterator in m_threadPool
    pick,       \*   ptrThread
    pool,       \* CThreadPool::m_threadPool
    wpc,        \* wpc[w]: where CThreadWork::Runnable of w is
    status,     \* wpc's m_status: TS_WAIT, TS_RUNNING, TS_EXIT
    mExit,      \*   m_bExit
    repeat,     \*   nRepeatCount
    event,      \*   m_event is signalled
    task,       \*   ptrTask, 0 for nullptr
    handled     \* tasks whose handler has returned

vars == <<sent, rcv, taken, tasks, poolEvent, disp, pos, pick, pool, wpc, status,
          mExit, repeat, event, task, handled>>

rcvVars    == <<sent, rcv, taken>>
dispVars   == <<disp, pos, pick, pool>>
workerVars == <<wpc, status, mExit, repeat, event, task>>

WorkerPCs == {"none", "top", "pop", "mark", "wait", "asleep", "handle", "end"}

Init ==
    /\ sent = 0 /\ rcv = "poll" /\ taken = 0
    /\ tasks = <<>> /\ poolEvent = FALSE
    /\ disp = "wait" /\ pos = 1 /\ pick = None /\ pool = <<>>
    /\ wpc = [w \in Workers |-> "none"]
    /\ status = [w \in Workers |-> "wait"]
    /\ mExit = [w \in Workers |-> FALSE]
    /\ repeat = [w \in Workers |-> MaxRepeat]
    /\ event = [w \in Workers |-> FALSE]
    /\ task = [w \in Workers |-> 0]
    /\ handled = {}

Set(f, w, v) == [f EXCEPT ![w] = v]
-----------------------------------------------------------------------------
\* The receive thread

\* The kernel sends a request (netlink_unicast).
KernelSend ==
    /\ sent < NTasks
    /\ sent' = sent + 1
    /\ UNCHANGED <<rcv, taken, tasks, poolEvent, dispVars, workerVars, handled>>

\* poll finds a message and recvfrom reads it.
RcvRead ==
    /\ rcv = "poll"
    /\ taken < sent
    /\ taken' = taken + 1
    /\ rcv' = "push"
    /\ UNCHANGED <<sent, tasks, poolEvent, dispVars, workerVars, handled>>

\* poll fails, with EINTR for instance: the thread ends for good.
RcvDies ==
    /\ rcv = "poll"
    /\ rcv' = "dead"
    /\ UNCHANGED <<sent, taken, tasks, poolEvent, dispVars, workerVars, handled>>

\* AddTask: m_task.Push
Push ==
    /\ rcv = "push"
    /\ tasks' = Append(tasks, taken)
    /\ rcv' = "notify"
    /\ UNCHANGED <<sent, taken, poolEvent, dispVars, workerVars, handled>>

\* AddTask: SetEvent
Notify ==
    /\ rcv = "notify"
    /\ poolEvent' = TRUE
    /\ rcv' = "poll"
    /\ UNCHANGED <<sent, taken, tasks, dispVars, workerVars, handled>>
-----------------------------------------------------------------------------
\* The dispatcher: CThreadPool::Runnable.  A time-out of its wait changes
\* nothing.

\* WaitForEvent succeeds and resets the event.
DispatchWait ==
    /\ disp = "wait"
    /\ poolEvent
    /\ poolEvent' = FALSE
    /\ disp' = "scan" /\ pos' = 1 /\ pick' = None
    /\ UNCHANGED <<rcvVars, tasks, pool, workerVars, handled>>

\* One iteration of the search: the last waiting worker wins, a worker that
\* has ended is erased, which destroys the object and its event (and not the
\* detached thread, should that still run).
DispatchScan ==
    /\ disp = "scan"
    /\ pos <= Len(pool)
    /\ LET w == pool[pos]
       IN \/ /\ status[w] = "wait"
             /\ pick' = w /\ pos' = pos + 1
             /\ UNCHANGED <<pool, wpc>>
          \/ /\ status[w] = "exit"
             /\ pool' = RemoveAt(pool, pos)
             /\ wpc' = Set(wpc, w, IF wpc[w] = "end" THEN "none" ELSE wpc[w])
             /\ UNCHANGED <<pos, pick>>
          \/ /\ status[w] = "running"
             /\ pos' = pos + 1
             /\ UNCHANGED <<pick, pool, wpc>>
    /\ UNCHANGED <<rcvVars, tasks, poolEvent, disp, status, mExit, repeat, event, task, handled>>

\* The search is over: with no waiting worker, create one.
DispatchPick ==
    /\ disp = "scan"
    /\ pos > Len(pool)
    /\ disp' = "wake"
    /\ \/ /\ pick # None
          /\ UNCHANGED <<pick, pool, workerVars>>
       \/ /\ pick = None
          /\ \E w \in Workers :
               /\ wpc[w] = "none"
               /\ pick' = w
               /\ pool' = Append(pool, w)
               /\ wpc' = Set(wpc, w, "top")
               /\ status' = Set(status, w, "wait")
               /\ mExit' = Set(mExit, w, FALSE)
               /\ repeat' = Set(repeat, w, MaxRepeat)
               /\ event' = Set(event, w, FALSE)
               /\ task' = Set(task, w, 0)
    /\ UNCHANGED <<rcvVars, tasks, poolEvent, pos, handled>>

\* Wakeup: SetEvent of the worker
DispatchWake ==
    /\ disp = "wake"
    /\ event' = Set(event, pick, TRUE)
    /\ disp' = "wait" /\ pick' = None
    /\ UNCHANGED <<rcvVars, tasks, poolEvent, pos, pool, wpc, status, mExit, repeat, task, handled>>
-----------------------------------------------------------------------------
\* A worker: CThreadWork::Runnable

\* while (!m_bExit): the worker is running, or it ends
Top(w) ==
    /\ wpc[w] = "top"
    /\ IF mExit[w] THEN status' = Set(status, w, "exit") /\ wpc' = Set(wpc, w, "end")
                   ELSE status' = Set(status, w, "running") /\ wpc' = Set(wpc, w, "pop")
    /\ UNCHANGED <<rcvVars, tasks, poolEvent, dispVars, mExit, repeat, event, task, handled>>

\* m_taskList.Pop
Pop(w) ==
    /\ wpc[w] = "pop"
    /\ \/ /\ tasks = <<>>
          /\ wpc' = Set(wpc, w, "mark")
          /\ UNCHANGED <<tasks, task>>
       \/ /\ tasks # <<>>
          /\ wpc' = Set(wpc, w, "handle")
          /\ task' = Set(task, w, Head(tasks))
          /\ tasks' = Tail(tasks)
    /\ UNCHANGED <<rcvVars, poolEvent, dispVars, status, mExit, repeat, event, handled>>

\* m_status = TS_WAIT
Mark(w) ==
    /\ wpc[w] = "mark"
    /\ status' = Set(status, w, "wait")
    /\ wpc' = Set(wpc, w, "wait")
    /\ UNCHANGED <<rcvVars, tasks, poolEvent, dispVars, mExit, repeat, event, task, handled>>

\* Mutant: the event is reset on the way into the wait.
WaitForEventReset(w) ==
    /\ wpc[w] = "wait"
    /\ wpc' = Set(wpc, w, "asleep")
    /\ event' = Set(event, w, FALSE)
    /\ UNCHANGED <<rcvVars, tasks, poolEvent, dispVars, status, mExit, repeat, task, handled>>

\* WaitForEvent: take a signalled event at once, or go to sleep
WaitForEvent(w) ==
    /\ wpc[w] = "wait"
    /\ wpc' = Set(wpc, w, IF event[w] THEN "top" ELSE "asleep")
    /\ event' = Set(event, w, FALSE)
    /\ UNCHANGED <<rcvVars, tasks, poolEvent, dispVars, status, mExit, repeat, task, handled>>

\* The sleeper is signalled.
Awake(w) ==
    /\ wpc[w] = "asleep"
    /\ event[w]
    /\ event' = Set(event, w, FALSE)
    /\ wpc' = Set(wpc, w, "top")
    /\ UNCHANGED <<rcvVars, tasks, poolEvent, dispVars, status, mExit, repeat, task, handled>>

\* Mutant: the status says at once that the thread has ended.
TimeoutEarlyExit(w) ==
    /\ wpc[w] = "asleep"
    /\ repeat' = Set(repeat, w, repeat[w] - 1)
    /\ mExit' = Set(mExit, w, repeat[w] = 1)
    /\ status' = Set(status, w, IF repeat[w] = 1 THEN "exit" ELSE "wait")
    /\ wpc' = Set(wpc, w, "top")
    /\ UNCHANGED <<rcvVars, tasks, poolEvent, dispVars, event, task, handled>>

\* Mutant: the count goes on below zero and the thread never ends.
TimeoutNoExit(w) ==
    /\ wpc[w] = "asleep"
    /\ repeat' = Set(repeat, w, repeat[w] - 1)
    /\ wpc' = Set(wpc, w, "top")
    /\ UNCHANGED <<rcvVars, tasks, poolEvent, dispVars, status, mExit, event, task, handled>>

\* The wait times out; an event that is signalled at that moment stays so.
\* After MaxRepeat time-outs without a task the thread is to end.
Timeout(w) ==
    /\ wpc[w] = "asleep"
    /\ repeat' = Set(repeat, w, repeat[w] - 1)
    /\ mExit' = Set(mExit, w, repeat[w] = 1)
    /\ wpc' = Set(wpc, w, "top")
    /\ UNCHANGED <<rcvVars, tasks, poolEvent, dispVars, status, event, task, handled>>

\* The handler returns (or throws a std::exception, which is swallowed).
Handle(w) ==
    /\ wpc[w] = "handle"
    /\ handled' = handled \cup {task[w]}
    /\ task' = Set(task, w, 0)
    /\ repeat' = Set(repeat, w, MaxRepeat)
    /\ wpc' = Set(wpc, w, "top")
    /\ UNCHANGED <<rcvVars, tasks, poolEvent, dispVars, status, mExit, event>>
-----------------------------------------------------------------------------
Work(w) == Top(w) \/ Pop(w) \/ Mark(w) \/ WaitForEvent(w) \/ Awake(w) \/ Handle(w)

Dispatch == DispatchWait \/ DispatchScan \/ DispatchPick \/ DispatchWake

Next ==
    \/ KernelSend \/ RcvRead \/ RcvDies \/ Push \/ Notify
    \/ Dispatch
    \/ \E w \in Workers : Work(w) \/ Timeout(w)

\* Threads keep running and handlers return.  No time-out has to happen.
Fairness ==
    /\ WF_vars(Push) /\ WF_vars(Notify) /\ WF_vars(Dispatch)
    /\ \A w \in Workers : WF_vars(Work(w))

Spec     == Init /\ [][Next]_vars
FairSpec == Spec /\ Fairness
-----------------------------------------------------------------------------
Alive(w) == wpc[w] \notin {"none", "end"}

\* w has made its last look at the task list.
Dying(w) == Alive(w) /\ mExit[w]

\* Type correctness: every field has a value the code can give it.
TypeOK ==
    /\ sent \in 0 .. NTasks /\ taken \in 0 .. sent
    /\ rcv \in {"poll", "push", "notify", "dead"}
    /\ \A i \in 1 .. Len(tasks) : tasks[i] \in 1 .. taken
    /\ poolEvent \in BOOLEAN
    /\ disp \in {"wait", "scan", "wake"}
    /\ pos \in 1 .. Len(pool) + 1 /\ pick \in Workers \cup {None}
    /\ pool \in Seq(Workers)
    /\ wpc \in [Workers -> WorkerPCs]
    /\ status \in [Workers -> {"wait", "running", "exit"}]
    /\ mExit \in [Workers -> BOOLEAN]
    /\ repeat \in [Workers -> 0 .. MaxRepeat]
    /\ event \in [Workers -> BOOLEAN]
    /\ task \in [Workers -> 0 .. NTasks]
    /\ handled \subseteq 1 .. taken

\* A CThreadWork is destroyed, with its event, only after its thread has done
\* its last access to it, and the worker the dispatcher is about to wake is
\* one that still exists (thread_pool.h:247 against :182).
NoUseAfterErase ==
    /\ \A w \in Workers : Alive(w) => w \in Range(pool)
    /\ disp = "wake" => pick \in Range(pool)
    /\ \A i, j \in 1 .. Len(pool) : i # j => pool[i] # pool[j]

\* A wake-up was given to a worker that no longer looks at the task list.
WakeWasted == \E w \in Workers : event[w] /\ (Dying(w) \/ ~Alive(w))

\* A task that was added is handled, without any time-out having to help,
\* unless a wake-up is wasted on a worker that is leaving.
HandledUnlessWasted ==
    \A k \in 1 .. NTasks : (k \in Range(tasks)) ~> (k \in handled \/ WakeWasted)
=============================================================================
