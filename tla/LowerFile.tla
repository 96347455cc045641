----------------------------- MODULE LowerFile -----------------------------
(***************************************************************************)
(* Opening and closing one regular file of the mounted file system: the    *)
(* count of open lower files, the mutex that guards it, and the upcalls    *)
(* made around them.                                                       *)
(*                                                                         *)
(*   file.c      teadfs_open, teadfs_release, teadfs_get_lower_file,       *)
(*               teadfs_put_lower_file                                     *)
(*   user_com.c  the open and release upcalls, reduced to what they wait   *)
(*               for (module Upcall has their inside)                      *)
(*   main.cpp    the daemon's workers, whose callbacks open and close the  *)
(*               very file they are asked about                            *)
(*                                                                         *)
(* A thread has at most one struct file of this inode.  The mutex is named *)
(* by its holder; a critical section that cannot block is one step, so the *)
(* holder is only ever a thread in the release upcall.                     *)
(***************************************************************************)
EXTENDS Integers, FiniteSets

CONSTANTS
    Apps,      \* threads of ordinary processes
    Workers,   \* threads of daemon processes
    Daemons,   \* daemon processes
    Of,        \* Of[w]: the daemon process of worker w
    None,      \* no thread, no process
    Late,      \* a request whose sender no longer waits
    Answers,   \* what the daemon may answer to an open request
    LowerFails,\* whether dentry_open of the lower file may fail
    MaxOpens   \* bound: how many times the file is opened

Threads == Apps \cup Workers

ASSUME ThreadsAssumption == IsFiniteSet(Threads) /\ Apps \cap Workers = {}
ASSUME OfAssumption == Of \in [Workers -> Daemons]
ASSUME NoneAssumption ==
    None \notin Threads \cup Daemons /\ Late \notin Threads /\ Late # None
ASSUME AnswersAssumption ==
    /\ Answers \subseteq {"init", "prohibit", "encrypt", "decrypt"}
    /\ LowerFails \in BOOLEAN
ASSUME BoundAssumption == MaxOpens \in Nat

VARIABLES
    clientPid,   \* teadfs_get_client_pid()
    connect,     \* teadfs_get_client_connect()
    mutex,       \* holder of inode_info->lower_file_mutex
    count,       \* inode_info->lower_file_count
    fileDecrypt, \* inode_info->file_decrypt
    pc,          \* pc[t]: where t is in open or release
    access,      \* access[t]: file_info->access of t's file
    lowerFiles,  \* struct files of the lower file that have not been put
    pend,        \* threads whose request no worker has taken yet
    late,        \* requests given up by their sender, not yet taken
    serving,     \* serving[w]: whose request w handles
    opens,       \* number of opens so far, for the bound
    counted,     \* history: files whose open added to the count
    mishaps      \* history: what has happened that the count does not survive

vars == <<clientPid, connect, mutex, count, fileDecrypt, pc, access, lowerFiles,
          pend, late, serving, opens, counted, mishaps>>

client    == <<clientPid, connect>>
inodeVars == <<mutex, count, fileDecrypt>>
upcalls   == <<pend, late, serving>>
history   == <<opens, counted, mishaps>>

PCs == {"idle", "mark", "ask", "asking", "get", "lock", "open",
        "putlock", "release", "releasing"}

Init ==
    /\ clientPid = None /\ connect = FALSE
    /\ mutex = None /\ count = 0 /\ fileDecrypt = FALSE
    /\ pc = [t \in Threads |-> "idle"]
    /\ access = [t \in Threads |-> "init"]
    /\ lowerFiles = 0
    /\ pend = {} /\ late = 0
    /\ serving = [w \in Workers |-> None]
    /\ opens = 0 /\ counted = {} /\ mishaps = {}
-----------------------------------------------------------------------------
Goto(t, l) == pc' = [pc EXCEPT ![t] = l]

\* task_tgid_vnr(current) == teadfs_get_client_pid()
IsClient(t) == t \in Workers /\ Of[t] = clientPid

\* An upcall of t is sent: connected, and t is not the daemon.
Asks(t) == connect /\ ~IsClient(t)
-----------------------------------------------------------------------------
\* teadfs_open

\* open(2) of the file: by a program at any time, by a worker from a callback.
Open(t) ==
    /\ pc[t] = "idle"
    /\ opens < MaxOpens
    /\ t \in Workers => serving[t] # None
    /\ opens' = opens + 1
    /\ access' = [access EXCEPT ![t] = "init"]
    /\ Goto(t, "mark")
    /\ UNCHANGED <<client, inodeVars, lowerFiles, upcalls, counted, mishaps>>

\* file_decrypt is computed under the mutex, from the access known so far.
Mark(t) ==
    /\ pc[t] = "mark"
    /\ mutex = None
    /\ fileDecrypt' = (access[t] \in {"encrypt", "decrypt"})
    /\ Goto(t, "ask")
    /\ UNCHANGED <<client, mutex, count, access, lowerFiles, upcalls, history>>

\* teadfs_request_open_file: the upcall is sent, or ends at once with OFR_INIT
\* (not connected, the daemon, no memory).
Ask(t) ==
    /\ pc[t] = "ask"
    /\ \/ /\ Asks(t)
          /\ pend' = pend \cup {t}
          /\ Goto(t, "asking")
       \/ Goto(t, "get") /\ UNCHANGED pend
    /\ UNCHANGED <<client, inodeVars, access, lowerFiles, late, serving, history>>

\* The end of a teadfs_open that fails: file_info is freed.
OpenFails(t) == Goto(t, "idle")

\* Mutant: the daemon shares a lower file that is already open.
GetClientShared(t) ==
    /\ pc[t] = "get"
    /\ IsClient(t)
    /\ lowerFiles' = IF lowerFiles = 0 THEN 1 ELSE lowerFiles
    /\ Goto(t, "open")
    /\ UNCHANGED <<client, inodeVars, access, upcalls, history>>

\* teadfs_get_lower_file for the daemon: no count, no mutex.
GetClient(t) ==
    /\ pc[t] = "get"
    /\ IsClient(t)
    /\ \/ lowerFiles' = lowerFiles + 1 /\ Goto(t, "open")
       \/ LowerFails /\ OpenFails(t) /\ UNCHANGED lowerFiles
    /\ UNCHANGED <<client, inodeVars, access, upcalls, history>>

\* ... and for everybody else, who waits for the mutex.
GetOther(t) ==
    /\ pc[t] = "get"
    /\ ~IsClient(t)
    /\ Goto(t, "lock")
    /\ UNCHANGED <<client, inodeVars, access, lowerFiles, upcalls, history>>

\* The counted open, under the mutex.  A count below 1 is refused and stays
\* incremented; an error of dentry_open resets the count.
GetLocked(t) ==
    /\ pc[t] = "lock"
    /\ mutex = None
    /\ \/ /\ count + 1 < 1
          /\ count' = count + 1
          /\ OpenFails(t)
          /\ UNCHANGED <<lowerFiles, counted, mishaps>>
       \/ /\ count + 1 >= 1
          /\ count' = count + 1
          /\ lowerFiles' = lowerFiles + 1
          /\ counted' = counted \cup {t}
          /\ Goto(t, "open")
          /\ UNCHANGED mishaps
       \/ /\ LowerFails
          /\ count + 1 >= 1
          /\ count' = 0
          /\ mishaps' = mishaps \cup {"openFailed"}
          /\ OpenFails(t)
          /\ UNCHANGED <<lowerFiles, counted>>
    /\ UNCHANGED <<client, mutex, fileDecrypt, access, upcalls, opens>>
-----------------------------------------------------------------------------
\* teadfs_release

\* The end of teadfs_release: the path buffer and file_info are freed.
Released(t) == Goto(t, "idle")

\* Putting a file that was opened the other way: its process has become the
\* daemon since, or is the daemon no longer.
Switched(t) == IF IsClient(t) = (t \in counted) THEN {"clientChanged"} ELSE {}

\* Mutant: the lower file is put by its own release as well.
PutClientTwice(t) ==
    /\ pc[t] = "open"
    /\ IsClient(t)
    /\ lowerFiles' = lowerFiles - 2
    /\ counted' = counted \ {t}
    /\ mishaps' = mishaps \cup Switched(t)
    /\ Released(t)
    /\ UNCHANGED <<client, inodeVars, access, upcalls, opens>>

\* teadfs_put_lower_file for the daemon.
PutClient(t) ==
    /\ pc[t] = "open"
    /\ IsClient(t)
    /\ lowerFiles' = lowerFiles - 1
    /\ counted' = counted \ {t}
    /\ mishaps' = mishaps \cup Switched(t)
    /\ Released(t)
    /\ UNCHANGED <<client, inodeVars, access, upcalls, opens>>

\* Mutant: the count is decremented before the slow path, which does it again.
PutFastTwice(t) ==
    /\ pc[t] = "open"
    /\ ~IsClient(t)
    /\ mishaps' = mishaps \cup Switched(t)
    /\ count' = count - 1
    /\ IF count # 1
       THEN counted' = counted \ {t} /\ Released(t)
       ELSE Goto(t, "putlock") /\ UNCHANGED counted
    /\ UNCHANGED <<client, mutex, fileDecrypt, access, lowerFiles, upcalls, opens>>

\* atomic_dec_and_mutex_lock: any count but 1 is decremented without the mutex.
PutFast(t) ==
    /\ pc[t] = "open"
    /\ ~IsClient(t)
    /\ mishaps' = mishaps \cup Switched(t)
    /\ IF count # 1
       THEN /\ count' = count - 1
            /\ counted' = counted \ {t}
            /\ Released(t)
       ELSE /\ Goto(t, "putlock")
            /\ UNCHANGED <<count, counted>>
    /\ UNCHANGED <<client, mutex, fileDecrypt, access, lowerFiles, upcalls, opens>>

\* Mutant: the count is not looked at again under the mutex.
PutLockUnchecked(t) ==
    /\ pc[t] = "putlock"
    /\ mutex = None
    /\ count' = count - 1
    /\ counted' = counted \ {t}
    /\ mutex' = t /\ Goto(t, "release")
    /\ UNCHANGED <<client, fileDecrypt, access, lowerFiles, upcalls, opens, mishaps>>

\* ... and a count of 1 under the mutex, which is kept when the count reaches 0.
\* The lower file is put only if the lower path is missing, which it never is.
PutLock(t) ==
    /\ pc[t] = "putlock"
    /\ mutex = None
    /\ count' = count - 1
    /\ counted' = counted \ {t}
    /\ IF count = 1
       THEN mutex' = t /\ Goto(t, "release")
       ELSE Released(t) /\ UNCHANGED mutex
    /\ UNCHANGED <<client, fileDecrypt, access, lowerFiles, upcalls, opens, mishaps>>

\* The mutex is unlocked after teadfs_request_release.
Unlock(t) ==
    /\ mutex' = None
    /\ Released(t)

\* teadfs_request_release: sent with the mutex held, or over at once.
AskRelease(t) ==
    /\ pc[t] = "release"
    /\ \/ /\ Asks(t)
          /\ pend' = pend \cup {t}
          /\ Goto(t, "releasing")
          /\ UNCHANGED mutex
       \/ Unlock(t) /\ UNCHANGED pend
    /\ UNCHANGED <<client, count, fileDecrypt, access, lowerFiles, late, serving, history>>
-----------------------------------------------------------------------------
\* The upcalls, seen from outside

\* An open upcall of t ends with a.
EndOpen(t, a) ==
    /\ pc[t] = "asking"
    /\ access' = [access EXCEPT ![t] = a]
    /\ IF a = "prohibit"
       THEN OpenFails(t)
       ELSE Goto(t, "get")
    /\ UNCHANGED mutex

\* A release upcall of t ends.  Nothing looks at its result.
EndRelease(t) ==
    /\ pc[t] = "releasing"
    /\ Unlock(t)
    /\ UNCHANGED access

\* Mutant: a request that a worker has taken is waited for without limit.
TimeoutQueued(t) ==
    /\ t \in pend
    /\ EndOpen(t, "init") \/ EndRelease(t)
    /\ pend' = pend \ {t}
    /\ late' = late + 1
    /\ UNCHANGED <<client, count, fileDecrypt, lowerFiles, serving, history>>

\* 30 seconds have passed: OFR_INIT for an open.  The request is still in the
\* daemon's queue or with a worker.
Timeout(t) ==
    /\ EndOpen(t, "init") \/ EndRelease(t)
    /\ pend' = pend \ {t}
    /\ late' = IF t \in pend THEN late + 1 ELSE late
    /\ serving' = [w \in Workers |-> IF serving[w] = t THEN Late ELSE serving[w]]
    /\ UNCHANGED <<client, count, fileDecrypt, lowerFiles, history>>

\* A worker of the connected daemon takes a request from the pool.
Serve(w) ==
    /\ connect /\ IsClient(w)
    /\ serving[w] = None
    /\ \/ \E t \in pend :
             /\ serving' = [serving EXCEPT ![w] = t]
             /\ pend' = pend \ {t}
             /\ UNCHANGED late
       \/ /\ late > 0
          /\ serving' = [serving EXCEPT ![w] = Late]
          /\ late' = late - 1
          /\ UNCHANGED pend
    /\ UNCHANGED <<client, inodeVars, pc, access, lowerFiles, history>>

\* The callback of w has returned and its result is sent.
Answer(w) ==
    /\ serving[w] # None
    /\ pc[w] \in {"idle", "open"}
    /\ \/ serving[w] = Late /\ UNCHANGED <<mutex, pc, access>>
       \/ \E t \in Threads \ {w} :
             /\ serving[w] = t
             /\ (\E a \in Answers : EndOpen(t, a)) \/ EndRelease(t)
    /\ serving' = [serving EXCEPT ![w] = None]
    /\ UNCHANGED <<client, count, fileDecrypt, lowerFiles, pend, late, history>>

\* A daemon opens the device and says HELLO.
Hello(d) ==
    /\ ~connect
    /\ connect' = TRUE
    /\ clientPid' = d
    /\ UNCHANGED <<inodeVars, pc, access, lowerFiles, upcalls, history>>

\* The daemon stops or dies: the device is closed, the pid stays, what it had
\* received is lost, and what its threads hold open is closed later.
Goodbye ==
    /\ connect
    /\ connect' = FALSE
    /\ pend' = {}
    /\ late' = 0
    /\ serving' = [w \in Workers |-> None]
    /\ UNCHANGED <<clientPid, inodeVars, pc, access, lowerFiles, history>>
-----------------------------------------------------------------------------
\* What a thread does on its own once it has entered the kernel.
Kernel(t) ==
    \/ Mark(t) \/ Ask(t) \/ GetClient(t) \/ GetOther(t) \/ GetLocked(t)
    \/ PutLock(t) \/ AskRelease(t) \/ Timeout(t)

Next ==
    \/ \E t \in Threads : Open(t) \/ PutClient(t) \/ PutFast(t) \/ Kernel(t)
    \/ \E w \in Workers : Serve(w) \/ Answer(w)
    \/ \E d \in Daemons : Hello(d)
    \/ Goodbye

Spec == Init /\ [][Next]_vars

\* Threads inside the kernel are scheduled, mutexes are granted and timers
\* fire; nothing is assumed of programs or of the daemon.
FairSpec == Spec /\ \A t \in Threads : WF_vars(Kernel(t))
-----------------------------------------------------------------------------
TypeOK ==
    /\ clientPid \in Daemons \cup {None}
    /\ connect \in BOOLEAN
    /\ mutex \in Threads \cup {None}
    /\ count \in Int
    /\ fileDecrypt \in BOOLEAN
    /\ pc \in [Threads -> PCs]
    /\ access \in [Threads -> {"init", "prohibit", "encrypt", "decrypt"}]
    /\ lowerFiles \in Nat
    /\ pend \subseteq Threads
    /\ late \in Nat
    /\ serving \in [Workers -> Threads \cup {None, Late}]
    /\ opens \in 0 .. MaxOpens
    /\ counted \subseteq Threads
    /\ mishaps \subseteq {"openFailed", "clientChanged"}

\* lower_file_count (file.c:81, :87, :119) is the number of files opened by
\* others than the daemon and not yet put, whatever opens, closes and time-outs
\* overlap -- as long as no lower open has failed and no process has become or
\* ceased to be the daemon between its open and its release.
CountExact == mishaps = {} => count = Cardinality(counted)

\* While the release upcall runs under the mutex (file.c:119-133), nobody else
\* has the file open through a counted open: the daemon that is told of the
\* release (and replaces the file then) never pulls it from under an opener.
AloneInRelease ==
    mishaps = {} => \A t \in Threads :
        pc[t] \in {"release", "releasing"} => mutex = t /\ counted = {}

\* Threads with an open file, the ones about to take the mutex to put it included.
HasFile == {t \in Threads : pc[t] \in {"open", "putlock"}}

\* Every open file has a lower file of its own that is still open: no put ever
\* takes the lower file (file.c:141) from under another opener, not even
\* after a change of daemon.  It need not be the other way round: the lower files
\* of programs are never put (file.c:121).
LowerOpen ==
    lowerFiles >= Cardinality(HasFile)

\* Every open and every close that has entered the kernel returns (30 s limit of
\* the upcall, user_com.c:28), even though the mutex is held over the release
\* upcall and the daemon that must answer it may itself wait for the mutex.
CallsReturn ==
    \A t \in Threads : pc[t] \notin {"idle", "open"} ~> pc[t] \in {"idle", "open"}
-----------------------------------------------------------------------------
\* The inductive invariant behind the safety properties, in parts.

\* The mutex is held exactly by the thread in the release upcall.
HoldInv == \A t \in Threads : mutex = t <=> pc[t] \in {"release", "releasing"}

\* Only open files are counted, and what waits to be put under the mutex is.
CountedInv ==
    /\ counted \subseteq HasFile
    /\ mishaps = {} => \A t \in Threads : pc[t] = "putlock" => t \in counted

IInv == TypeOK /\ HoldInv /\ CountedInv /\ CountExact /\ AloneInRelease /\ LowerOpen
=============================================================================
