------------------------------- MODULE Upcall -------------------------------
(***************************************************************************)
(* The upcall path of the TEADFS kernel module: a thread that opens,       *)
(* releases, reads or writes a file asks the user-mode daemon and blocks   *)
(* until the answer comes or 30 seconds pass.                              *)
(*                                                                         *)
(*   user_com.c      teadfs_request_open/release/read/write,               *)
(*                   teadfs_request_send, teadfs_request_wait_answer       *)
(*   netlink.c       teadfs_netlink_receive, teadfs_send_to_user, HELLO    *)
(*   global_param.c  message ids, client pid, connect flag, message queue  *)
(*   miscdev.c       the device whose open and release set the flag        *)
(*   TEADFS-utils    what the daemon does on the other side of the socket  *)
(*                                                                         *)
(* teadfs_netlink_receive runs in the context of the sender: a daemon      *)
(* thread, or the requester itself when the destination port is 0, the     *)
(* kernel's own netlink address.  Several threads may be inside it; the    *)
(* queue mutex lets one of them past line 73, so one record, rcv, stands   *)
(* for whoever holds that mutex on the receive side.                       *)
(***************************************************************************)
EXTENDS Integers, FiniteSets

CONSTANTS
    Threads,   \* kernel threads that make upcalls
    Daemons,   \* pids of processes that run StartTEADFS
    App,       \* thread group of every thread that is not the daemon's
    Tgid,      \* Tgid[t]: task_tgid_vnr(current) of thread t
    Kinds,     \* the requests made, a subset of AllKinds
    IdSpace,   \* 2^64 in the code: the values of a __u64
    MaxId      \* bound: no upcall starts once unique_id has reached it

AllKinds == {"open", "release", "read", "write"}

ASSUME ThreadsAssumption == IsFiniteSet(Threads)
ASSUME TgidAssumption  == Tgid \in [Threads -> Daemons \cup {App}]
ASSUME PidAssumption   == 0 \notin Daemons /\ App \notin Daemons /\ App # 0
ASSUME KindsAssumption == Kinds \subseteq AllKinds
ASSUME IdAssumption    == IdSpace \in Nat /\ MaxId \in Nat \ {0} /\ MaxId < IdSpace

VARIABLES
    uniqueId,   \* global_param.unique_id
    clientPid,  \* global_param.pid
    connect,    \* global_param.connect
    queue,      \* threads whose ctx is linked in msg_ctx_queue
    state,      \* t's struct teadfs_msg_ctx: state[t], "free" when it has none,
    ctxId,      \*   msg_id,
    respSize,   \*   response_msg_size (1: at least a packet, 0: nothing),
    respMsg,    \*   response_msg
    pc,         \* pc[t]: where t is in its upcall
    kind,       \* kind[t]: which teadfs_request_* t runs
    msgId,      \* msgId[t]: header.msg_id of t's packet
    loaded,     \* loaded[t]: which of the two fields t has read from its ctx
    gotSize,    \* gotSize[t]: *response_size
    gotMsg,     \* gotMsg[t]: *response_data
    ret,        \* ret[t]: what the last upcall of t returned
    bufs,       \* live request and response buffers
    door,       \* packets whose sender waits for the queue mutex in receive
    at,         \* where the receive call that holds the queue mutex is
    pkt,        \*   the packet it handles,
    to,         \*   the thread whose ctx it found,
    stored,     \*   and the fields it has stored there
    status,     \* status[d]: how far daemon process d has come
    inbox,      \* inbox[d]: requests in d's socket, pool or handlers
    answered    \* history: every packet that was sent towards receive

vars == <<uniqueId, clientPid, connect, queue, state, ctxId, respSize, respMsg,
          pc, kind, msgId, loaded, gotSize, gotMsg, ret, bufs, door,
          at, pkt, to, stored, status, inbox, answered>>

globals    == <<uniqueId, clientPid, connect>>
ctx        == <<state, ctxId, respSize, respMsg>>
got        == <<loaded, gotSize, gotMsg>>
rcv        == <<at, pkt, to, stored>>
daemonVars == <<status, inbox, answered>>
-----------------------------------------------------------------------------
Ids == 1 .. (IdSpace - 1)

\* A packet that reaches teadfs_netlink_receive: the answer of a daemon, or
\* the request itself (by = 0) when it was sent to the kernel's own port.
Packets == [id : Ids, by : Daemons \cup {0}]
NoMsg   == [id |-> 0, by |-> 0]      \* response_msg == NULL
Fail    == [id |-> 0, by |-> App]    \* a negative return code

ReqBuf(id) == [what |-> "req", id |-> id]
RspBuf(id) == [what |-> "rsp", id |-> id]
Buffers    == [what : {"req", "rsp"}, id : Ids]

PCs == {"idle", "pid", "build", "enqueue", "send", "echo", "wait", "asleep",
        "expired", "load", "unlinked", "return", "size"}

Init ==
    /\ uniqueId = 1
    /\ clientPid = 0
    /\ connect = FALSE
    /\ queue = {}
    /\ state = [t \in Threads |-> "free"]
    /\ ctxId = [t \in Threads |-> 0]
    /\ respSize = [t \in Threads |-> 0]
    /\ respMsg = [t \in Threads |-> NoMsg]
    /\ pc = [t \in Threads |-> "idle"]
    /\ kind = [t \in Threads |-> "open"]
    /\ msgId = [t \in Threads |-> 0]
    /\ loaded = [t \in Threads |-> {}]
    /\ gotSize = [t \in Threads |-> 0]
    /\ gotMsg = [t \in Threads |-> NoMsg]
    /\ ret = [t \in Threads |-> NoMsg]
    /\ bufs = {}
    /\ door = {}
    /\ at = "idle"
    /\ pkt = NoMsg
    /\ to = App
    /\ stored = {}
    /\ status = [d \in Daemons |-> "off"]
    /\ inbox = [d \in Daemons |-> {}]
    /\ answered = {}
-----------------------------------------------------------------------------
\* Helpers

\* teadfs_get_next_msg_id: increment, skip 0 when the counter wraps.
NextMsgId(u) == LET v == (u + 1) % IdSpace IN IF v = 0 THEN 1 ELSE v

\* teadfs_get_msg_queue()->mux is free.
QueueFree == at = "idle"

\* ctx->mux of thread t is free.
CtxFree(t) == at = "idle" \/ to # t

Set(f, t, v) == [f EXCEPT ![t] = v]

Goto(t, l) == pc' = Set(pc, t, l)

\* The upcall of t ends early: a negative return code and no packet.
FailNow(t) ==
    /\ Goto(t, "idle")
    /\ ret' = Set(ret, t, Fail)

\* Threads of daemon d that are inside an upcall.
Busy(d) == {t \in Threads : Tgid[t] = d /\ pc[t] # "idle"}

\* A daemon's thread touches a teadfs file only inside a callback, that is
\* while it handles a request that no other thread handles.
MayCall(t) ==
    Tgid[t] \in Daemons => Cardinality(Busy(Tgid[t])) < Cardinality(inbox[Tgid[t]])
-----------------------------------------------------------------------------
\* The requester: teadfs_request_* and teadfs_request_send

\* if (!teadfs_get_client_connect()) fail
Begin(t, k) ==
    /\ pc[t] = "idle"
    /\ uniqueId < MaxId
    /\ MayCall(t)
    /\ kind' = Set(kind, t, k)
    /\ IF connect THEN Goto(t, "pid") /\ UNCHANGED ret ELSE FailNow(t)
    /\ UNCHANGED <<globals, queue, ctx, msgId, got, bufs, door, rcv, daemonVars>>

\* Mutant: the client process is not ignored.
CheckPidDropped(t) ==
    /\ pc[t] = "pid"
    /\ Goto(t, "build")
    /\ UNCHANGED <<globals, queue, ctx, kind, msgId, got, ret, bufs, door, rcv, daemonVars>>

\* ignore client process: if (kpid == teadfs_get_client_pid()) fail
CheckPid(t) ==
    /\ pc[t] = "pid"
    /\ IF Tgid[t] = clientPid THEN FailNow(t)
                              ELSE Goto(t, "build") /\ UNCHANGED ret
    /\ UNCHANGED <<globals, queue, ctx, kind, msgId, got, bufs, door, rcv, daemonVars>>

\* The packet buffer cannot be allocated.
BuildFails(t) ==
    /\ pc[t] = "build"
    /\ FailNow(t)
    /\ UNCHANGED <<globals, queue, ctx, kind, msgId, got, bufs, door, rcv, daemonVars>>

\* Allocate the packet, take an id, allocate and fill the ctx (or fail to).
Build(t) ==
    /\ pc[t] = "build"
    /\ uniqueId < MaxId
    /\ uniqueId' = NextMsgId(uniqueId)
    /\ msgId' = Set(msgId, t, uniqueId')
    /\ bufs' = bufs \cup {ReqBuf(uniqueId')}
    /\ \/ /\ Goto(t, "enqueue")
          /\ state' = Set(state, t, "pending")
          /\ ctxId' = Set(ctxId, t, uniqueId')
          /\ respSize' = Set(respSize, t, 0)
          /\ respMsg' = Set(respMsg, t, NoMsg)
       \/ Goto(t, "return") /\ UNCHANGED ctx
    /\ UNCHANGED <<clientPid, connect, queue, kind, got, ret, door, rcv, daemonVars>>

\* list_add_tail under the queue mutex
Enqueue(t) ==
    /\ pc[t] = "enqueue"
    /\ QueueFree
    /\ queue' = queue \cup {t}
    /\ Goto(t, "send")
    /\ UNCHANGED <<globals, ctx, kind, msgId, got, ret, bufs, door, rcv, daemonVars>>

\* teadfs_send_to_user: the packet reaches the socket bound to clientPid,
\* or is lost (no skb, no such socket, socket full: MSG_DONTWAIT), or,
\* with clientPid 0, comes straight back into teadfs_netlink_receive.
Send(t) ==
    /\ pc[t] = "send"
    /\ \/ /\ clientPid \in Daemons
          /\ status[clientPid] \in {"bound", "serving"}
          /\ inbox' = [inbox EXCEPT ![clientPid] = @ \cup {msgId[t]}]
          /\ Goto(t, "wait")
          /\ UNCHANGED <<door, answered>>
       \/ /\ clientPid = 0
          /\ door' = door \cup {[id |-> msgId[t], by |-> 0]}
          /\ answered' = answered \cup {[id |-> msgId[t], by |-> 0]}
          /\ Goto(t, "echo")
          /\ UNCHANGED inbox
       \/ Goto(t, "wait") /\ UNCHANGED <<door, inbox, answered>>
    /\ UNCHANGED <<globals, queue, ctx, kind, msgId, got, ret, bufs, rcv, status>>

\* The receive call that the requester made itself has returned.
EchoReturn(t) ==
    LET p == [id |-> msgId[t], by |-> 0]
    IN /\ pc[t] = "echo"
       /\ p \notin door /\ pkt # p
       /\ Goto(t, "wait")
       /\ UNCHANGED <<globals, queue, ctx, kind, msgId, got, ret, bufs, door, rcv, daemonVars>>

\* wait_event_timeout, first look at ctx->state, without the mutex
Wait(t) ==
    /\ pc[t] = "wait"
    /\ IF state[t] = "done"
       THEN Goto(t, "load") ELSE Goto(t, "asleep")
    /\ UNCHANGED <<globals, queue, ctx, kind, msgId, got, ret, bufs, door, rcv, daemonVars>>

\* Mutant: the wait has a time limit only while a client is connected.
TimerConnected(t) ==
    /\ pc[t] = "asleep"
    /\ connect
    /\ IF state[t] = "done"
       THEN Goto(t, "load") ELSE Goto(t, "expired")
    /\ UNCHANGED <<globals, queue, ctx, kind, msgId, got, ret, bufs, door, rcv, daemonVars>>

\* The 30 seconds are over; the last look at ctx->state decides.
Timer(t) ==
    /\ pc[t] = "asleep"
    /\ IF state[t] = "done"
       THEN Goto(t, "load") ELSE Goto(t, "expired")
    /\ UNCHANGED <<globals, queue, ctx, kind, msgId, got, ret, bufs, door, rcv, daemonVars>>

\* After a timeout: mark the ctx done and drop whatever it holds.
Settle(t) ==
    /\ pc[t] = "expired"
    /\ CtxFree(t)
    /\ state' = Set(state, t, "done")
    /\ respSize' = Set(respSize, t, 0)
    /\ respMsg' = Set(respMsg, t, NoMsg)
    /\ Goto(t, "load")
    /\ UNCHANGED <<globals, queue, ctxId, kind, msgId, got, ret, bufs, door, rcv, daemonVars>>

\* *response_size = ctx->response_msg_size, without a lock
LoadSize(t) ==
    /\ pc[t] = "load"
    /\ "size" \notin loaded[t]
    /\ loaded' = Set(loaded, t, loaded[t] \cup {"size"})
    /\ gotSize' = Set(gotSize, t, respSize[t])
    /\ UNCHANGED <<globals, queue, ctx, pc, kind, msgId, gotMsg, ret, bufs, door, rcv, daemonVars>>

\* *response_data = ctx->response_msg, without a lock
LoadMsg(t) ==
    /\ pc[t] = "load"
    /\ "msg" \notin loaded[t]
    /\ loaded' = Set(loaded, t, loaded[t] \cup {"msg"})
    /\ gotMsg' = Set(gotMsg, t, respMsg[t])
    /\ UNCHANGED <<globals, queue, ctx, pc, kind, msgId, gotSize, ret, bufs, door, rcv, daemonVars>>

\* Mutant: list_del without the queue mutex.
UnlinkUnlocked(t) ==
    /\ pc[t] = "load"
    /\ loaded[t] = {"size", "msg"}
    /\ queue' = queue \ {t}
    /\ Goto(t, "unlinked")
    /\ UNCHANGED <<globals, ctx, kind, msgId, got, ret, bufs, door, rcv, daemonVars>>

\* list_del under the queue mutex
Unlink(t) ==
    /\ pc[t] = "load"
    /\ loaded[t] = {"size", "msg"}
    /\ QueueFree
    /\ queue' = queue \ {t}
    /\ Goto(t, "unlinked")
    /\ UNCHANGED <<globals, ctx, kind, msgId, got, ret, bufs, door, rcv, daemonVars>>

\* teadfs_free(ctx)
Free(t) ==
    /\ pc[t] = "unlinked"
    /\ state' = Set(state, t, "free")
    /\ ctxId' = Set(ctxId, t, 0)
    /\ respSize' = Set(respSize, t, 0)
    /\ respMsg' = Set(respMsg, t, NoMsg)
    /\ Goto(t, "return")
    /\ UNCHANGED <<globals, queue, kind, msgId, got, ret, bufs, door, rcv, daemonVars>>

\* Mutant: only the size is checked, not the pointer.
HasAnswerSized(t) == gotSize[t] = 1

\* NULL == response_data || response_size < sizeof(struct teadfs_packet_info)
HasAnswer(t) == gotMsg[t] # NoMsg /\ gotSize[t] = 1

\* Mutant: the request is freed only once there is an answer to look at.
ReleasedAnswered(t, accepted) ==
    (IF kind[t] \in {"open", "release"} /\ accepted THEN {ReqBuf(msgId[t])} ELSE {})
    \cup (IF gotMsg[t] # NoMsg /\ (kind[t] = "write" => accepted)
          THEN {RspBuf(gotMsg[t].id)} ELSE {})

\* What teadfs_request_* frees: open and release free both buffers, read
\* frees only the response, write frees the response only on success.
Released(t, accepted) ==
    (IF kind[t] \in {"open", "release"} THEN {ReqBuf(msgId[t])} ELSE {})
    \cup (IF gotMsg[t] # NoMsg /\ (kind[t] = "write" => accepted)
          THEN {RspBuf(gotMsg[t].id)} ELSE {})

\* The upcall of t returns r; the locals msgId and got go out of scope.
Leave(t, r) ==
    /\ Goto(t, "idle")
    /\ ret' = Set(ret, t, r)
    /\ msgId' = Set(msgId, t, 0)
    /\ loaded' = Set(loaded, t, {})
    /\ gotSize' = Set(gotSize, t, 0)
    /\ gotMsg' = Set(gotMsg, t, NoMsg)

\* Check the response, take the result from it, release memory, return.
\* A read or a write also rejects a response with an error code or with a
\* payload of the wrong size.  A write whose response is accepted has still
\* to read its size.
Return(t) ==
    /\ pc[t] = "return"
    /\ \E accepted \in BOOLEAN :
         /\ accepted => HasAnswer(t)
         /\ HasAnswer(t) /\ kind[t] \in {"open", "release"} => accepted
         /\ bufs' = bufs \ Released(t, accepted)
         /\ \/ /\ kind[t] = "write" /\ accepted
               /\ Goto(t, "size")
               /\ UNCHANGED <<msgId, got, ret>>
            \/ /\ kind[t] # "write" \/ ~accepted
               /\ Leave(t, IF accepted THEN gotMsg[t] ELSE Fail)
    /\ UNCHANGED <<globals, queue, ctx, kind, door, rcv, daemonVars>>

\* rc = packet->data.write.write_data.size, in the response that has just been
\* freed: whatever the memory holds by now, a negative number included.
WriteSize(t) ==
    /\ pc[t] = "size"
    /\ \E r \in {gotMsg[t], Fail} : Leave(t, r)
    /\ UNCHANGED <<globals, queue, ctx, kind, bufs, door, rcv, daemonVars>>
-----------------------------------------------------------------------------
\* teadfs_netlink_receive, initiator 0

\* Mutant: the answer goes to whichever request is found, not to its own.
LockUnmatched(p) ==
    /\ QueueFree
    /\ p \in door
    /\ door' = door \ {p}
    /\ \/ queue = {} /\ UNCHANGED rcv
       \/ \E t \in queue : at' = "found" /\ pkt' = p /\ to' = t /\ stored' = {}
    /\ UNCHANGED <<globals, queue, ctx, pc, kind, msgId, got, ret, bufs, daemonVars>>

\* Take the queue mutex and look the id up; take the mutex of the ctx found.
\* An id that nobody waits for is dropped.
Lock(p) ==
    /\ QueueFree
    /\ p \in door
    /\ door' = door \ {p}
    /\ \/ /\ \A t \in queue : ctxId[t] # p.id
          /\ UNCHANGED rcv
       \/ \E t \in queue :
            /\ ctxId[t] = p.id
            /\ at' = "found" /\ pkt' = p /\ to' = t /\ stored' = {}
    /\ UNCHANGED <<globals, queue, ctx, pc, kind, msgId, got, ret, bufs, daemonVars>>

\* msg_ctx->state = DONE, before there is a response
MarkDone ==
    /\ at = "found"
    /\ state' = Set(state, to, "done")
    /\ at' = "marked"
    /\ UNCHANGED <<globals, queue, ctxId, respSize, respMsg, pc, kind, msgId, got, ret,
                   bufs, door, pkt, to, stored, daemonVars>>

\* teadfs_zalloc of the response: succeeds, or fails and stores NULL
Alloc ==
    /\ at = "marked"
    /\ at' = "store"
    /\ \/ /\ bufs' = bufs \cup {RspBuf(pkt.id)}
          /\ UNCHANGED <<stored, respMsg>>
       \/ /\ stored' = {"size", "msg"}
          /\ respMsg' = Set(respMsg, to, NoMsg)
          /\ UNCHANGED bufs
    /\ UNCHANGED <<globals, queue, state, ctxId, respSize, pc, kind, msgId, got, ret,
                   door, pkt, to, daemonVars>>

\* response_msg and response_msg_size: two plain stores that race with the
\* two loads of the requester; the compiler may emit them in either order.
StoreSize ==
    /\ at = "store"
    /\ "size" \notin stored
    /\ stored' = stored \cup {"size"}
    /\ respSize' = Set(respSize, to, 1)
    /\ UNCHANGED <<globals, queue, state, ctxId, respMsg, pc, kind, msgId, got, ret,
                   bufs, door, at, pkt, to, daemonVars>>

StoreMsg ==
    /\ at = "store"
    /\ "msg" \notin stored
    /\ stored' = stored \cup {"msg"}
    /\ respMsg' = Set(respMsg, to, pkt)
    /\ UNCHANGED <<globals, queue, state, ctxId, respSize, pc, kind, msgId, got, ret,
                   bufs, door, at, pkt, to, daemonVars>>

\* wake_up, release both mutexes
Wake ==
    /\ at = "store"
    /\ stored = {"size", "msg"}
    /\ at' = "idle" /\ pkt' = NoMsg /\ to' = App /\ stored' = {}
    /\ IF pc[to] = "asleep"
       THEN Goto(to, "load")
       ELSE UNCHANGED pc
    /\ UNCHANGED <<globals, queue, ctx, kind, msgId, got, ret, bufs,
                   door, daemonVars>>
-----------------------------------------------------------------------------
\* The daemon process: StartTEADFS, its handlers, its end

\* open("/dev/teadfs"): -EBUSY while some process has it open
\* (teadfs_miscdev_open; the misc core serialises opens).
OpenDevice(d) ==
    /\ status[d] = "off"
    /\ ~connect
    /\ connect' = TRUE
    /\ status' = Set(status, d, "opened")
    /\ UNCHANGED <<uniqueId, clientPid, queue, ctx, pc, kind, msgId, got, ret, bufs, door, rcv, inbox, answered>>

\* StartNetlink: a socket with getpid() as its port
Bind(d) ==
    /\ status[d] = "opened"
    /\ status' = Set(status, d, "bound")
    /\ UNCHANGED <<globals, queue, ctx, pc, kind, msgId, got, ret, bufs, door, rcv, inbox, answered>>

\* Mutant: HELLO registers a pid that is not the daemon's.
HelloForeignPid(d) ==
    /\ status[d] = "bound"
    /\ clientPid' = App
    /\ status' = Set(status, d, "serving")
    /\ UNCHANGED <<uniqueId, connect, queue, ctx, pc, kind, msgId, got, ret, bufs, door, rcv, inbox, answered>>

\* SendHello, handled by teadfs_user_request_kernel in the same call
Hello(d) ==
    /\ status[d] = "bound"
    /\ clientPid' = d
    /\ status' = Set(status, d, "serving")
    /\ UNCHANGED <<uniqueId, connect, queue, ctx, pc, kind, msgId, got, ret, bufs, door, rcv, inbox, answered>>

\* Some request other than id is left for each callback that is still busy.
Spare(d, id) == Cardinality(Busy(d)) <= Cardinality(inbox[d] \ {id})

\* deal_teadfs_msg: the pool's threads answer in any order.
Answer(d, id) ==
    /\ id \in inbox[d]
    /\ Spare(d, id)
    /\ inbox' = [inbox EXCEPT ![d] = @ \ {id}]
    /\ door' = door \cup {[id |-> id, by |-> d]}
    /\ answered' = answered \cup {[id |-> id, by |-> d]}
    /\ UNCHANGED <<globals, queue, ctx, pc, kind, msgId, got, ret, bufs, rcv, status>>

\* The handler throws, or SendMsg finds no memory: nothing is sent.
NoAnswer(d, id) ==
    /\ id \in inbox[d]
    /\ Spare(d, id)
    /\ inbox' = [inbox EXCEPT ![d] = @ \ {id}]
    /\ UNCHANGED <<globals, queue, ctx, pc, kind, msgId, got, ret, bufs, door, rcv, status, answered>>

\* The process ends: its threads have left the kernel, then its socket and
\* the device are closed (teadfs_miscdev_release).  clientPid keeps its value.
Exit(d) ==
    /\ status[d] # "off"
    /\ Busy(d) = {}
    /\ \A p \in door \cup {pkt} : p.by # d
    /\ connect' = FALSE
    /\ status' = Set(status, d, "off")
    /\ inbox' = Set(inbox, d, {})
    /\ UNCHANGED <<uniqueId, clientPid, queue, ctx, pc, kind, msgId, got, ret, bufs, door, rcv, answered>>
-----------------------------------------------------------------------------
Request(t) ==
    \/ CheckPid(t) \/ BuildFails(t) \/ Build(t) \/ Enqueue(t) \/ Send(t)
    \/ EchoReturn(t) \/ Wait(t) \/ Timer(t) \/ Settle(t) \/ LoadSize(t)
    \/ LoadMsg(t) \/ Unlink(t) \/ Free(t) \/ Return(t) \/ WriteSize(t)

Receive == MarkDone \/ Alloc \/ StoreSize \/ StoreMsg \/ Wake

LockAny == \E p \in door : Lock(p)

Daemon(d) ==
    \/ OpenDevice(d) \/ Bind(d) \/ Hello(d) \/ Exit(d)
    \/ \E id \in inbox[d] : Answer(d, id) \/ NoAnswer(d, id)

Next ==
    \/ \E t \in Threads : Request(t) \/ \E k \in Kinds : Begin(t, k)
    \/ Receive \/ LockAny
    \/ \E d \in Daemons : Daemon(d)

Spec == Init /\ [][Next]_vars

\* A thread in the kernel keeps running, a timer fires, a free mutex is taken
\* by someone who waits for it.  Nothing is assumed of the daemon.
Fairness ==
    /\ \A t \in Threads : WF_vars(Request(t))
    /\ WF_vars(Receive)
    /\ WF_vars(LockAny)

FairSpec == Spec /\ Fairness
-----------------------------------------------------------------------------
\* Type correctness: ids stay in 1 .. IdSpace - 1, the client pid is that of
\* a daemon or 0, every ctx, local copy and packet is well formed.
TypeOK ==
    /\ uniqueId \in Ids
    /\ clientPid \in Daemons \cup {0}
    /\ connect \in BOOLEAN
    /\ queue \subseteq Threads
    /\ state \in [Threads -> {"free", "pending", "done"}]
    /\ ctxId \in [Threads -> Ids \cup {0}]
    /\ respSize \in [Threads -> {0, 1}]
    /\ respMsg \in [Threads -> Packets \cup {NoMsg}]
    /\ pc \in [Threads -> PCs]
    /\ kind \in [Threads -> Kinds \cup {"open"}]
    /\ msgId \in [Threads -> Ids \cup {0}]
    /\ loaded \in [Threads -> SUBSET {"size", "msg"}]
    /\ gotSize \in [Threads -> {0, 1}]
    /\ gotMsg \in [Threads -> Packets \cup {NoMsg}]
    /\ ret \in [Threads -> Packets \cup {NoMsg, Fail}]
    /\ bufs \subseteq Buffers
    /\ door \subseteq Packets
    /\ at \in {"idle", "found", "marked", "store"}
    /\ pkt \in Packets \cup {NoMsg}
    /\ at # "idle" => pkt # NoMsg /\ to \in Threads
    /\ stored \subseteq {"size", "msg"}
    /\ status \in [Daemons -> {"off", "opened", "bound", "serving"}]
    /\ inbox \in [Daemons -> SUBSET Ids]
    /\ answered \subseteq Packets

\* The receiver never works on a ctx that its requester has unlinked or freed,
\* and a response a requester has picked up is in live memory until the request,
\* of whatever kind, has checked it and copied from it: the queue mutex around
\* list_del is the only thing that keeps them apart (user_com.c:79-83 against
\* netlink.c:73-93).  It says nothing of position "size", where a write reads the
\* response it has freed (user_com.c:478-480), a known defect.
NoUseAfterFree ==
    /\ at # "idle" => to \in queue /\ state[to] # "free"
    /\ \A t \in Threads : pc[t] \in {"load", "unlinked", "return"} /\ gotMsg[t] # NoMsg
                            => RspBuf(gotMsg[t].id) \in bufs

\* No requester ever gets the answer to another request, however late the
\* answers come and in whatever order the daemon's threads send them: not
\* while it copies the response, and not as the result of the upcall.
OwnAnswer ==
    \A t \in Threads :
      /\ gotMsg[t] # NoMsg => gotMsg[t].id = msgId[t]
      /\ pc[t] \in {"load", "unlinked"} /\ respMsg[t] # NoMsg => respMsg[t].id = msgId[t]

\* The search by id in teadfs_netlink_receive (netlink.c:74-78) can only find the
\* right request: contexts that exist at the same time have different ids, and
\* nothing that is still under way, a late answer to an earlier request or a
\* request still with the daemon, carries the id of a request yet to be sent.
\* (Ids are taken below the bound MaxId: the wrap of the counter is out of scope.)
DistinctIds ==
    \A t \in Threads : state[t] # "free" =>
      /\ \A u \in Threads \ {t} : state[u] # "free" => ctxId[u] # ctxId[t]
      /\ pc[t] \in {"enqueue", "send"} =>
           /\ \A a \in door : a.id # ctxId[t]
           /\ \A d \in Daemons : ctxId[t] \notin inbox[d]

\* One process at most has the device open, and the connect flag says so;
\* a request only ever sits with the process registered as the client.
DeviceExclusive ==
    /\ \A d, e \in Daemons : status[d] # "off" /\ status[e] # "off" => d = e
    /\ connect <=> \E d \in Daemons : status[d] # "off"
    /\ \A d \in Daemons : inbox[d] # {} => clientPid = d

\* A thread of the daemon never waits for an answer that only the daemon can
\* give (user_com.c:121 "ignore client proces").
DaemonNeverWaits ==
    \A t \in Threads : Tgid[t] \in Daemons => pc[t] \in {"idle", "pid"}

\* Once an open or a release upcall has returned, on whatever path (not sent,
\* answered, timed out, half an answer), the buffer of its request is free again.
\* Reads and writes never free theirs (user_com.c:391, :475).
RequestsFreed ==
    Kinds \subseteq {"open", "release"} =>
        \A b \in bufs : b.what = "req" => \E t \in Threads : msgId[t] = b.id

\* Every upcall returns, whatever the daemon does: answers late, dies, never
\* says HELLO, or answers twice as slowly as the 30 second limit.
UpcallReturns == \A t \in Threads : pc[t] # "idle" ~> pc[t] = "idle"
-----------------------------------------------------------------------------
\* The inductive invariant behind the safety properties, in parts.

Early  == {"idle", "pid", "build"}                            \* no id yet
Linked == {"send", "echo", "wait", "asleep", "expired", "load"}  \* in the queue

\* Ids: a thread has one exactly between taking it and returning, and no two
\* threads have the same.
IdInv ==
    /\ uniqueId \in 1 .. MaxId
    /\ \A t \in Threads : IF pc[t] \in Early THEN msgId[t] = 0 ELSE msgId[t] \in 2 .. uniqueId
    /\ \A t, u \in Threads : t # u /\ msgId[t] = msgId[u] => msgId[t] = 0

\* Contexts: allocated, linked and labelled as the requester's position says;
\* whoever holds the queue mutex for an answer works on a linked one.
LinkInv ==
    /\ \A t \in Threads : /\ t \in queue <=> pc[t] \in Linked
                          /\ state[t] = "free" <=> pc[t] \in Early \cup {"return", "size"}
                          /\ state[t] # "free" => ctxId[t] = msgId[t]
    /\ at # "idle" => to \in queue /\ ctxId[to] = pkt.id

\* Responses: the one in a ctx, and the one picked up from it, answer that
\* request and are in live memory, but for the one a write has freed and reads.
MsgInv ==
    /\ \A t \in Threads :
         /\ respMsg[t] # NoMsg => /\ state[t] # "free"
                                  /\ respMsg[t].id = msgId[t]
                                  /\ RspBuf(msgId[t]) \in bufs
         /\ gotMsg[t] # NoMsg => /\ pc[t] \in {"load", "unlinked", "return", "size"}
                                 /\ gotMsg[t].id = msgId[t]
                                 /\ pc[t] # "size" => RspBuf(msgId[t]) \in bufs
         /\ pc[t] = "size" => gotMsg[t] # NoMsg /\ kind[t] = "write"
    /\ at = "store" /\ "msg" \notin stored => RspBuf(pkt.id) \in bufs

\* The daemon: its thread is inside an upcall only while the kernel knows the
\* process as its client.
DaemonInv ==
    /\ DeviceExclusive
    /\ \A d \in Daemons : inbox[d] # {} => status[d] \in {"bound", "serving"}
    /\ \A t \in Threads : Tgid[t] \in Daemons =>
         \/ pc[t] = "idle"
         \/ pc[t] = "pid" /\ clientPid = Tgid[t] /\ status[clientPid] \in {"bound", "serving"}

\* Answers: every packet under way was really sent, and no id is answered
\* while its request is still to be sent or still with the daemon.
AnswerInv ==
    /\ \A a \in answered : a.id \in 2 .. uniqueId
    /\ door \subseteq answered
    /\ at # "idle" => pkt \in answered
    /\ \A t \in Threads : /\ respMsg[t] # NoMsg => respMsg[t] \in answered
                          /\ gotMsg[t] # NoMsg => gotMsg[t] \in answered
                          /\ pc[t] \in {"enqueue", "send"} =>
                               /\ \A a \in answered : a.id # msgId[t]
                               /\ \A d \in Daemons : msgId[t] \notin inbox[d]
    /\ \A d \in Daemons : \A id \in inbox[d] :
         id \in 2 .. uniqueId /\ \A a \in answered : a.id # id

\* The inductive invariant; it implies every safety property above.
IInv == TypeOK /\ IdInv /\ LinkInv /\ MsgInv /\ DaemonInv /\ AnswerInv
-----------------------------------------------------------------------------
\* A request is outstanding from the moment it has an id until it returns.
Outstanding == [t \in Threads |-> IF pc[t] \in Early THEN 0 ELSE msgId[t]]

\* The abstract upcall under the refinement mapping.
Abs == INSTANCE UpcallAbs WITH last <- uniqueId, want <- Outstanding, out <- ret

\* Upcall implements the abstract upcall: whatever the locks, the timers and
\* the daemon do, a call of teadfs_request_* returns a failure or the one
\* answer that was given to its own id.
AbsSpec == Abs!Spec
=============================================================================
