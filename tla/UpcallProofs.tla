---------------------------- MODULE UpcallProofs ----------------------------
(***************************************************************************)
(* Proofs about Upcall for any number of threads, daemons and ids: the     *)
(* inductive invariant IInv and the safety properties that follow from it. *)
(***************************************************************************)
EXTENDS Upcall, FiniteSetTheorems, TLAPS

\* teadfs_get_next_msg_id below the bound: the next id is one more than the
\* last, so it is new and is not 0.
LEMMA NextMsgIdFresh ==
    ASSUME NEW u \in Nat, u < MaxId
    PROVE  NextMsgId(u) = u + 1 /\ u + 1 \in Ids
<1>1. u + 1 \in Nat /\ u + 1 < IdSpace /\ IdSpace \in Nat \ {0}
  BY IdAssumption
<1>2. \A a \in Nat, b \in Nat \ {0} : a < b => a % b = a
  OBVIOUS
<1>3. (u + 1) % IdSpace = u + 1
  BY <1>1, <1>2
<1> QED
  BY <1>1, <1>3 DEF NextMsgId, Ids

\* A packet is never the NULL response.
LEMMA PacketFacts == \A p \in Packets : p # NoMsg /\ p.id \in Ids
  BY DEF Packets, NoMsg, Ids

\* Every step keeps the types.
LEMMA TypeStep == TypeOK /\ IdInv /\ [Next]_vars => TypeOK'
<1> SUFFICES ASSUME TypeOK, IdInv, [Next]_vars
             PROVE  TypeOK'
  OBVIOUS
<1> USE DEF TypeOK, globals, ctx, got, rcv, daemonVars, Goto, FailNow, Leave, Set
<1>1. ASSUME NEW t \in Threads, NEW k \in Kinds, Begin(t, k)
      PROVE  TypeOK'
  BY <1>1, KindsAssumption DEF Begin, PCs, Fail
<1>2. ASSUME NEW t \in Threads, CheckPid(t)
      PROVE  TypeOK'
  BY <1>2 DEF CheckPid, PCs, Fail
<1>3. ASSUME NEW t \in Threads, BuildFails(t)
      PROVE  TypeOK'
  BY <1>3 DEF BuildFails, PCs, Fail
<1>4. ASSUME NEW t \in Threads, Build(t)
      PROVE  TypeOK'
  <2>1. uniqueId' = uniqueId + 1 /\ uniqueId' \in Ids
    BY <1>4, NextMsgIdFresh DEF Build, IdInv
  <2> QED
    BY <1>4, <2>1 DEF Build, PCs, ReqBuf, Buffers
<1>5. ASSUME NEW t \in Threads, Enqueue(t)
      PROVE  TypeOK'
  BY <1>5 DEF Enqueue, PCs
<1>6. ASSUME NEW t \in Threads, Send(t)
      PROVE  TypeOK'
  <2>1. msgId[t] \in Ids
    BY <1>6, IdAssumption DEF Send, IdInv, Early, Ids
  <2>2. [id |-> msgId[t], by |-> 0] \in Packets
    BY <2>1 DEF Packets
  <2> QED
    BY <1>6, <2>1, <2>2 DEF Send, PCs
<1>7. ASSUME NEW t \in Threads, EchoReturn(t)
      PROVE  TypeOK'
  BY <1>7 DEF EchoReturn, PCs
<1>8. ASSUME NEW t \in Threads, Wait(t)
      PROVE  TypeOK'
  BY <1>8 DEF Wait, PCs
<1>9. ASSUME NEW t \in Threads, Timer(t)
      PROVE  TypeOK'
  BY <1>9 DEF Timer, PCs
<1>10. ASSUME NEW t \in Threads, Settle(t)
      PROVE  TypeOK'
  BY <1>10 DEF Settle, PCs
<1>11. ASSUME NEW t \in Threads, LoadSize(t)
      PROVE  TypeOK'
  BY <1>11 DEF LoadSize, PCs
<1>12. ASSUME NEW t \in Threads, LoadMsg(t)
      PROVE  TypeOK'
  BY <1>12 DEF LoadMsg, PCs
<1>13. ASSUME NEW t \in Threads, Unlink(t)
      PROVE  TypeOK'
  BY <1>13 DEF Unlink, PCs
<1>14. ASSUME NEW t \in Threads, Free(t)
      PROVE  TypeOK'
  BY <1>14 DEF Free, PCs
<1>15. ASSUME NEW t \in Threads, Return(t)
      PROVE  TypeOK'
  BY <1>15 DEF Return, PCs, Fail
<1>16. ASSUME NEW p \in door, Lock(p)
      PROVE  TypeOK'
  BY <1>16, PacketFacts DEF Lock
<1>17. ASSUME MarkDone
      PROVE  TypeOK'
  BY <1>17 DEF MarkDone, PCs
<1>18. ASSUME Alloc
      PROVE  TypeOK'
  <2>1. pkt.id \in Ids
    BY <1>18, PacketFacts DEF Alloc
  <2>2. RspBuf(pkt.id) \in Buffers
    BY <2>1 DEF RspBuf, Buffers
  <2> QED
    BY <1>18, <2>2 DEF Alloc
<1>19. ASSUME StoreSize
      PROVE  TypeOK'
  BY <1>19 DEF StoreSize, PCs
<1>20. ASSUME StoreMsg
      PROVE  TypeOK'
  BY <1>20 DEF StoreMsg, PCs
<1>21. ASSUME Wake
      PROVE  TypeOK'
  BY <1>21 DEF Wake, PCs
<1>22. ASSUME NEW d \in Daemons, OpenDevice(d)
      PROVE  TypeOK'
  BY <1>22 DEF OpenDevice, PCs
<1>23. ASSUME NEW d \in Daemons, Bind(d)
      PROVE  TypeOK'
  BY <1>23 DEF Bind, PCs
<1>24. ASSUME NEW d \in Daemons, Hello(d)
      PROVE  TypeOK'
  BY <1>24 DEF Hello, PCs
<1>25. ASSUME NEW d \in Daemons, Exit(d)
      PROVE  TypeOK'
  BY <1>25 DEF Exit, PCs
<1>26. ASSUME NEW d \in Daemons, NEW id \in inbox[d], Answer(d, id)
      PROVE  TypeOK'
  BY <1>26 DEF Answer, Packets
<1>27. ASSUME NEW d \in Daemons, NEW id \in inbox[d], NoAnswer(d, id)
      PROVE  TypeOK'
  BY <1>27 DEF NoAnswer, PCs
<1>29. ASSUME NEW t \in Threads, WriteSize(t)
      PROVE  TypeOK'
  BY <1>29 DEF WriteSize, PCs, Fail
<1>28. CASE UNCHANGED vars
  BY <1>28 DEF vars, PCs
<1> QED
  BY <1>1, <1>2, <1>3, <1>4, <1>5, <1>6, <1>7, <1>8, <1>9, <1>10,
     <1>11, <1>12, <1>13, <1>14, <1>15, <1>16, <1>17, <1>18, <1>19, <1>20,
     <1>21, <1>22, <1>23, <1>24, <1>25, <1>26, <1>27, <1>28, <1>29
  DEF Next, Request, Receive, LockAny, Daemon

\* Ids stay distinct and are taken from the counter.
LEMMA IdStep == TypeOK /\ IdInv /\ [Next]_vars => IdInv'
<1> SUFFICES ASSUME TypeOK, IdInv, [Next]_vars
             PROVE  IdInv'
  OBVIOUS
<1> USE DEF IdInv, Early, globals, ctx, got, rcv, daemonVars, Goto, FailNow, Leave, Set
<1>1. ASSUME NEW t \in Threads, NEW k \in Kinds, Begin(t, k)
      PROVE  IdInv'
  BY <1>1 DEF Begin, TypeOK
<1>2. ASSUME NEW t \in Threads, CheckPid(t)
      PROVE  IdInv'
  BY <1>2 DEF CheckPid, TypeOK
<1>3. ASSUME NEW t \in Threads, BuildFails(t)
      PROVE  IdInv'
  BY <1>3 DEF BuildFails, TypeOK
<1>4. ASSUME NEW t \in Threads, Build(t)
      PROVE  IdInv'
  <2>1. uniqueId' = uniqueId + 1 /\ uniqueId' \in 1 .. MaxId
    BY <1>4, NextMsgIdFresh, IdAssumption DEF Build
  <2> QED
    BY <1>4, <2>1 DEF Build, TypeOK
<1>5. ASSUME NEW t \in Threads, Enqueue(t)
      PROVE  IdInv'
  BY <1>5 DEF Enqueue, TypeOK
<1>6. ASSUME NEW t \in Threads, Send(t)
      PROVE  IdInv'
  BY <1>6 DEF Send, TypeOK
<1>7. ASSUME NEW t \in Threads, EchoReturn(t)
      PROVE  IdInv'
  BY <1>7 DEF EchoReturn, TypeOK
<1>8. ASSUME NEW t \in Threads, Wait(t)
      PROVE  IdInv'
  BY <1>8 DEF Wait, TypeOK
<1>9. ASSUME NEW t \in Threads, Timer(t)
      PROVE  IdInv'
  BY <1>9 DEF Timer, TypeOK
<1>10. ASSUME NEW t \in Threads, Settle(t)
      PROVE  IdInv'
  BY <1>10 DEF Settle, TypeOK
<1>11. ASSUME NEW t \in Threads, LoadSize(t)
      PROVE  IdInv'
  BY <1>11 DEF LoadSize, TypeOK
<1>12. ASSUME NEW t \in Threads, LoadMsg(t)
      PROVE  IdInv'
  BY <1>12 DEF LoadMsg, TypeOK
<1>13. ASSUME NEW t \in Threads, Unlink(t)
      PROVE  IdInv'
  BY <1>13 DEF Unlink, TypeOK
<1>14. ASSUME NEW t \in Threads, Free(t)
      PROVE  IdInv'
  BY <1>14 DEF Free, TypeOK
<1>15. ASSUME NEW t \in Threads, Return(t)
      PROVE  IdInv'
  BY <1>15 DEF Return, TypeOK
<1>16. ASSUME NEW p \in door, Lock(p)
      PROVE  IdInv'
  BY <1>16 DEF Lock, TypeOK
<1>17. ASSUME MarkDone
      PROVE  IdInv'
  BY <1>17 DEF MarkDone, TypeOK
<1>18. ASSUME Alloc
      PROVE  IdInv'
  BY <1>18 DEF Alloc, TypeOK
<1>19. ASSUME StoreSize
      PROVE  IdInv'
  BY <1>19 DEF StoreSize, TypeOK
<1>20. ASSUME StoreMsg
      PROVE  IdInv'
  BY <1>20 DEF StoreMsg, TypeOK
<1>21. ASSUME Wake
      PROVE  IdInv'
  BY <1>21 DEF Wake, TypeOK
<1>22. ASSUME NEW d \in Daemons, OpenDevice(d)
      PROVE  IdInv'
  BY <1>22 DEF OpenDevice, TypeOK
<1>23. ASSUME NEW d \in Daemons, Bind(d)
      PROVE  IdInv'
  BY <1>23 DEF Bind, TypeOK
<1>24. ASSUME NEW d \in Daemons, Hello(d)
      PROVE  IdInv'
  BY <1>24 DEF Hello, TypeOK
<1>25. ASSUME NEW d \in Daemons, Exit(d)
      PROVE  IdInv'
  BY <1>25 DEF Exit, TypeOK
<1>26. ASSUME NEW d \in Daemons, NEW id \in inbox[d], Answer(d, id)
      PROVE  IdInv'
  BY <1>26 DEF Answer, TypeOK
<1>27. ASSUME NEW d \in Daemons, NEW id \in inbox[d], NoAnswer(d, id)
      PROVE  IdInv'
  BY <1>27 DEF NoAnswer, TypeOK
<1>29. ASSUME NEW t \in Threads, WriteSize(t)
      PROVE  IdInv'
  BY <1>29 DEF WriteSize, TypeOK
<1>28. CASE UNCHANGED vars
  BY <1>28 DEF vars, TypeOK
<1> QED
  BY <1>1, <1>2, <1>3, <1>4, <1>5, <1>6, <1>7, <1>8, <1>9, <1>10,
     <1>11, <1>12, <1>13, <1>14, <1>15, <1>16, <1>17, <1>18, <1>19, <1>20,
     <1>21, <1>22, <1>23, <1>24, <1>25, <1>26, <1>27, <1>28, <1>29
  DEF Next, Request, Receive, LockAny, Daemon

\* Contexts stay as the requester's position says.
LEMMA LinkStep == TypeOK /\ IdInv /\ LinkInv /\ [Next]_vars => LinkInv'
<1> SUFFICES ASSUME TypeOK, IdInv, LinkInv, [Next]_vars
             PROVE  LinkInv'
  OBVIOUS
<1> USE DEF LinkInv, Linked, Early, globals, ctx, got, rcv, daemonVars, Goto, FailNow, Leave, Set
<1>1. ASSUME NEW t \in Threads, NEW k \in Kinds, Begin(t, k)
      PROVE  LinkInv'
  BY <1>1 DEF Begin, TypeOK, PCs, QueueFree
<1>2. ASSUME NEW t \in Threads, CheckPid(t)
      PROVE  LinkInv'
  BY <1>2 DEF CheckPid, TypeOK, PCs, QueueFree
<1>3. ASSUME NEW t \in Threads, BuildFails(t)
      PROVE  LinkInv'
  BY <1>3 DEF BuildFails, TypeOK, PCs, QueueFree
<1>4. ASSUME NEW t \in Threads, Build(t)
      PROVE  LinkInv'
  BY <1>4 DEF Build, TypeOK, PCs, QueueFree
<1>5. ASSUME NEW t \in Threads, Enqueue(t)
      PROVE  LinkInv'
  BY <1>5 DEF Enqueue, TypeOK, PCs, QueueFree
<1>6. ASSUME NEW t \in Threads, Send(t)
      PROVE  LinkInv'
  BY <1>6 DEF Send, TypeOK, PCs, QueueFree
<1>7. ASSUME NEW t \in Threads, EchoReturn(t)
      PROVE  LinkInv'
  BY <1>7 DEF EchoReturn, TypeOK, PCs, QueueFree
<1>8. ASSUME NEW t \in Threads, Wait(t)
      PROVE  LinkInv'
  BY <1>8 DEF Wait, TypeOK, PCs, QueueFree
<1>9. ASSUME NEW t \in Threads, Timer(t)
      PROVE  LinkInv'
  BY <1>9 DEF Timer, TypeOK, PCs, QueueFree
<1>10. ASSUME NEW t \in Threads, Settle(t)
      PROVE  LinkInv'
  BY <1>10 DEF Settle, TypeOK, PCs, QueueFree
<1>11. ASSUME NEW t \in Threads, LoadSize(t)
      PROVE  LinkInv'
  BY <1>11 DEF LoadSize, TypeOK, PCs, QueueFree
<1>12. ASSUME NEW t \in Threads, LoadMsg(t)
      PROVE  LinkInv'
  BY <1>12 DEF LoadMsg, TypeOK, PCs, QueueFree
<1>13. ASSUME NEW t \in Threads, Unlink(t)
      PROVE  LinkInv'
  BY <1>13 DEF Unlink, TypeOK, PCs, QueueFree
<1>14. ASSUME NEW t \in Threads, Free(t)
      PROVE  LinkInv'
  BY <1>14 DEF Free, TypeOK, PCs, QueueFree
<1>15. ASSUME NEW t \in Threads, Return(t)
      PROVE  LinkInv'
  BY <1>15 DEF Return, TypeOK, PCs, QueueFree
<1>16. ASSUME NEW p \in door, Lock(p)
      PROVE  LinkInv'
  BY <1>16 DEF Lock, TypeOK, PCs, QueueFree
<1>17. ASSUME MarkDone
      PROVE  LinkInv'
  BY <1>17 DEF MarkDone, TypeOK, PCs, QueueFree
<1>18. ASSUME Alloc
      PROVE  LinkInv'
  BY <1>18 DEF Alloc, TypeOK, PCs, QueueFree
<1>19. ASSUME StoreSize
      PROVE  LinkInv'
  BY <1>19 DEF StoreSize, TypeOK, PCs, QueueFree
<1>20. ASSUME StoreMsg
      PROVE  LinkInv'
  BY <1>20 DEF StoreMsg, TypeOK, PCs, QueueFree
<1>21. ASSUME Wake
      PROVE  LinkInv'
  BY <1>21 DEF Wake, TypeOK, PCs, QueueFree
<1>22. ASSUME NEW d \in Daemons, OpenDevice(d)
      PROVE  LinkInv'
  BY <1>22 DEF OpenDevice, TypeOK, PCs, QueueFree
<1>23. ASSUME NEW d \in Daemons, Bind(d)
      PROVE  LinkInv'
  BY <1>23 DEF Bind, TypeOK, PCs, QueueFree
<1>24. ASSUME NEW d \in Daemons, Hello(d)
      PROVE  LinkInv'
  BY <1>24 DEF Hello, TypeOK, PCs, QueueFree
<1>25. ASSUME NEW d \in Daemons, Exit(d)
      PROVE  LinkInv'
  BY <1>25 DEF Exit, TypeOK, PCs, QueueFree
<1>26. ASSUME NEW d \in Daemons, NEW id \in inbox[d], Answer(d, id)
      PROVE  LinkInv'
  BY <1>26 DEF Answer, TypeOK, PCs, QueueFree
<1>27. ASSUME NEW d \in Daemons, NEW id \in inbox[d], NoAnswer(d, id)
      PROVE  LinkInv'
  BY <1>27 DEF NoAnswer, TypeOK, PCs, QueueFree
<1>29. ASSUME NEW t \in Threads, WriteSize(t)
      PROVE  LinkInv'
  BY <1>29 DEF WriteSize, TypeOK, PCs, QueueFree
<1>28. CASE UNCHANGED vars
  BY <1>28 DEF vars, TypeOK, PCs, QueueFree
<1> QED
  BY <1>1, <1>2, <1>3, <1>4, <1>5, <1>6, <1>7, <1>8, <1>9, <1>10,
     <1>11, <1>12, <1>13, <1>14, <1>15, <1>16, <1>17, <1>18, <1>19, <1>20,
     <1>21, <1>22, <1>23, <1>24, <1>25, <1>26, <1>27, <1>28, <1>29
  DEF Next, Request, Receive, LockAny, Daemon

\* A response stays with its request, in live memory.
LEMMA MsgStep == TypeOK /\ IdInv /\ LinkInv /\ MsgInv /\ [Next]_vars => MsgInv'
<1> SUFFICES ASSUME TypeOK, IdInv, LinkInv, MsgInv, [Next]_vars
             PROVE  MsgInv'
  OBVIOUS
<1> USE DEF MsgInv, LinkInv, Linked, Early, globals, ctx, got, rcv, daemonVars, Goto, FailNow, Leave, Set
<1>1. ASSUME NEW t \in Threads, NEW k \in Kinds, Begin(t, k)
      PROVE  MsgInv'
  BY <1>1 DEF Begin, TypeOK, PCs, QueueFree
<1>2. ASSUME NEW t \in Threads, CheckPid(t)
      PROVE  MsgInv'
  BY <1>2 DEF CheckPid, TypeOK, PCs, QueueFree
<1>3. ASSUME NEW t \in Threads, BuildFails(t)
      PROVE  MsgInv'
  BY <1>3 DEF BuildFails, TypeOK, PCs, QueueFree
<1>4. ASSUME NEW t \in Threads, Build(t)
      PROVE  MsgInv'
  BY <1>4 DEF Build, TypeOK, PCs, QueueFree
<1>5. ASSUME NEW t \in Threads, Enqueue(t)
      PROVE  MsgInv'
  BY <1>5 DEF Enqueue, TypeOK, PCs, QueueFree
<1>6. ASSUME NEW t \in Threads, Send(t)
      PROVE  MsgInv'
  BY <1>6 DEF Send, TypeOK, PCs, QueueFree
<1>7. ASSUME NEW t \in Threads, EchoReturn(t)
      PROVE  MsgInv'
  BY <1>7 DEF EchoReturn, TypeOK, PCs, QueueFree
<1>8. ASSUME NEW t \in Threads, Wait(t)
      PROVE  MsgInv'
  BY <1>8 DEF Wait, TypeOK, PCs, QueueFree
<1>9. ASSUME NEW t \in Threads, Timer(t)
      PROVE  MsgInv'
  BY <1>9 DEF Timer, TypeOK, PCs, QueueFree
<1>10. ASSUME NEW t \in Threads, Settle(t)
      PROVE  MsgInv'
  BY <1>10 DEF Settle, TypeOK, PCs, QueueFree
<1>11. ASSUME NEW t \in Threads, LoadSize(t)
      PROVE  MsgInv'
  BY <1>11 DEF LoadSize, TypeOK, PCs, QueueFree
<1>12. ASSUME NEW t \in Threads, LoadMsg(t)
      PROVE  MsgInv'
  BY <1>12 DEF LoadMsg, TypeOK, PCs, QueueFree
<1>13. ASSUME NEW t \in Threads, Unlink(t)
      PROVE  MsgInv'
  BY <1>13 DEF Unlink, TypeOK, PCs, QueueFree
<1>14. ASSUME NEW t \in Threads, Free(t)
      PROVE  MsgInv'
  BY <1>14 DEF Free, TypeOK, PCs, QueueFree
<1>15. ASSUME NEW t \in Threads, Return(t)
      PROVE  MsgInv'
  <2>1. \A u \in Threads : u # t /\ msgId[u] # 0 => msgId[u] # msgId[t]
    BY DEF IdInv
  <2>2. at # "idle" => to # t /\ to \in Threads /\ msgId[to] # 0
    BY <1>15 DEF Return, TypeOK, IdInv
  <2>3. \A id \in Ids : RspBuf(id) \in bufs /\ id # msgId[t] => RspBuf(id) \in bufs'
    BY <1>15 DEF Return, Released, RspBuf, ReqBuf
  <2>4. UNCHANGED <<state, respMsg, at, pkt, stored, to, kind>> /\ pc[t] = "return"
    BY <1>15 DEF Return
  <2>5. respMsg[t] = NoMsg
    BY <2>4
  <2>6. CASE Goto(t, "size") /\ kind[t] = "write" /\ HasAnswer(t) /\ UNCHANGED <<msgId, got>>
    BY <2>1, <2>2, <2>3, <2>4, <2>5, <2>6 DEF TypeOK, IdInv, HasAnswer
  <2>7. ASSUME NEW r, Leave(t, r)
        PROVE  MsgInv'
    BY <2>1, <2>2, <2>3, <2>4, <2>5, <2>7 DEF TypeOK, IdInv
  <2> QED
    BY <1>15, <2>6, <2>7 DEF Return
<1>16. ASSUME NEW p \in door, Lock(p)
      PROVE  MsgInv'
  BY <1>16 DEF Lock, TypeOK, PCs, QueueFree
<1>17. ASSUME MarkDone
      PROVE  MsgInv'
  BY <1>17 DEF MarkDone, TypeOK, PCs, QueueFree
<1>18. ASSUME Alloc
      PROVE  MsgInv'
  BY <1>18 DEF Alloc, TypeOK, PCs, QueueFree
<1>19. ASSUME StoreSize
      PROVE  MsgInv'
  BY <1>19 DEF StoreSize, TypeOK, PCs, QueueFree
<1>20. ASSUME StoreMsg
      PROVE  MsgInv'
  BY <1>20 DEF StoreMsg, TypeOK, PCs, QueueFree
<1>21. ASSUME Wake
      PROVE  MsgInv'
  BY <1>21 DEF Wake, TypeOK, PCs, QueueFree
<1>22. ASSUME NEW d \in Daemons, OpenDevice(d)
      PROVE  MsgInv'
  BY <1>22 DEF OpenDevice, TypeOK, PCs, QueueFree
<1>23. ASSUME NEW d \in Daemons, Bind(d)
      PROVE  MsgInv'
  BY <1>23 DEF Bind, TypeOK, PCs, QueueFree
<1>24. ASSUME NEW d \in Daemons, Hello(d)
      PROVE  MsgInv'
  BY <1>24 DEF Hello, TypeOK, PCs, QueueFree
<1>25. ASSUME NEW d \in Daemons, Exit(d)
      PROVE  MsgInv'
  BY <1>25 DEF Exit, TypeOK, PCs, QueueFree
<1>26. ASSUME NEW d \in Daemons, NEW id \in inbox[d], Answer(d, id)
      PROVE  MsgInv'
  BY <1>26 DEF Answer, TypeOK, PCs, QueueFree
<1>27. ASSUME NEW d \in Daemons, NEW id \in inbox[d], NoAnswer(d, id)
      PROVE  MsgInv'
  BY <1>27 DEF NoAnswer, TypeOK, PCs, QueueFree
<1>29. ASSUME NEW t \in Threads, WriteSize(t)
      PROVE  MsgInv'
  BY <1>29 DEF WriteSize, TypeOK, PCs, QueueFree, IdInv
<1>28. CASE UNCHANGED vars
  BY <1>28 DEF vars, TypeOK, PCs, QueueFree
<1> QED
  BY <1>1, <1>2, <1>3, <1>4, <1>5, <1>6, <1>7, <1>8, <1>9, <1>10,
     <1>11, <1>12, <1>13, <1>14, <1>15, <1>16, <1>17, <1>18, <1>19, <1>20,
     <1>21, <1>22, <1>23, <1>24, <1>25, <1>26, <1>27, <1>28, <1>29
  DEF Next, Request, Receive, LockAny, Daemon

\* The daemon's threads are ignored by the upcall path.
LEMMA DaemonStep == TypeOK /\ DaemonInv /\ [Next]_vars => DaemonInv'
<1> SUFFICES ASSUME TypeOK, DaemonInv, [Next]_vars
             PROVE  DaemonInv'
  OBVIOUS
<1> USE DEF DaemonInv, DeviceExclusive, globals, ctx, got, rcv, daemonVars, Goto, FailNow, Leave, Set
<1>1. ASSUME NEW t \in Threads, NEW k \in Kinds, Begin(t, k)
      PROVE  DaemonInv'
  <2>1. ASSUME Tgid[t] \in Daemons
        PROVE  inbox[Tgid[t]] # {}
    <3>1. IsFiniteSet(Busy(Tgid[t]))
      BY FS_Subset, ThreadsAssumption DEF Busy
    <3>2. Cardinality(Busy(Tgid[t])) \in Nat
      BY <3>1, FS_CardinalityType
    <3>3. Cardinality(Busy(Tgid[t])) < Cardinality(inbox[Tgid[t]])
      BY <1>1, <2>1 DEF Begin, MayCall
    <3> QED
      BY <3>2, <3>3, FS_EmptySet
  <2> QED
    BY <1>1, <2>1, TgidAssumption DEF Begin, TypeOK
<1>2. ASSUME NEW t \in Threads, CheckPid(t)
      PROVE  DaemonInv'
  BY <1>2, PidAssumption, TgidAssumption DEF CheckPid, TypeOK, PCs
<1>3. ASSUME NEW t \in Threads, BuildFails(t)
      PROVE  DaemonInv'
  BY <1>3, PidAssumption, TgidAssumption DEF BuildFails, TypeOK, PCs
<1>4. ASSUME NEW t \in Threads, Build(t)
      PROVE  DaemonInv'
  BY <1>4, PidAssumption, TgidAssumption DEF Build, TypeOK, PCs
<1>5. ASSUME NEW t \in Threads, Enqueue(t)
      PROVE  DaemonInv'
  BY <1>5, PidAssumption, TgidAssumption DEF Enqueue, TypeOK, PCs
<1>6. ASSUME NEW t \in Threads, Send(t)
      PROVE  DaemonInv'
  BY <1>6, PidAssumption, TgidAssumption DEF Send, TypeOK, PCs
<1>7. ASSUME NEW t \in Threads, EchoReturn(t)
      PROVE  DaemonInv'
  BY <1>7, PidAssumption, TgidAssumption DEF EchoReturn, TypeOK, PCs
<1>8. ASSUME NEW t \in Threads, Wait(t)
      PROVE  DaemonInv'
  BY <1>8, PidAssumption, TgidAssumption DEF Wait, TypeOK, PCs
<1>9. ASSUME NEW t \in Threads, Timer(t)
      PROVE  DaemonInv'
  BY <1>9, PidAssumption, TgidAssumption DEF Timer, TypeOK, PCs
<1>10. ASSUME NEW t \in Threads, Settle(t)
      PROVE  DaemonInv'
  BY <1>10, PidAssumption, TgidAssumption DEF Settle, TypeOK, PCs
<1>11. ASSUME NEW t \in Threads, LoadSize(t)
      PROVE  DaemonInv'
  BY <1>11, PidAssumption, TgidAssumption DEF LoadSize, TypeOK, PCs
<1>12. ASSUME NEW t \in Threads, LoadMsg(t)
      PROVE  DaemonInv'
  BY <1>12, PidAssumption, TgidAssumption DEF LoadMsg, TypeOK, PCs
<1>13. ASSUME NEW t \in Threads, Unlink(t)
      PROVE  DaemonInv'
  BY <1>13, PidAssumption, TgidAssumption DEF Unlink, TypeOK, PCs
<1>14. ASSUME NEW t \in Threads, Free(t)
      PROVE  DaemonInv'
  BY <1>14, PidAssumption, TgidAssumption DEF Free, TypeOK, PCs
<1>15. ASSUME NEW t \in Threads, Return(t)
      PROVE  DaemonInv'
  BY <1>15, PidAssumption, TgidAssumption DEF Return, TypeOK, PCs
<1>16. ASSUME NEW p \in door, Lock(p)
      PROVE  DaemonInv'
  BY <1>16, PidAssumption, TgidAssumption DEF Lock, TypeOK, PCs
<1>17. ASSUME MarkDone
      PROVE  DaemonInv'
  BY <1>17, PidAssumption, TgidAssumption DEF MarkDone, TypeOK, PCs
<1>18. ASSUME Alloc
      PROVE  DaemonInv'
  BY <1>18, PidAssumption, TgidAssumption DEF Alloc, TypeOK, PCs
<1>19. ASSUME StoreSize
      PROVE  DaemonInv'
  BY <1>19, PidAssumption, TgidAssumption DEF StoreSize, TypeOK, PCs
<1>20. ASSUME StoreMsg
      PROVE  DaemonInv'
  BY <1>20, PidAssumption, TgidAssumption DEF StoreMsg, TypeOK, PCs
<1>21. ASSUME Wake
      PROVE  DaemonInv'
  BY <1>21, PidAssumption, TgidAssumption DEF Wake, TypeOK, PCs
<1>22. ASSUME NEW d \in Daemons, OpenDevice(d)
      PROVE  DaemonInv'
  BY <1>22, PidAssumption, TgidAssumption DEF OpenDevice, TypeOK, PCs
<1>23. ASSUME NEW d \in Daemons, Bind(d)
      PROVE  DaemonInv'
  BY <1>23, PidAssumption, TgidAssumption DEF Bind, TypeOK, PCs
<1>24. ASSUME NEW d \in Daemons, Hello(d)
      PROVE  DaemonInv'
  BY <1>24, PidAssumption, TgidAssumption DEF Hello, TypeOK, PCs
<1>25. ASSUME NEW d \in Daemons, Exit(d)
      PROVE  DaemonInv'
  <2>1. \A t \in Threads : Tgid[t] = d => pc[t] = "idle"
    BY <1>25 DEF Exit, Busy
  <2>2. \A e \in Daemons : status'[e] = "off" /\ inbox'[e] = {}
    BY <1>25 DEF Exit, TypeOK
  <2>3. \A t \in Threads : Tgid[t] \in Daemons => pc[t] = "idle"
    BY <1>25, <2>1 DEF Exit, TypeOK
  <2> QED
    BY <1>25, <2>2, <2>3 DEF Exit
<1>26. ASSUME NEW d \in Daemons, NEW id \in inbox[d], Answer(d, id)
      PROVE  DaemonInv'
  BY <1>26, PidAssumption, TgidAssumption DEF Answer, TypeOK, PCs
<1>27. ASSUME NEW d \in Daemons, NEW id \in inbox[d], NoAnswer(d, id)
      PROVE  DaemonInv'
  BY <1>27, PidAssumption, TgidAssumption DEF NoAnswer, TypeOK, PCs
<1>29. ASSUME NEW t \in Threads, WriteSize(t)
      PROVE  DaemonInv'
  BY <1>29, PidAssumption, TgidAssumption DEF WriteSize, TypeOK, PCs
<1>28. CASE UNCHANGED vars
  BY <1>28 DEF vars, TypeOK, PCs
<1> QED
  BY <1>1, <1>2, <1>3, <1>4, <1>5, <1>6, <1>7, <1>8, <1>9, <1>10,
     <1>11, <1>12, <1>13, <1>14, <1>15, <1>16, <1>17, <1>18, <1>19, <1>20,
     <1>21, <1>22, <1>23, <1>24, <1>25, <1>26, <1>27, <1>28, <1>29
  DEF Next, Request, Receive, LockAny, Daemon

\* An id is answered once at most.
LEMMA AnswerStep == TypeOK /\ IdInv /\ LinkInv /\ DaemonInv /\ AnswerInv /\ [Next]_vars => AnswerInv'
<1> SUFFICES ASSUME TypeOK, IdInv, LinkInv, DaemonInv, AnswerInv, [Next]_vars
             PROVE  AnswerInv'
  OBVIOUS
<1> USE DEF AnswerInv, globals, ctx, got, rcv, daemonVars, Goto, FailNow, Leave, Set
<1>1. ASSUME NEW t \in Threads, NEW k \in Kinds, Begin(t, k)
      PROVE  AnswerInv'
  BY <1>1 DEF Begin, TypeOK, IdInv, Early
<1>2. ASSUME NEW t \in Threads, CheckPid(t)
      PROVE  AnswerInv'
  BY <1>2 DEF CheckPid, TypeOK, IdInv, Early
<1>3. ASSUME NEW t \in Threads, BuildFails(t)
      PROVE  AnswerInv'
  BY <1>3 DEF BuildFails, TypeOK, IdInv, Early
<1>4. ASSUME NEW t \in Threads, Build(t)
      PROVE  AnswerInv'
  <2>1. uniqueId' = uniqueId + 1 /\ uniqueId \in Nat
    BY <1>4, NextMsgIdFresh DEF Build, IdInv
  <2> QED
    BY <1>4, <2>1 DEF Build, TypeOK
<1>5. ASSUME NEW t \in Threads, Enqueue(t)
      PROVE  AnswerInv'
  BY <1>5 DEF Enqueue, TypeOK, IdInv, Early
<1>6. ASSUME NEW t \in Threads, Send(t)
      PROVE  AnswerInv'
  <2> DEFINE e == [id |-> msgId[t], by |-> 0]
  <2>1. /\ msgId[t] \in 2 .. uniqueId
        /\ \A u \in Threads : u # t => msgId[u] # msgId[t]
        /\ \A a \in answered : a.id # msgId[t]
        /\ \A d \in Daemons : msgId[t] \notin inbox[d]
    BY <1>6 DEF Send, TypeOK, IdInv, Early
  <2>2. /\ UNCHANGED <<uniqueId, respMsg, gotMsg, at, pkt, msgId>>
        /\ pc'[t] \notin {"enqueue", "send"}
        /\ \A u \in Threads : u # t => pc'[u] = pc[u]
    BY <1>6 DEF Send, TypeOK
  <2>3. CASE UNCHANGED <<door, inbox, answered>>
    BY <2>2, <2>3
  <2>4. CASE clientPid \in Daemons /\ UNCHANGED <<door, answered>>
             /\ inbox' = [inbox EXCEPT ![clientPid] = inbox[clientPid] \cup {msgId[t]}]
    BY <2>1, <2>2, <2>4 DEF TypeOK
  <2>5. CASE UNCHANGED inbox /\ door' = door \cup {e} /\ answered' = answered \cup {e}
    BY <2>1, <2>2, <2>5
  <2> QED
    BY <1>6, <2>3, <2>4, <2>5 DEF Send
<1>7. ASSUME NEW t \in Threads, EchoReturn(t)
      PROVE  AnswerInv'
  BY <1>7 DEF EchoReturn, TypeOK, IdInv, Early
<1>8. ASSUME NEW t \in Threads, Wait(t)
      PROVE  AnswerInv'
  BY <1>8 DEF Wait, TypeOK, IdInv, Early
<1>9. ASSUME NEW t \in Threads, Timer(t)
      PROVE  AnswerInv'
  BY <1>9 DEF Timer, TypeOK, IdInv, Early
<1>10. ASSUME NEW t \in Threads, Settle(t)
      PROVE  AnswerInv'
  BY <1>10 DEF Settle, TypeOK, IdInv, Early
<1>11. ASSUME NEW t \in Threads, LoadSize(t)
      PROVE  AnswerInv'
  BY <1>11 DEF LoadSize, TypeOK, IdInv, Early
<1>12. ASSUME NEW t \in Threads, LoadMsg(t)
      PROVE  AnswerInv'
  BY <1>12 DEF LoadMsg, TypeOK, IdInv, Early
<1>13. ASSUME NEW t \in Threads, Unlink(t)
      PROVE  AnswerInv'
  BY <1>13 DEF Unlink, TypeOK, IdInv, Early
<1>14. ASSUME NEW t \in Threads, Free(t)
      PROVE  AnswerInv'
  BY <1>14 DEF Free, TypeOK, IdInv, Early
<1>15. ASSUME NEW t \in Threads, Return(t)
      PROVE  AnswerInv'
  BY <1>15 DEF Return, TypeOK, IdInv, Early
<1>16. ASSUME NEW p \in door, Lock(p)
      PROVE  AnswerInv'
  BY <1>16 DEF Lock, TypeOK, IdInv, Early
<1>17. ASSUME MarkDone
      PROVE  AnswerInv'
  BY <1>17 DEF MarkDone, TypeOK, IdInv, Early
<1>18. ASSUME Alloc
      PROVE  AnswerInv'
  BY <1>18 DEF Alloc, TypeOK, IdInv, Early
<1>19. ASSUME StoreSize
      PROVE  AnswerInv'
  BY <1>19 DEF StoreSize, TypeOK, IdInv, Early
<1>20. ASSUME StoreMsg
      PROVE  AnswerInv'
  BY <1>20 DEF StoreMsg, TypeOK, IdInv, Early
<1>21. ASSUME Wake
      PROVE  AnswerInv'
  BY <1>21 DEF Wake, TypeOK, IdInv, Early
<1>22. ASSUME NEW d \in Daemons, OpenDevice(d)
      PROVE  AnswerInv'
  BY <1>22 DEF OpenDevice, TypeOK, IdInv, Early
<1>23. ASSUME NEW d \in Daemons, Bind(d)
      PROVE  AnswerInv'
  BY <1>23 DEF Bind, TypeOK, IdInv, Early
<1>24. ASSUME NEW d \in Daemons, Hello(d)
      PROVE  AnswerInv'
  BY <1>24 DEF Hello, TypeOK, IdInv, Early
<1>25. ASSUME NEW d \in Daemons, Exit(d)
      PROVE  AnswerInv'
  BY <1>25 DEF Exit, TypeOK, IdInv, Early
<1>26. ASSUME NEW d \in Daemons, NEW id \in inbox[d], Answer(d, id)
      PROVE  AnswerInv'
  <2> DEFINE e == [id |-> id, by |-> d]
  <2>1. \A c \in Daemons : c # d => inbox[c] = {}
    BY <1>26 DEF Answer, DaemonInv, DeviceExclusive
  <2>2. /\ \A c \in Daemons : inbox'[c] \subseteq inbox[c] /\ id \notin inbox'[c]
        /\ answered' = answered \cup {e} /\ door' = door \cup {e}
        /\ UNCHANGED <<uniqueId, respMsg, gotMsg, at, pkt, msgId, pc>>
    BY <1>26, <2>1 DEF Answer, TypeOK
  <2>3. id \in 2 .. uniqueId /\ e.id = id
    BY <1>26
  <2>4. \A t \in Threads : pc[t] \in {"enqueue", "send"} => msgId[t] # id
    BY <1>26
  <2> QED
    BY <2>2, <2>3, <2>4
<1>27. ASSUME NEW d \in Daemons, NEW id \in inbox[d], NoAnswer(d, id)
      PROVE  AnswerInv'
  BY <1>27 DEF NoAnswer, TypeOK, IdInv, Early
<1>29. ASSUME NEW t \in Threads, WriteSize(t)
      PROVE  AnswerInv'
  BY <1>29 DEF WriteSize, TypeOK, IdInv, Early
<1>28. CASE UNCHANGED vars
  BY <1>28 DEF vars, TypeOK, IdInv, Early
<1> QED
  BY <1>1, <1>2, <1>3, <1>4, <1>5, <1>6, <1>7, <1>8, <1>9, <1>10,
     <1>11, <1>12, <1>13, <1>14, <1>15, <1>16, <1>17, <1>18, <1>19, <1>20,
     <1>21, <1>22, <1>23, <1>24, <1>25, <1>26, <1>27, <1>28, <1>29
  DEF Next, Request, Receive, LockAny, Daemon

\* The invariant holds initially.
LEMMA InitInv == Init => IInv
<1> SUFFICES ASSUME Init PROVE IInv
  OBVIOUS
<1> USE DEF Init
<1>1. TypeOK
  <2>1. 1 \in Ids
    BY IdAssumption DEF Ids
  <2> QED
    BY <2>1 DEF TypeOK, PCs
<1>2. IdInv
  BY IdAssumption DEF IdInv, Early
<1>3. LinkInv /\ MsgInv
  BY DEF LinkInv, MsgInv, Linked, Early
<1>4. DaemonInv /\ AnswerInv
  BY DEF DaemonInv, DeviceExclusive, AnswerInv
<1> QED
  BY <1>1, <1>2, <1>3, <1>4 DEF IInv

\* The inductive invariant of the upcall path: ids, contexts, responses,
\* daemon and answers stay consistent through every interleaving of
\* requesters, receive calls, timers and daemon processes.
THEOREM Invariance == Spec => []IInv
<1>1. IInv /\ [Next]_vars => IInv'
  BY TypeStep, IdStep, LinkStep, MsgStep, DaemonStep, AnswerStep DEF IInv
<1> QED
  BY InitInv, <1>1, PTL DEF Spec

\* Type correctness of the upcall path (message ids never 0, packets well
\* formed) for any number of threads and daemons.
THEOREM TypeCorrect == Spec => []TypeOK
<1>1. IInv => TypeOK
  BY DEF IInv
<1> QED
  BY Invariance, <1>1, PTL

\* teadfs_netlink_receive never writes to a context its requester has unlinked or
\* freed, and a picked-up response is live until its requester has checked it and
\* copied from it (the size a write reads after that, user_com.c:480, is outside).
THEOREM MemorySafe == Spec => []NoUseAfterFree
<1>1. IInv => NoUseAfterFree
  BY DEF IInv, NoUseAfterFree, LinkInv, MsgInv, Linked, Early, TypeOK
<1> QED
  BY Invariance, <1>1, PTL

\* No requester is ever handed the answer to somebody else's request.
THEOREM AnswersMatch == Spec => []OwnAnswer
<1>1. IInv => OwnAnswer
  BY DEF IInv, OwnAnswer, MsgInv
<1> QED
  BY Invariance, <1>1, PTL

\* Contexts that exist at the same time have different ids, and nothing under way
\* carries the id of a request yet to be sent: the search of teadfs_netlink_receive
\* by id finds the right context or none.
THEOREM IdsDistinct == Spec => []DistinctIds
<1>1. IInv => DistinctIds
  <2> SUFFICES ASSUME IInv, NEW t \in Threads, state[t] # "free"
               PROVE  /\ \A u \in Threads \ {t} : state[u] # "free" => ctxId[u] # ctxId[t]
                      /\ pc[t] \in {"enqueue", "send"} =>
                           /\ \A a \in door : a.id # ctxId[t]
                           /\ \A d \in Daemons : ctxId[t] \notin inbox[d]
    BY DEF DistinctIds
  <2>1. \A u \in Threads : state[u] # "free" => ctxId[u] = msgId[u]
    BY DEF IInv, LinkInv
  <2>2. msgId[t] # 0
    BY DEF IInv, LinkInv, IdInv
  <2>3. \A u \in Threads \ {t} : state[u] # "free" => ctxId[u] # ctxId[t]
    BY <2>1, <2>2 DEF IInv, IdInv
  <2>4. pc[t] \in {"enqueue", "send"} => /\ \A a \in door : a.id # ctxId[t]
                                         /\ \A d \in Daemons : ctxId[t] \notin inbox[d]
    BY <2>1 DEF IInv, AnswerInv
  <2> QED
    BY <2>3, <2>4
<1> QED
  BY Invariance, <1>1, PTL

\* At most one process has /dev/teadfs open and the connect flag says so.
THEOREM OneDaemon == Spec => []DeviceExclusive
<1>1. IInv => DeviceExclusive
  BY DEF IInv, DaemonInv
<1> QED
  BY Invariance, <1>1, PTL

\* No thread of the daemon ever waits for the daemon.
THEOREM ClientIgnored == Spec => []DaemonNeverWaits
<1>1. IInv => DaemonNeverWaits
  BY DEF IInv, DaemonInv, DaemonNeverWaits
<1> QED
  BY Invariance, <1>1, PTL
-----------------------------------------------------------------------------
\* The initial states of Upcall are initial states of the abstract upcall.
LEMMA AbsInit == Init => Abs!Init
  BY DEF Init, Outstanding, Early, Abs!Init, NoMsg, Abs!NoResult

\* Every step of Upcall is a step of the abstract upcall or leaves it alone:
\* taking an id is Ask, an early failure Refuse, an answer or an echo Reply,
\* returning Finish.
LEMMA AbsStep == IInv /\ [Next]_vars => [Abs!Next]_(Abs!absVars)
<1> SUFFICES ASSUME IInv, [Next]_vars
             PROVE  Abs!Next \/ UNCHANGED Abs!absVars
  OBVIOUS
<1> USE DEF globals, ctx, got, rcv, daemonVars, Goto, FailNow, Leave, Set
<1>a. TypeOK /\ IdInv
  BY DEF IInv
<1>b. \A t \in Threads : pc[t] \in Early => Outstanding[t] = 0
  BY DEF Outstanding
<1>c. Fail = Abs!Failure
  BY DEF Fail, Abs!Failure
<1>d. Packets = Abs!Answers
  BY DEF Packets, Ids, Abs!Answers
<1>1. ASSUME NEW t \in Threads, NEW k \in Kinds, Begin(t, k)
      PROVE  Abs!Next \/ UNCHANGED Abs!absVars
  <2>1. UNCHANGED <<uniqueId, answered, Outstanding>>
    BY <1>1, <1>a DEF Begin, Outstanding, Early, TypeOK
  <2>2. pc[t] \in Early
    BY <1>1 DEF Begin, Early
  <2>3. UNCHANGED ret \/ ret' = [ret EXCEPT ![t] = Fail]
    BY <1>1 DEF Begin
  <2> QED
    BY <2>1, <2>2, <2>3, <1>b, <1>c DEF Abs!Next, Abs!Refuse, Abs!absVars
<1>2. ASSUME NEW t \in Threads, CheckPid(t) \/ BuildFails(t)
      PROVE  Abs!Next \/ UNCHANGED Abs!absVars
  <2>1. UNCHANGED <<uniqueId, answered, Outstanding>>
    BY <1>2, <1>a DEF CheckPid, BuildFails, Outstanding, Early, TypeOK
  <2>2. pc[t] \in Early
    BY <1>2 DEF CheckPid, BuildFails, Early
  <2>3. UNCHANGED ret \/ ret' = [ret EXCEPT ![t] = Fail]
    BY <1>2 DEF CheckPid, BuildFails
  <2> QED
    BY <2>1, <2>2, <2>3, <1>b, <1>c DEF Abs!Next, Abs!Refuse, Abs!absVars
<1>3. ASSUME NEW t \in Threads, Build(t)
      PROVE  Abs!Next \/ UNCHANGED Abs!absVars
  <2>1. uniqueId' = uniqueId + 1 /\ uniqueId + 1 \in Ids
    BY <1>3, <1>a, NextMsgIdFresh DEF Build, IdInv
  <2>2. uniqueId + 1 < IdSpace
    BY <1>3, <1>a, IdAssumption DEF Build, IdInv
  <2>3. Outstanding[t] = 0
    BY <1>3, <1>b DEF Build, Early
  <2>4. Outstanding' = [Outstanding EXCEPT ![t] = uniqueId']
    BY <1>3, <1>a DEF Build, Outstanding, Early, TypeOK
  <2>5. UNCHANGED <<answered, ret>>
    BY <1>3 DEF Build
  <2> QED
    BY <2>1, <2>2, <2>3, <2>4, <2>5 DEF Abs!Next, Abs!Ask
<1>4. ASSUME NEW a \in Packets, a.id \in 2 .. uniqueId, \A b \in answered : b.id # a.id,
             answered' = answered \cup {a}, UNCHANGED <<uniqueId, ret, Outstanding>>
      PROVE  Abs!Next
  BY <1>4, <1>d DEF Abs!Next, Abs!Reply
<1>5. ASSUME NEW t \in Threads, Send(t)
      PROVE  Abs!Next \/ UNCHANGED Abs!absVars
  <2> DEFINE e == [id |-> msgId[t], by |-> 0]
  <2>1. UNCHANGED <<uniqueId, ret, Outstanding>>
    BY <1>5, <1>a DEF Send, Outstanding, Early, TypeOK
  <2>2. CASE UNCHANGED answered
    BY <2>1, <2>2 DEF Abs!absVars
  <2>3. CASE answered' = answered \cup {e}
    <3>1. msgId[t] \in 2 .. uniqueId /\ \A b \in answered : b.id # e.id
      BY <1>5, <1>a DEF Send, IdInv, Early, IInv, AnswerInv
    <3>2. msgId[t] \in Ids
      BY <3>1, <1>a, IdAssumption DEF IdInv, Ids
    <3>3. e \in Packets
      BY <3>2 DEF Packets
    <3> QED
      BY <1>4, <2>1, <2>3, <3>1, <3>3
  <2> QED
    BY <1>5, <2>2, <2>3 DEF Send
<1>6. ASSUME NEW t \in Threads, pc[t] \in {"return", "size"}, NEW r, Leave(t, r),
             r = Fail \/ (r = gotMsg[t] /\ r # NoMsg), UNCHANGED <<uniqueId, answered>>
      PROVE  Abs!Next
  <2>1. Outstanding[t] = msgId[t] /\ msgId[t] # 0
    BY <1>6, <1>a DEF Outstanding, Early, IdInv
  <2>2. Outstanding' = [Outstanding EXCEPT ![t] = 0]
    BY <1>6, <1>a DEF Outstanding, Early, TypeOK
  <2>3. r \in {Fail} \cup {a \in answered : a.id = msgId[t]}
    BY <1>6 DEF IInv, AnswerInv, MsgInv
  <2>4. Abs!Finish(t)
    BY <1>6, <2>1, <2>2, <2>3, <1>c DEF Abs!Finish
  <2> QED
    BY <2>4 DEF Abs!Next
<1>20. ASSUME NEW t \in Threads, Return(t)
      PROVE  Abs!Next \/ UNCHANGED Abs!absVars
  <2>1. PICK accepted \in BOOLEAN :
          /\ accepted => HasAnswer(t)
          /\ \/ kind[t] = "write" /\ accepted /\ Goto(t, "size") /\ UNCHANGED <<msgId, got, ret>>
             \/ Leave(t, IF accepted THEN gotMsg[t] ELSE Fail)
    BY <1>20 DEF Return
  <2>2. pc[t] = "return" /\ UNCHANGED <<uniqueId, answered>>
    BY <1>20 DEF Return
  <2>3. CASE Goto(t, "size") /\ UNCHANGED <<msgId, got, ret>>
    BY <2>2, <2>3, <1>a DEF Outstanding, Early, TypeOK, Abs!absVars
  <2>4. CASE Leave(t, IF accepted THEN gotMsg[t] ELSE Fail)
    <3>1. CASE accepted
      BY <1>6, <2>1, <2>2, <2>4, <3>1 DEF HasAnswer
    <3>2. CASE ~accepted
      BY <1>6, <2>2, <2>4, <3>2
    <3> QED
      BY <3>1, <3>2
  <2> QED
    BY <2>1, <2>3, <2>4
<1>21. ASSUME NEW t \in Threads, WriteSize(t)
      PROVE  Abs!Next \/ UNCHANGED Abs!absVars
  <2>1. PICK r \in {gotMsg[t], Fail} : Leave(t, r)
    BY <1>21 DEF WriteSize
  <2>2. pc[t] = "size" /\ gotMsg[t] # NoMsg /\ UNCHANGED <<uniqueId, answered>>
    BY <1>21 DEF WriteSize, IInv, MsgInv
  <2> QED
    BY <1>6, <2>1, <2>2
<1>7. ASSUME NEW d \in Daemons, NEW id \in inbox[d], Answer(d, id)
      PROVE  Abs!Next \/ UNCHANGED Abs!absVars
  <2> DEFINE e == [id |-> id, by |-> d]
  <2>1. answered' = answered \cup {e} /\ UNCHANGED <<uniqueId, ret, Outstanding>>
    BY <1>7 DEF Answer, Outstanding
  <2>2. id \in 2 .. uniqueId /\ \A b \in answered : b.id # e.id
    BY DEF IInv, AnswerInv
  <2>3. e \in Packets
    BY <1>a DEF Packets, TypeOK
  <2> QED
    BY <1>4, <2>1, <2>2, <2>3
<1>8. ASSUME NEW t \in Threads, Enqueue(t)
      PROVE  UNCHANGED Abs!absVars
  BY <1>8, <1>a DEF Enqueue, Outstanding, Early, TypeOK, Abs!absVars
<1>9. ASSUME NEW t \in Threads, EchoReturn(t)
      PROVE  UNCHANGED Abs!absVars
  BY <1>9, <1>a DEF EchoReturn, Outstanding, Early, TypeOK, Abs!absVars
<1>10. ASSUME NEW t \in Threads, Wait(t)
      PROVE  UNCHANGED Abs!absVars
  BY <1>10, <1>a DEF Wait, Outstanding, Early, TypeOK, Abs!absVars
<1>11. ASSUME NEW t \in Threads, Timer(t)
      PROVE  UNCHANGED Abs!absVars
  BY <1>11, <1>a DEF Timer, Outstanding, Early, TypeOK, Abs!absVars
<1>12. ASSUME NEW t \in Threads, Settle(t)
      PROVE  UNCHANGED Abs!absVars
  BY <1>12, <1>a DEF Settle, Outstanding, Early, TypeOK, Abs!absVars
<1>13. ASSUME NEW t \in Threads, LoadSize(t)
      PROVE  UNCHANGED Abs!absVars
  BY <1>13, <1>a DEF LoadSize, Outstanding, Early, TypeOK, Abs!absVars
<1>14. ASSUME NEW t \in Threads, LoadMsg(t)
      PROVE  UNCHANGED Abs!absVars
  BY <1>14, <1>a DEF LoadMsg, Outstanding, Early, TypeOK, Abs!absVars
<1>15. ASSUME NEW t \in Threads, Unlink(t)
      PROVE  UNCHANGED Abs!absVars
  BY <1>15, <1>a DEF Unlink, Outstanding, Early, TypeOK, Abs!absVars
<1>16. ASSUME NEW t \in Threads, Free(t)
      PROVE  UNCHANGED Abs!absVars
  BY <1>16, <1>a DEF Free, Outstanding, Early, TypeOK, Abs!absVars
<1>17. ASSUME LockAny \/ Receive
      PROVE  UNCHANGED Abs!absVars
  <2>1. UNCHANGED <<uniqueId, answered, ret, msgId>>
    BY <1>17 DEF LockAny, Receive, Lock, MarkDone, Alloc, StoreSize, StoreMsg, Wake
  <2>2. UNCHANGED pc \/ (pc[to] = "asleep" /\ pc' = [pc EXCEPT ![to] = "load"])
    BY <1>17 DEF LockAny, Receive, Lock, MarkDone, Alloc, StoreSize, StoreMsg, Wake
  <2>3. UNCHANGED Outstanding
    BY <2>1, <2>2, <1>a DEF Outstanding, Early, TypeOK
  <2> QED
    BY <2>1, <2>3 DEF Abs!absVars
<1>18. ASSUME NEW d \in Daemons,
             OpenDevice(d) \/ Bind(d) \/ Hello(d) \/ Exit(d) \/ \E id \in inbox[d] : NoAnswer(d, id)
      PROVE  UNCHANGED Abs!absVars
  BY <1>18 DEF OpenDevice, Bind, Hello, Exit, NoAnswer, Outstanding, Abs!absVars
<1>19. CASE UNCHANGED vars
  BY <1>19 DEF vars, Outstanding, Abs!absVars
<1> QED
  BY <1>1, <1>2, <1>3, <1>4, <1>5, <1>6, <1>7, <1>8, <1>9,
     <1>10, <1>11, <1>12, <1>13, <1>14, <1>15, <1>16, <1>17, <1>18, <1>19, <1>20, <1>21
  DEF Next, Request, Daemon

\* Upcall implements UpcallAbs: a call returns a failure or the one answer
\* given to its own id, for any number of threads, daemons and ids.
THEOREM Refinement == Spec => AbsSpec
<1> QED
  BY AbsInit, AbsStep, Invariance, PTL DEF Spec, AbsSpec, Abs!Spec

\* A step keeps the request buffers of returned open and release upcalls free.
LEMMA FreedStep == IInv /\ RequestsFreed /\ [Next]_vars => RequestsFreed'
<1> SUFFICES ASSUME IInv, RequestsFreed, [Next]_vars,
                    Kinds \subseteq {"open", "release"},
                    NEW b \in bufs', b.what = "req"
             PROVE  \E u \in Threads : msgId'[u] = b.id
  BY DEF RequestsFreed
<1> USE DEF globals, ctx, got, rcv, daemonVars, Goto, FailNow, Leave, Set
<1>a. TypeOK /\ IdInv
  BY DEF IInv
<1>b. \A c \in bufs : c.what = "req" => \E u \in Threads : msgId[u] = c.id
  BY DEF RequestsFreed
<1>c. \A c \in bufs : c.id # 0 /\ c = [what |-> c.what, id |-> c.id]
  BY <1>a DEF TypeOK, Buffers, Ids
<1>1. ASSUME NEW t \in Threads, Build(t)
      PROVE  \E u \in Threads : msgId'[u] = b.id
  <2>1. msgId' = [msgId EXCEPT ![t] = uniqueId'] /\ bufs' = bufs \cup {ReqBuf(uniqueId')}
    BY <1>1 DEF Build
  <2>2. msgId[t] = 0
    BY <1>1, <1>a DEF Build, IdInv, Early
  <2>3. CASE b \in bufs
    <3>1. PICK u \in Threads : msgId[u] = b.id
      BY <2>3, <1>b
    <3>2. u # t
      BY <3>1, <2>2, <2>3, <1>c
    <3> QED
      BY <3>1, <3>2, <2>1, <1>a DEF TypeOK
  <2>4. CASE b = ReqBuf(uniqueId')
    BY <2>1, <2>4, <1>a DEF TypeOK, ReqBuf
  <2> QED
    BY <2>1, <2>3, <2>4
<1>2. ASSUME NEW t \in Threads, Return(t)
      PROVE  \E u \in Threads : msgId'[u] = b.id
  <2>1. PICK a \in BOOLEAN : bufs' = bufs \ Released(t, a)
    BY <1>2 DEF Return
  <2>2. ReqBuf(msgId[t]) \in Released(t, a)
    BY <1>a DEF TypeOK, Released
  <2>3. PICK u \in Threads : msgId[u] = b.id
    BY <2>1, <1>b
  <2>4. u # t
    BY <2>1, <2>2, <2>3, <1>c DEF ReqBuf
  <2>5. msgId' = [msgId EXCEPT ![t] = 0]
    BY <1>2, <1>a DEF Return, TypeOK
  <2> QED
    BY <2>3, <2>4, <2>5, <1>a DEF TypeOK
<1>9. ASSUME NEW t \in Threads, WriteSize(t)
      PROVE  FALSE
  BY <1>9, <1>a DEF WriteSize, IInv, MsgInv, TypeOK
<1>3. ASSUME Alloc
      PROVE  \E u \in Threads : msgId'[u] = b.id
  <2>1. b \in bufs /\ msgId' = msgId
    BY <1>3 DEF Alloc, RspBuf
  <2> QED
    BY <2>1, <1>b
<1>4. ASSUME UNCHANGED <<bufs, msgId>>
      PROVE  \E u \in Threads : msgId'[u] = b.id
  BY <1>4, <1>b
<1>5. ASSUME NEW t \in Threads,
             \/ \E k \in Kinds : Begin(t, k)
             \/ CheckPid(t) \/ BuildFails(t) \/ Enqueue(t) \/ Send(t) \/ EchoReturn(t) \/ Wait(t)
             \/ Timer(t) \/ Settle(t) \/ LoadSize(t) \/ LoadMsg(t) \/ Unlink(t) \/ Free(t)
      PROVE  UNCHANGED <<bufs, msgId>>
  BY <1>5 DEF Begin, CheckPid, BuildFails, Enqueue, Send, EchoReturn, Wait, Timer, Settle,
              LoadSize, LoadMsg, Unlink, Free
<1>6. ASSUME LockAny \/ MarkDone \/ StoreSize \/ StoreMsg \/ Wake
      PROVE  UNCHANGED <<bufs, msgId>>
  BY <1>6 DEF LockAny, Lock, MarkDone, StoreSize, StoreMsg, Wake
<1>7. ASSUME NEW d \in Daemons, Daemon(d)
      PROVE  UNCHANGED <<bufs, msgId>>
  BY <1>7 DEF Daemon, OpenDevice, Bind, Hello, Exit, Answer, NoAnswer
<1>8. CASE UNCHANGED vars
  BY <1>8, <1>4 DEF vars
<1> QED
  BY <1>1, <1>2, <1>3, <1>4, <1>5, <1>6, <1>7, <1>8, <1>9 DEF Next, Request, Receive

\* Once an open or release upcall has returned, the buffer of its request is free.
THEOREM RequestsReleased == Spec => []RequestsFreed
<1>1. Init => RequestsFreed
  BY DEF Init, RequestsFreed
<1> QED
  BY <1>1, FreedStep, Invariance, PTL DEF Spec
=============================================================================
