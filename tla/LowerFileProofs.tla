-------------------------- MODULE LowerFileProofs --------------------------
(***************************************************************************)
(* Proofs about LowerFile for any number of programs, workers and daemons: *)
(* the inductive invariant IInv, and from it that the count is exact, that *)
(* the release upcall runs alone and that no lower file is put too early.  *)
(***************************************************************************)
EXTENDS LowerFile, FiniteSetTheorems, TLAPS

\* The sets that are counted are finite, and their sizes are numbers.
LEMMA Sizes ==
    ASSUME TypeOK
    PROVE  /\ IsFiniteSet(counted) /\ Cardinality(counted) \in Nat
           /\ IsFiniteSet(HasFile) /\ Cardinality(HasFile) \in Nat
<1>1. counted \in SUBSET Threads /\ HasFile \in SUBSET Threads
  BY DEF TypeOK, HasFile
<1> QED
  BY <1>1, ThreadsAssumption, FS_Subset, FS_CardinalityType

\* An element more, or one less.
LEMMA OneMore ==
    ASSUME NEW S, IsFiniteSet(S), NEW x
    PROVE  /\ Cardinality(S \cup {x}) \in Nat /\ Cardinality(S \cup {x}) <= Cardinality(S) + 1
           /\ Cardinality(S \ {x}) \in Nat /\ Cardinality(S \ {x}) <= Cardinality(S)
<1>1. Cardinality(S) \in Nat
  BY FS_CardinalityType
<1>2. Cardinality(S \cup {x}) \in Nat /\ Cardinality(S \ {x}) \in Nat
  BY FS_AddElement, FS_RemoveElement, FS_CardinalityType
<1>3. Cardinality(S \cup {x}) <= Cardinality(S) + 1
  <2>1. Cardinality(S \cup {x}) = Cardinality(S) \/ Cardinality(S \cup {x}) = Cardinality(S) + 1
    BY FS_AddElement
  <2> QED
    BY <1>1, <2>1
<1>4. Cardinality(S \ {x}) <= Cardinality(S)
  <2>1. Cardinality(S \ {x}) = Cardinality(S) \/ Cardinality(S \ {x}) = Cardinality(S) - 1
    BY FS_RemoveElement
  <2> QED
    BY <1>1, <2>1
<1> QED
  BY <1>2, <1>3, <1>4

\* A put that goes the other way than the open is recorded.
LEMMA SwitchedFacts ==
    ASSUME NEW t
    PROVE  /\ IsClient(t) /\ t \in counted => Switched(t) = {"clientChanged"}
           /\ ~IsClient(t) /\ t \notin counted => Switched(t) = {"clientChanged"}
  BY DEF Switched, IsClient

\* Workers are threads.
LEMMA Subsets == Workers \subseteq Threads
  BY DEF Threads

\* A thread that has a file open accounts for a lower file.
LEMMA OneOpen ==
    ASSUME TypeOK, LowerOpen, NEW t \in HasFile
    PROVE  /\ Cardinality(HasFile \ {t}) = Cardinality(HasFile) - 1
           /\ lowerFiles >= 1
<1>1. Cardinality(HasFile \ {t}) = Cardinality(HasFile) - 1
  BY Sizes, FS_RemoveElement
<1>2. Cardinality(HasFile \ {t}) \in Nat
  BY Sizes, FS_RemoveElement, FS_CardinalityType
<1>3. lowerFiles \in Nat /\ Cardinality(HasFile) \in Nat
  BY Sizes DEF TypeOK
<1> QED
  BY <1>1, <1>2, <1>3 DEF LowerOpen

\* Every step keeps the types; that lowerFiles stays a number needs LowerOpen.
LEMMA TypeStep == TypeOK /\ LowerOpen /\ [Next]_vars => TypeOK'
<1> SUFFICES ASSUME TypeOK, LowerOpen, [Next]_vars
             PROVE  TypeOK'
  OBVIOUS
<1> USE DEF TypeOK, PCs, client, inodeVars, upcalls, history, Goto
<1>1. ASSUME NEW t \in Threads, Open(t)
      PROVE  TypeOK'
  BY <1>1, BoundAssumption DEF Open
<1>2. ASSUME NEW t \in Threads, Mark(t)
      PROVE  TypeOK'
  BY <1>2 DEF Mark
<1>3. ASSUME NEW t \in Threads, Ask(t)
      PROVE  TypeOK'
  BY <1>3 DEF Ask
<1>4. ASSUME NEW t \in Threads, GetClient(t)
      PROVE  TypeOK'
  BY <1>4 DEF GetClient, OpenFails
<1>5. ASSUME NEW t \in Threads, GetOther(t)
      PROVE  TypeOK'
  BY <1>5 DEF GetOther
<1>6. ASSUME NEW t \in Threads, GetLocked(t)
      PROVE  TypeOK'
  <2>1. count' \in Int /\ lowerFiles' \in Nat
    BY <1>6 DEF GetLocked
  <2>2. pc' \in [Threads -> PCs]
    BY <1>6 DEF GetLocked, OpenFails
  <2>3. counted' \subseteq Threads /\ mishaps' \subseteq {"openFailed", "clientChanged"}
    BY <1>6 DEF GetLocked
  <2> QED
    BY <1>6, <2>1, <2>2, <2>3 DEF GetLocked
<1>7. ASSUME NEW t \in Threads, PutClient(t)
      PROVE  TypeOK'
  <2>1. t \in HasFile
    BY <1>7 DEF PutClient, HasFile
  <2>2. lowerFiles >= 1
    BY <2>1, OneOpen
  <2>3. lowerFiles' \in Nat
    BY <1>7, <2>2 DEF PutClient
  <2> QED
    BY <1>7, <2>3 DEF PutClient, Released, Switched
<1>8. ASSUME NEW t \in Threads, PutFast(t)
      PROVE  TypeOK'
  BY <1>8 DEF PutFast, Released, Switched
<1>9. ASSUME NEW t \in Threads, PutLock(t)
      PROVE  TypeOK'
  BY <1>9 DEF PutLock, Released
<1>10. ASSUME NEW t \in Threads, AskRelease(t)
      PROVE  TypeOK'
  BY <1>10 DEF AskRelease, Unlock, Released
<1>11. ASSUME NEW t \in Threads, Timeout(t)
      PROVE  TypeOK'
  BY <1>11 DEF Timeout, EndOpen, EndRelease, Unlock, Released, OpenFails
<1>12. ASSUME NEW w \in Workers, Serve(w)
      PROVE  TypeOK'
  BY <1>12, Subsets DEF Serve
<1>13. ASSUME NEW w \in Workers, Answer(w)
      PROVE  TypeOK'
  BY <1>13, AnswersAssumption, Subsets
  DEF Answer, EndOpen, EndRelease, Unlock, Released, OpenFails
<1>14. ASSUME NEW d \in Daemons, Hello(d)
      PROVE  TypeOK'
  BY <1>14 DEF Hello
<1>15. ASSUME Goodbye
      PROVE  TypeOK'
  BY <1>15 DEF Goodbye
<1>16. CASE UNCHANGED vars
  BY <1>16 DEF vars
<1> QED
  BY <1>1, <1>2, <1>3, <1>4, <1>5, <1>6, <1>7, <1>8, <1>9, <1>10,
     <1>11, <1>12, <1>13, <1>14, <1>15, <1>16
  DEF Next, Kernel

\* The mutex is taken by PutLock and given back when the release upcall ends.
LEMMA HoldStep == TypeOK /\ HoldInv /\ [Next]_vars => HoldInv'
<1> SUFFICES ASSUME TypeOK, HoldInv, [Next]_vars
             PROVE  HoldInv'
  OBVIOUS
<1> USE DEF TypeOK, PCs, HoldInv, client, inodeVars, upcalls, history, Goto
<1>1. ASSUME NEW t \in Threads, Open(t)
      PROVE  HoldInv'
  BY <1>1, NoneAssumption DEF Open
<1>2. ASSUME NEW t \in Threads, Mark(t)
      PROVE  HoldInv'
  BY <1>2, NoneAssumption DEF Mark
<1>3. ASSUME NEW t \in Threads, Ask(t)
      PROVE  HoldInv'
  BY <1>3, NoneAssumption DEF Ask
<1>4. ASSUME NEW t \in Threads, GetClient(t)
      PROVE  HoldInv'
  BY <1>4, NoneAssumption DEF GetClient, OpenFails
<1>5. ASSUME NEW t \in Threads, GetOther(t)
      PROVE  HoldInv'
  BY <1>5, NoneAssumption DEF GetOther
<1>6. ASSUME NEW t \in Threads, GetLocked(t)
      PROVE  HoldInv'
  BY <1>6, NoneAssumption DEF GetLocked, OpenFails
<1>7. ASSUME NEW t \in Threads, PutClient(t)
      PROVE  HoldInv'
  BY <1>7, NoneAssumption DEF PutClient, Released, Switched
<1>8. ASSUME NEW t \in Threads, PutFast(t)
      PROVE  HoldInv'
  BY <1>8, NoneAssumption DEF PutFast, Released, Switched
<1>9. ASSUME NEW t \in Threads, PutLock(t)
      PROVE  HoldInv'
  BY <1>9, NoneAssumption DEF PutLock, Released
<1>10. ASSUME NEW t \in Threads, AskRelease(t)
      PROVE  HoldInv'
  BY <1>10, NoneAssumption DEF AskRelease, Unlock, Released
<1>11. ASSUME NEW t \in Threads, Timeout(t)
      PROVE  HoldInv'
  BY <1>11, NoneAssumption DEF Timeout, EndOpen, EndRelease, Unlock, Released, OpenFails
<1>12. ASSUME NEW w \in Workers, Serve(w)
      PROVE  HoldInv'
  BY <1>12, NoneAssumption DEF Serve
<1>13. ASSUME NEW w \in Workers, Answer(w)
      PROVE  HoldInv'
  BY <1>13, NoneAssumption DEF Answer, EndOpen, EndRelease, Unlock, Released, OpenFails
<1>14. ASSUME NEW d \in Daemons, Hello(d)
      PROVE  HoldInv'
  BY <1>14, NoneAssumption DEF Hello
<1>15. ASSUME Goodbye
      PROVE  HoldInv'
  BY <1>15, NoneAssumption DEF Goodbye
<1>16. CASE UNCHANGED vars
  BY <1>16 DEF vars
<1> QED
  BY <1>1, <1>2, <1>3, <1>4, <1>5, <1>6, <1>7, <1>8, <1>9, <1>10,
     <1>11, <1>12, <1>13, <1>14, <1>15, <1>16
  DEF Next, Kernel

\* Counted files are open ones, put or not yet put.
LEMMA CountedStep == TypeOK /\ CountedInv /\ [Next]_vars => CountedInv'
<1> SUFFICES ASSUME TypeOK, CountedInv, [Next]_vars
             PROVE  CountedInv'
  OBVIOUS
<1> USE DEF TypeOK, CountedInv, HasFile, client, inodeVars, upcalls, history, Goto
<1>1. ASSUME NEW t \in Threads, Open(t)
      PROVE  CountedInv'
  BY <1>1 DEF Open
<1>2. ASSUME NEW t \in Threads, Mark(t)
      PROVE  CountedInv'
  BY <1>2 DEF Mark
<1>3. ASSUME NEW t \in Threads, Ask(t)
      PROVE  CountedInv'
  BY <1>3 DEF Ask
<1>4. ASSUME NEW t \in Threads, GetClient(t)
      PROVE  CountedInv'
  BY <1>4 DEF GetClient, OpenFails
<1>5. ASSUME NEW t \in Threads, GetOther(t)
      PROVE  CountedInv'
  BY <1>5 DEF GetOther
<1>6. ASSUME NEW t \in Threads, GetLocked(t)
      PROVE  CountedInv'
  BY <1>6 DEF GetLocked, OpenFails
<1>7. ASSUME NEW t \in Threads, PutClient(t)
      PROVE  CountedInv'
  BY <1>7 DEF PutClient, Released, Switched
<1>8. ASSUME NEW t \in Threads, PutFast(t)
      PROVE  CountedInv'
  BY <1>8, SwitchedFacts DEF PutFast, Released, Switched
<1>9. ASSUME NEW t \in Threads, PutLock(t)
      PROVE  CountedInv'
  BY <1>9 DEF PutLock, Released
<1>10. ASSUME NEW t \in Threads, AskRelease(t)
      PROVE  CountedInv'
  BY <1>10 DEF AskRelease, Unlock, Released
<1>11. ASSUME NEW t \in Threads, Timeout(t)
      PROVE  CountedInv'
  BY <1>11 DEF Timeout, EndOpen, EndRelease, Unlock, Released, OpenFails
<1>12. ASSUME NEW w \in Workers, Serve(w)
      PROVE  CountedInv'
  BY <1>12 DEF Serve
<1>13. ASSUME NEW w \in Workers, Answer(w)
      PROVE  CountedInv'
  BY <1>13 DEF Answer, EndOpen, EndRelease, Unlock, Released, OpenFails
<1>14. ASSUME NEW d \in Daemons, Hello(d)
      PROVE  CountedInv'
  BY <1>14 DEF Hello
<1>15. ASSUME Goodbye
      PROVE  CountedInv'
  BY <1>15 DEF Goodbye
<1>16. CASE UNCHANGED vars
  BY <1>16 DEF vars
<1> QED
  BY <1>1, <1>2, <1>3, <1>4, <1>5, <1>6, <1>7, <1>8, <1>9, <1>10,
     <1>11, <1>12, <1>13, <1>14, <1>15, <1>16
  DEF Next, Kernel

\* GetLocked adds one file to the count and to counted; PutFast and PutLock take
\* one from both, the thread being in counted as long as nobody has switched.
LEMMA CountStep == TypeOK /\ CountedInv /\ CountExact /\ [Next]_vars => CountExact'
<1> SUFFICES ASSUME TypeOK, CountedInv, CountExact, [Next]_vars
             PROVE  CountExact'
  OBVIOUS
<1> USE DEF TypeOK, CountExact, client, inodeVars, upcalls, history, Goto
<1>1. ASSUME NEW t \in Threads, Open(t)
      PROVE  CountExact'
  BY <1>1 DEF Open
<1>2. ASSUME NEW t \in Threads, Mark(t)
      PROVE  CountExact'
  BY <1>2 DEF Mark
<1>3. ASSUME NEW t \in Threads, Ask(t)
      PROVE  CountExact'
  BY <1>3 DEF Ask
<1>4. ASSUME NEW t \in Threads, GetClient(t)
      PROVE  CountExact'
  BY <1>4 DEF GetClient, OpenFails
<1>5. ASSUME NEW t \in Threads, GetOther(t)
      PROVE  CountExact'
  BY <1>5 DEF GetOther
<1>6. ASSUME NEW t \in Threads, GetLocked(t)
      PROVE  CountExact'
  <2> SUFFICES ASSUME mishaps' = {}
               PROVE  count' = Cardinality(counted')
    BY DEF CountExact
  <2>1. mishaps = {} /\ count = Cardinality(counted)
    BY <1>6 DEF GetLocked
  <2>2. t \notin counted
    BY <1>6 DEF GetLocked, CountedInv, HasFile
  <2>3. Cardinality(counted \cup {t}) = Cardinality(counted) + 1
    BY <2>2, Sizes, FS_AddElement
  <2>4. ~ (count + 1 < 1)
    BY <2>1, Sizes
  <2>5. "openFailed" \notin mishaps'
    OBVIOUS
  <2>6. count' = count + 1 /\ counted' = counted \cup {t}
    BY <1>6, <2>4, <2>5 DEF GetLocked
  <2> QED
    BY <2>1, <2>3, <2>6
<1>7. ASSUME NEW t \in Threads, PutClient(t)
      PROVE  CountExact'
  <2> SUFFICES ASSUME mishaps' = {}
               PROVE  count' = Cardinality(counted')
    BY DEF CountExact
  <2>1. mishaps = {} /\ count = Cardinality(counted)
    BY <1>7 DEF PutClient
  <2>2. t \notin counted
    BY <1>7, SwitchedFacts DEF PutClient
  <2>3. counted' = counted /\ count' = count
    BY <1>7, <2>2 DEF PutClient
  <2> QED
    BY <2>1, <2>3
<1>8. ASSUME NEW t \in Threads, PutFast(t)
      PROVE  CountExact'
  <2> SUFFICES ASSUME mishaps' = {}
               PROVE  count' = Cardinality(counted')
    BY DEF CountExact
  <2>1. mishaps = {} /\ count = Cardinality(counted)
    BY <1>8 DEF PutFast
  <2>2. t \in counted
    BY <1>8, SwitchedFacts DEF PutFast
  <2>3. Cardinality(counted \ {t}) = Cardinality(counted) - 1
    BY <2>2, Sizes, FS_RemoveElement
  <2>4. \/ count' = count - 1 /\ counted' = counted \ {t}
        \/ count' = count /\ counted' = counted
    BY <1>8 DEF PutFast
  <2> QED
    BY <2>1, <2>3, <2>4
<1>9. ASSUME NEW t \in Threads, PutLock(t)
      PROVE  CountExact'
  <2> SUFFICES ASSUME mishaps' = {}
               PROVE  count' = Cardinality(counted')
    BY DEF CountExact
  <2>1. mishaps = {} /\ count = Cardinality(counted)
    BY <1>9 DEF PutLock
  <2>2. t \in counted
    BY <1>9, <2>1 DEF PutLock, CountedInv
  <2>3. Cardinality(counted \ {t}) = Cardinality(counted) - 1
    BY <2>2, Sizes, FS_RemoveElement
  <2>4. count' = count - 1 /\ counted' = counted \ {t}
    BY <1>9 DEF PutLock
  <2> QED
    BY <2>1, <2>3, <2>4
<1>10. ASSUME NEW t \in Threads, AskRelease(t)
      PROVE  CountExact'
  BY <1>10 DEF AskRelease, Unlock, Released
<1>11. ASSUME NEW t \in Threads, Timeout(t)
      PROVE  CountExact'
  BY <1>11 DEF Timeout, EndOpen, EndRelease, Unlock, Released, OpenFails
<1>12. ASSUME NEW w \in Workers, Serve(w)
      PROVE  CountExact'
  BY <1>12 DEF Serve
<1>13. ASSUME NEW w \in Workers, Answer(w)
      PROVE  CountExact'
  BY <1>13 DEF Answer, EndOpen, EndRelease, Unlock, Released, OpenFails
<1>14. ASSUME NEW d \in Daemons, Hello(d)
      PROVE  CountExact'
  BY <1>14 DEF Hello
<1>15. ASSUME Goodbye
      PROVE  CountExact'
  BY <1>15 DEF Goodbye
<1>16. CASE UNCHANGED vars
  BY <1>16 DEF vars
<1> QED
  BY <1>1, <1>2, <1>3, <1>4, <1>5, <1>6, <1>7, <1>8, <1>9, <1>10,
     <1>11, <1>12, <1>13, <1>14, <1>15, <1>16
  DEF Next, Kernel

\* Who takes the count from 1 to 0 under the mutex leaves no counted file, and none
\* is counted while the mutex is held.
LEMMA AloneStep ==
    TypeOK /\ HoldInv /\ CountedInv /\ CountExact /\ AloneInRelease /\ [Next]_vars
        => AloneInRelease'
<1> SUFFICES ASSUME TypeOK, HoldInv, CountedInv, CountExact, AloneInRelease, [Next]_vars
             PROVE  AloneInRelease'
  OBVIOUS
<1> USE DEF TypeOK, HoldInv, AloneInRelease, client, inodeVars, upcalls, history, Goto
<1>1. ASSUME NEW t \in Threads, Open(t)
      PROVE  AloneInRelease'
  BY <1>1, NoneAssumption DEF Open
<1>2. ASSUME NEW t \in Threads, Mark(t)
      PROVE  AloneInRelease'
  BY <1>2, NoneAssumption DEF Mark
<1>3. ASSUME NEW t \in Threads, Ask(t)
      PROVE  AloneInRelease'
  BY <1>3, NoneAssumption DEF Ask
<1>4. ASSUME NEW t \in Threads, GetClient(t)
      PROVE  AloneInRelease'
  BY <1>4, NoneAssumption DEF GetClient, OpenFails
<1>5. ASSUME NEW t \in Threads, GetOther(t)
      PROVE  AloneInRelease'
  BY <1>5, NoneAssumption DEF GetOther
<1>6. ASSUME NEW t \in Threads, GetLocked(t)
      PROVE  AloneInRelease'
  BY <1>6, NoneAssumption DEF GetLocked, OpenFails
<1>7. ASSUME NEW t \in Threads, PutClient(t)
      PROVE  AloneInRelease'
  BY <1>7, NoneAssumption DEF PutClient, Released, Switched
<1>8. ASSUME NEW t \in Threads, PutFast(t)
      PROVE  AloneInRelease'
  BY <1>8, NoneAssumption DEF PutFast, Released, Switched
<1>9. ASSUME NEW t \in Threads, PutLock(t)
      PROVE  AloneInRelease'
  <2>1. CASE count # 1
    BY <1>9, <2>1 DEF PutLock, Released
  <2>2. CASE count = 1
    <3> SUFFICES ASSUME mishaps' = {}
                 PROVE  counted' = {}
      BY <1>9, <2>2, NoneAssumption DEF PutLock
    <3>1. mishaps = {} /\ t \in counted /\ counted' = counted \ {t}
      BY <1>9 DEF PutLock, CountedInv
    <3>2. IsFiniteSet(counted \ {t}) /\ Cardinality(counted \ {t}) = 1 - 1
      BY <3>1, <2>2, Sizes, FS_RemoveElement DEF CountExact
    <3> QED
      BY <3>1, <3>2, FS_EmptySet
  <2> QED
    BY <2>1, <2>2
<1>10. ASSUME NEW t \in Threads, AskRelease(t)
      PROVE  AloneInRelease'
  BY <1>10, NoneAssumption DEF AskRelease, Unlock, Released
<1>11. ASSUME NEW t \in Threads, Timeout(t)
      PROVE  AloneInRelease'
  BY <1>11, NoneAssumption DEF Timeout, EndOpen, EndRelease, Unlock, Released, OpenFails
<1>12. ASSUME NEW w \in Workers, Serve(w)
      PROVE  AloneInRelease'
  BY <1>12, NoneAssumption DEF Serve
<1>13. ASSUME NEW w \in Workers, Answer(w)
      PROVE  AloneInRelease'
  BY <1>13, NoneAssumption DEF Answer, EndOpen, EndRelease, Unlock, Released, OpenFails
<1>14. ASSUME NEW d \in Daemons, Hello(d)
      PROVE  AloneInRelease'
  BY <1>14, NoneAssumption DEF Hello
<1>15. ASSUME Goodbye
      PROVE  AloneInRelease'
  BY <1>15, NoneAssumption DEF Goodbye
<1>16. CASE UNCHANGED vars
  BY <1>16 DEF vars
<1> QED
  BY <1>1, <1>2, <1>3, <1>4, <1>5, <1>6, <1>7, <1>8, <1>9, <1>10,
     <1>11, <1>12, <1>13, <1>14, <1>15, <1>16
  DEF Next, Kernel

\* A thread that opens adds a lower file with its own; only the daemon's put takes
\* one, and it takes the file's own.
LEMMA LowerStep == TypeOK /\ LowerOpen /\ [Next]_vars => LowerOpen'
<1> SUFFICES ASSUME TypeOK, LowerOpen, [Next]_vars
             PROVE  LowerOpen'
  OBVIOUS
<1> USE DEF TypeOK, client, inodeVars, upcalls, history, Goto
<1>1. ASSUME NEW t \in Threads, Open(t)
      PROVE  LowerOpen'
  <2>1. HasFile' = HasFile /\ lowerFiles' = lowerFiles
    BY <1>1 DEF Open, HasFile
  <2> QED
    BY <2>1 DEF LowerOpen
<1>2. ASSUME NEW t \in Threads, Mark(t)
      PROVE  LowerOpen'
  <2>1. HasFile' = HasFile /\ lowerFiles' = lowerFiles
    BY <1>2 DEF Mark, HasFile
  <2> QED
    BY <2>1 DEF LowerOpen
<1>3. ASSUME NEW t \in Threads, Ask(t)
      PROVE  LowerOpen'
  <2>1. HasFile' = HasFile /\ lowerFiles' = lowerFiles
    BY <1>3 DEF Ask, HasFile
  <2> QED
    BY <2>1 DEF LowerOpen
<1>4. ASSUME NEW t \in Threads, GetClient(t)
      PROVE  LowerOpen'
  <2>1. \/ HasFile' = HasFile \cup {t} /\ lowerFiles' = lowerFiles + 1
        \/ HasFile' = HasFile /\ lowerFiles' = lowerFiles
    BY <1>4 DEF GetClient, OpenFails, HasFile
  <2>2. lowerFiles \in Nat /\ Cardinality(HasFile) \in Nat
    BY Sizes
  <2>3. /\ Cardinality(HasFile \cup {t}) \in Nat
        /\ Cardinality(HasFile \cup {t}) <= Cardinality(HasFile) + 1
    BY Sizes, OneMore
  <2>4. CASE HasFile' = HasFile \cup {t} /\ lowerFiles' = lowerFiles + 1
    <3>1. lowerFiles + 1 >= Cardinality(HasFile \cup {t})
      BY <2>2, <2>3 DEF LowerOpen
    <3> QED
      BY <2>4, <3>1 DEF LowerOpen
  <2>5. CASE HasFile' = HasFile /\ lowerFiles' = lowerFiles
    BY <2>5 DEF LowerOpen
  <2> QED
    BY <2>1, <2>4, <2>5
<1>5. ASSUME NEW t \in Threads, GetOther(t)
      PROVE  LowerOpen'
  <2>1. HasFile' = HasFile /\ lowerFiles' = lowerFiles
    BY <1>5 DEF GetOther, HasFile
  <2> QED
    BY <2>1 DEF LowerOpen
<1>6. ASSUME NEW t \in Threads, GetLocked(t)
      PROVE  LowerOpen'
  <2>1. \/ HasFile' = HasFile \cup {t} /\ lowerFiles' = lowerFiles + 1
        \/ HasFile' = HasFile /\ lowerFiles' = lowerFiles
    BY <1>6 DEF GetLocked, OpenFails, HasFile
  <2>2. lowerFiles \in Nat /\ Cardinality(HasFile) \in Nat
    BY Sizes
  <2>3. /\ Cardinality(HasFile \cup {t}) \in Nat
        /\ Cardinality(HasFile \cup {t}) <= Cardinality(HasFile) + 1
    BY Sizes, OneMore
  <2>4. CASE HasFile' = HasFile \cup {t} /\ lowerFiles' = lowerFiles + 1
    <3>1. lowerFiles + 1 >= Cardinality(HasFile \cup {t})
      BY <2>2, <2>3 DEF LowerOpen
    <3> QED
      BY <2>4, <3>1 DEF LowerOpen
  <2>5. CASE HasFile' = HasFile /\ lowerFiles' = lowerFiles
    BY <2>5 DEF LowerOpen
  <2> QED
    BY <2>1, <2>4, <2>5
<1>7. ASSUME NEW t \in Threads, PutClient(t)
      PROVE  LowerOpen'
  <2>1. t \in HasFile /\ HasFile' = HasFile \ {t} /\ lowerFiles' = lowerFiles - 1
    BY <1>7 DEF PutClient, Released, HasFile
  <2>2. lowerFiles \in Nat /\ Cardinality(HasFile) \in Nat
    BY Sizes
  <2>3. Cardinality(HasFile \ {t}) = Cardinality(HasFile) - 1
    BY <2>1, Sizes, FS_RemoveElement
  <2> QED
    BY <2>1, <2>2, <2>3 DEF LowerOpen
<1>8. ASSUME NEW t \in Threads, PutFast(t)
      PROVE  LowerOpen'
  <2>1. HasFile' \in {HasFile, HasFile \ {t}} /\ lowerFiles' = lowerFiles
    BY <1>8 DEF PutFast, Released, HasFile
  <2>2. lowerFiles \in Nat /\ Cardinality(HasFile) \in Nat
    BY Sizes
  <2>3. /\ Cardinality(HasFile \ {t}) \in Nat
        /\ Cardinality(HasFile \ {t}) <= Cardinality(HasFile)
    BY Sizes, OneMore
  <2> QED
    BY <2>1, <2>2, <2>3 DEF LowerOpen
<1>9. ASSUME NEW t \in Threads, PutLock(t)
      PROVE  LowerOpen'
  <2>1. HasFile' \in {HasFile, HasFile \ {t}} /\ lowerFiles' = lowerFiles
    BY <1>9 DEF PutLock, Released, HasFile
  <2>2. lowerFiles \in Nat /\ Cardinality(HasFile) \in Nat
    BY Sizes
  <2>3. /\ Cardinality(HasFile \ {t}) \in Nat
        /\ Cardinality(HasFile \ {t}) <= Cardinality(HasFile)
    BY Sizes, OneMore
  <2> QED
    BY <2>1, <2>2, <2>3 DEF LowerOpen
<1>10. ASSUME NEW t \in Threads, AskRelease(t)
      PROVE  LowerOpen'
  <2>1. HasFile' = HasFile /\ lowerFiles' = lowerFiles
    BY <1>10 DEF AskRelease, Unlock, Released, HasFile
  <2> QED
    BY <2>1 DEF LowerOpen
<1>11. ASSUME NEW t \in Threads, Timeout(t)
      PROVE  LowerOpen'
  <2>1. HasFile' = HasFile /\ lowerFiles' = lowerFiles
    BY <1>11 DEF Timeout, EndOpen, EndRelease, Unlock, Released, OpenFails, HasFile
  <2> QED
    BY <2>1 DEF LowerOpen
<1>12. ASSUME NEW w \in Workers, Serve(w)
      PROVE  LowerOpen'
  <2>1. HasFile' = HasFile /\ lowerFiles' = lowerFiles
    BY <1>12 DEF Serve, HasFile
  <2> QED
    BY <2>1 DEF LowerOpen
<1>13. ASSUME NEW w \in Workers, Answer(w)
      PROVE  LowerOpen'
  <2>1. HasFile' = HasFile /\ lowerFiles' = lowerFiles
    BY <1>13 DEF Answer, EndOpen, EndRelease, Unlock, Released, OpenFails, HasFile
  <2> QED
    BY <2>1 DEF LowerOpen
<1>14. ASSUME NEW d \in Daemons, Hello(d)
      PROVE  LowerOpen'
  <2>1. HasFile' = HasFile /\ lowerFiles' = lowerFiles
    BY <1>14 DEF Hello, HasFile
  <2> QED
    BY <2>1 DEF LowerOpen
<1>15. ASSUME Goodbye
      PROVE  LowerOpen'
  <2>1. HasFile' = HasFile /\ lowerFiles' = lowerFiles
    BY <1>15 DEF Goodbye, HasFile
  <2> QED
    BY <2>1 DEF LowerOpen
<1>16. CASE UNCHANGED vars
  BY <1>16 DEF vars, LowerOpen, HasFile
<1> QED
  BY <1>1, <1>2, <1>3, <1>4, <1>5, <1>6, <1>7, <1>8, <1>9, <1>10,
     <1>11, <1>12, <1>13, <1>14, <1>15, <1>16
  DEF Next, Kernel

\* The inductive invariant holds in every reachable state.
THEOREM Invariance == Spec => []IInv
<1>1. Init => IInv
  <2> SUFFICES ASSUME Init
               PROVE  IInv
    OBVIOUS
  <2>1. TypeOK
    <3>1. opens \in 0 .. MaxOpens
      BY BoundAssumption DEF Init
    <3>2. pc \in [Threads -> PCs] /\ serving \in [Workers -> Threads \cup {None, Late}]
      BY DEF Init, PCs
    <3>3. connect \in BOOLEAN /\ fileDecrypt \in BOOLEAN
      BY DEF Init
    <3>4. /\ clientPid \in Daemons \cup {None} /\ mutex \in Threads \cup {None}
          /\ pend \subseteq Threads /\ counted \subseteq Threads
          /\ mishaps \subseteq {"openFailed", "clientChanged"}
      BY DEF Init
    <3>5. /\ count \in Int /\ lowerFiles \in Nat /\ late \in Nat
          /\ access \in [Threads -> {"init", "prohibit", "encrypt", "decrypt"}]
      BY DEF Init
    <3> QED
      BY <3>1, <3>2, <3>3, <3>4, <3>5 DEF TypeOK
  <2>2. HoldInv
    BY NoneAssumption DEF Init, HoldInv
  <2>3. CountedInv
    BY DEF Init, CountedInv
  <2>4. CountExact
    BY FS_EmptySet DEF Init, CountExact
  <2>5. AloneInRelease
    BY DEF Init, AloneInRelease
  <2>6. HasFile = {}
    BY DEF Init, HasFile
  <2>7. LowerOpen
    BY <2>6, FS_EmptySet DEF Init, LowerOpen
  <2> QED
    BY <2>1, <2>2, <2>3, <2>4, <2>5, <2>7 DEF IInv
<1>2. IInv /\ [Next]_vars => IInv'
  BY TypeStep, HoldStep, CountedStep, CountStep, AloneStep, LowerStep DEF IInv
<1> QED
  BY <1>1, <1>2, PTL DEF Spec

\* Every variable keeps its type; lowerFiles never goes below zero.
THEOREM TypeCorrect == Spec => []TypeOK
<1>1. IInv => TypeOK
  BY DEF IInv
<1> QED
  BY <1>1, Invariance, PTL

\* lower_file_count is the number of counted files, as long as there was no mishap.
THEOREM CountIsExact == Spec => []CountExact
<1>1. IInv => CountExact
  BY DEF IInv
<1> QED
  BY <1>1, Invariance, PTL

\* The release upcall runs with nobody else having the file open.
THEOREM ReleaseAlone == Spec => []AloneInRelease
<1>1. IInv => AloneInRelease
  BY DEF IInv
<1> QED
  BY <1>1, Invariance, PTL

\* No lower file is put from under another opener, mishaps or not.
THEOREM NoEarlyPut == Spec => []LowerOpen
<1>1. IInv => LowerOpen
  BY DEF IInv
<1> QED
  BY <1>1, Invariance, PTL
=============================================================================
