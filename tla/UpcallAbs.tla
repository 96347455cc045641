------------------------------ MODULE UpcallAbs ------------------------------
(***************************************************************************)
(* What an upcall promises its caller (the users of user_com.h): a request *)
(* gets an id of its own, at most one answer is ever given to an id, and   *)
(* the call returns either a failure or the answer given to its own id.    *)
(* The transport, the locks, the time limit and the daemon's life are all  *)
(* left out; Upcall implements this specification.                         *)
(***************************************************************************)
EXTENDS Integers

CONSTANTS Threads, Daemons, App, IdSpace

VARIABLES
    last,       \* the last id handed out
    want,       \* want[t]: the id t waits on, 0 when it has no request
    answered,   \* answers given so far
    out         \* out[t]: what the last call of t returned

absVars == <<last, want, answered, out>>

Answers   == [id : 1 .. (IdSpace - 1), by : Daemons \cup {0}]
NoResult  == [id |-> 0, by |-> 0]
Failure   == [id |-> 0, by |-> App]

Init ==
    /\ last = 1
    /\ want = [t \in Threads |-> 0]
    /\ answered = {}
    /\ out = [t \in Threads |-> NoResult]

\* A request gets an id that no earlier request had.
Ask(t) ==
    /\ want[t] = 0
    /\ last + 1 < IdSpace
    /\ last' = last + 1
    /\ want' = [want EXCEPT ![t] = last']
    /\ UNCHANGED <<answered, out>>

\* A call ends without a request having been made.
Refuse(t) ==
    /\ want[t] = 0
    /\ out' = [out EXCEPT ![t] = Failure]
    /\ UNCHANGED <<last, want, answered>>

\* One answer at most to a request that was made.
Reply(a) ==
    /\ a.id \in 2 .. last
    /\ \A b \in answered : b.id # a.id
    /\ answered' = answered \cup {a}
    /\ UNCHANGED <<last, want, out>>

\* The call returns: a failure, or the answer to its own request.
Finish(t) ==
    /\ want[t] # 0
    /\ want' = [want EXCEPT ![t] = 0]
    /\ \E r \in {Failure} \cup {a \in answered : a.id = want[t]} :
         out' = [out EXCEPT ![t] = r]
    /\ UNCHANGED <<last, answered>>

Next ==
    \/ \E t \in Threads : Ask(t) \/ Refuse(t) \/ Finish(t)
    \/ \E a \in Answers : Reply(a)

Spec == Init /\ [][Next]_absVars
=============================================================================
