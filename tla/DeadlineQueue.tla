----------------------------- MODULE DeadlineQueue -----------------------------
(***************************************************************************)
(* What an events set promises to its clients, without mutex, multimap,    *)
(* condition variables or waiting: for every destination a pool of pending *)
(* events, each with the instant it is due, and the answer that every      *)
(* client got last.                                                        *)
(***************************************************************************)
EXTENDS Integers

CONSTANTS Clients, Destinations, Events, MaxTime

VARIABLES now,      \* the instant
          pending,  \* per destination, the events put and not taken back
          due,      \* per event, the instant from which it may be delivered
          answer    \* what the last operation of every client gave back

vars == <<now, pending, due, answer>>

Time == 0..MaxTime

Void  == [outcome |-> "void"]
Null  == [outcome |-> "null"]
Throw == [outcome |-> "throw"]
Event(e, expired) == [outcome |-> "event", event |-> e, eventExpired |-> expired]

Answer(c, r) == answer' = [answer EXCEPT ![c] = r]

IsPending(e) == \E d \in Destinations : e \in pending[d]

IsFirst(e, d) == e \in pending[d] /\ \A f \in pending[d] : due[e] <= due[f]

Init ==
    /\ now = 0
    /\ pending = [d \in Destinations |-> {}]
    /\ due = [e \in Events |-> 0]
    /\ answer = [c \in Clients |-> Void]

Pass ==
    /\ now < MaxTime
    /\ now' = now + 1
    /\ UNCHANGED <<pending, due, answer>>

\* A client starts an operation that may take long.
Ask(c) ==
    /\ Answer(c, Void)
    /\ UNCHANGED <<now, pending, due>>

Put(c, d, e, x) ==
    /\ ~IsPending(e)
    /\ pending' = [pending EXCEPT ![d] = @ \cup {e}]
    /\ due' = [due EXCEPT ![e] = x]
    /\ Answer(c, Void)
    /\ UNCHANGED now

\* An event that cannot be put has been given its new instant all the same.
PutRefused(c, e, x) ==
    /\ ~IsPending(e)
    /\ due' = [due EXCEPT ![e] = x]
    /\ Answer(c, Throw)
    /\ UNCHANGED <<now, pending>>

Fail(c) ==
    /\ Answer(c, Throw)
    /\ UNCHANGED <<now, pending, due>>

Cancel(c, d, e) ==
    /\ e \in pending[d]
    /\ pending' = [pending EXCEPT ![d] = @ \ {e}]
    /\ Answer(c, Void)
    /\ UNCHANGED <<now, due>>

Peek(c, d, e) ==
    /\ IsFirst(e, d)
    /\ Answer(c, Event(e, due[e] <= now))
    /\ UNCHANGED <<now, pending, due>>

Deliver(c, d, e) ==
    /\ IsFirst(e, d)
    /\ due[e] <= now
    /\ pending' = [pending EXCEPT ![d] = @ \ {e}]
    /\ Answer(c, Event(e, TRUE))
    /\ UNCHANGED <<now, due>>

\* A client is told that there is nothing for it only when nothing is due.
Nothing(c, d) ==
    /\ \A e \in pending[d] : due[e] > now
    /\ Answer(c, Null)
    /\ UNCHANGED <<now, pending, due>>

Next ==
    \/ Pass
    \/ \E c \in Clients :
        \/ Ask(c)
        \/ Fail(c)
        \/ \E d \in Destinations : Nothing(c, d)
        \/ \E e \in Events, x \in Time : PutRefused(c, e, x)
        \/ \E d \in Destinations, e \in Events :
            \/ \E x \in Time : Put(c, d, e, x)
            \/ Cancel(c, d, e)
            \/ Peek(c, d, e)
            \/ Deliver(c, d, e)

Spec == Init /\ [][Next]_vars
=============================================================================
