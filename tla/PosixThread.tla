---------------------------- MODULE PosixThread ----------------------------
(***************************************************************************)
(* The thread object of PThread/src/PosixThread.  The owner of the object  *)
(* configures, starts, joins, detaches and cancels it; the thread itself   *)
(* runs run() and then the rest of runFunction.  Both write                *)
(* _stPThreadStatus and no mutex protects it, so that every step below is  *)
(* one read or one write of it.                                            *)
(***************************************************************************)
EXTENDS Integers

CONSTANTS Attributes,  \* what setPriority, setStackSize, ... write
          MaxRuns      \* a bound on the runs of one object

ASSUME ThreadAssumption ==
    /\ MaxRuns \in Nat
    /\ {"priority", "inheritScheduling", "schedulingPolicy", "stackSize"} \subseteq Attributes

VARIABLES thStatus,   \* _stPThreadStatus
          thPc,       \* where the thread is
          thOwner,    \* where the owner is in join and detach
          thKernel,   \* what the operating system keeps of the last thread
          thSet,      \* the attributes set in _pThreadAttribute
          thRuns      \* the runs begun

threadVars == <<thStatus, thPc, thOwner, thKernel, thSet, thRuns>>

ThreadStatuses ==
    {"BUILDED", "INITIALIZED", "STARTED", "DETACHED", "STARTED_AND_JOINED",
     "INITIALIZEDAGAINAFTERRUNNING", "DELETED"}

Idle == {"INITIALIZED", "INITIALIZEDAGAINAFTERRUNNING"}

ThreadInit ==
    /\ thStatus = "BUILDED"
    /\ thPc = "none"
    /\ thOwner = "idle"
    /\ thKernel = "none"
    /\ thSet = {}
    /\ thRuns = 0

\* The owner calls one method at a time.  It detaches an object it no longer
\* refers to (PosixThread.h:650), which deletes itself.
OwnerFree == thOwner = "idle" /\ thStatus \notin {"DETACHED", "DELETED"}

InitThread ==
    /\ OwnerFree /\ thStatus = "BUILDED"
    /\ thStatus' = "INITIALIZED"
    /\ thSet' = {}
    /\ UNCHANGED <<thPc, thOwner, thKernel, thRuns>>

FinishThread ==
    /\ OwnerFree /\ thStatus \in Idle
    /\ thStatus' = "BUILDED"
    /\ UNCHANGED <<thPc, thOwner, thKernel, thSet, thRuns>>

SetAttribute(a) ==
    /\ OwnerFree /\ thStatus \in Idle
    /\ thSet' = thSet \cup {a}
    /\ UNCHANGED <<thStatus, thPc, thOwner, thKernel, thRuns>>

SetPriority == SetAttribute("priority")

SetInheritScheduling == SetAttribute("inheritScheduling")

SetSchedulingPolicy == SetAttribute("schedulingPolicy")

SetStackSize == SetAttribute("stackSize")

\* start writes the status before pthread_create, and takes it back when
\* pthread_create fails.
StartThread(toBeDetached) ==
    /\ OwnerFree /\ thStatus \in Idle /\ thRuns < MaxRuns
    /\ \/ /\ thStatus' = IF toBeDetached THEN "DETACHED" ELSE "STARTED"
          /\ thKernel' = IF toBeDetached THEN "released" ELSE "kept"
          /\ thPc' = "running"
          /\ thRuns' = thRuns + 1
       \/ thStatus' = "INITIALIZED" /\ UNCHANGED <<thKernel, thPc, thRuns>>
    /\ UNCHANGED <<thOwner, thSet>>

\* Mutant: the status is written when run() returns, before the rest of runFunction.
RunReturnsWithStatus ==
    /\ thPc = "running"
    /\ thPc' = "returned"
    /\ thStatus' = IF thStatus = "STARTED" THEN "INITIALIZEDAGAINAFTERRUNNING"
                   ELSE thStatus
    /\ UNCHANGED <<thOwner, thKernel, thSet, thRuns>>

\* run() returns to runFunction.
RunReturns ==
    /\ thPc = "running"
    /\ thPc' = "returned"
    /\ UNCHANGED <<thStatus, thOwner, thKernel, thSet, thRuns>>

\* A detached object finishes and deletes itself.
EndDetached ==
    /\ thPc = "returned" /\ thStatus = "DETACHED"
    /\ thStatus' = "DELETED"
    /\ thPc' = "ended"
    /\ UNCHANGED <<thOwner, thKernel, thSet, thRuns>>

\* Lines 66 and 76 read the status twice.
EndReadsStatus ==
    /\ thPc = "returned" /\ thStatus # "DETACHED"
    /\ thPc' = "notDetached"
    /\ UNCHANGED <<thStatus, thOwner, thKernel, thSet, thRuns>>

DetachItself ==
    /\ thPc = "notDetached"
    /\ thKernel' = IF thStatus = "STARTED" THEN "released" ELSE thKernel
    /\ thPc' = "leaving"
    /\ UNCHANGED <<thStatus, thOwner, thSet, thRuns>>

EndRun ==
    /\ thPc = "leaving"
    /\ thStatus' = "INITIALIZEDAGAINAFTERRUNNING"
    /\ thPc' = "ended"
    /\ UNCHANGED <<thOwner, thKernel, thSet, thRuns>>

runFunction == EndDetached \/ EndReadsStatus \/ DetachItself \/ EndRun

JoinChecks ==
    /\ OwnerFree /\ thStatus = "STARTED"
    /\ thOwner' = "join"
    /\ UNCHANGED <<thStatus, thPc, thKernel, thSet, thRuns>>

JoinMarks ==
    /\ thOwner = "join"
    /\ thStatus' = "STARTED_AND_JOINED"
    /\ thOwner' = "pthread_join"
    /\ UNCHANGED <<thPc, thKernel, thSet, thRuns>>

\* pthread_join waits for the end of a joinable thread, and fails for one
\* that has detached itself.
JoinWaits ==
    /\ thOwner = "pthread_join"
    /\ \/ /\ thKernel = "released"
          /\ thStatus' = "STARTED"
          /\ UNCHANGED thKernel
       \/ /\ thKernel = "kept" /\ thPc = "ended"
          /\ thKernel' = "released"
          /\ UNCHANGED thStatus
    /\ thOwner' = "idle"
    /\ UNCHANGED <<thPc, thSet, thRuns>>

joinThread == JoinChecks \/ JoinMarks \/ JoinWaits

\* pthread_detach of a thread that has detached itself fails.
DetachChecks ==
    /\ OwnerFree /\ thStatus = "STARTED"
    /\ \/ thKernel = "kept" /\ thKernel' = "released" /\ thOwner' = "detach"
       \/ thKernel = "released" /\ UNCHANGED <<thKernel, thOwner>>
    /\ UNCHANGED <<thStatus, thPc, thSet, thRuns>>

DetachMarks ==
    /\ thOwner = "detach"
    /\ thStatus' = "DETACHED"
    /\ thOwner' = "idle"
    /\ UNCHANGED <<thPc, thKernel, thSet, thRuns>>

detachThread == DetachChecks \/ DetachMarks

\* A cancelled thread ends where it is, without the rest of runFunction.
CancelThread ==
    /\ thStatus = "STARTED"
    /\ thPc' = IF thPc = "running" THEN "ended" ELSE thPc
    /\ UNCHANGED <<thStatus, thOwner, thKernel, thSet, thRuns>>

OwnerNext ==
    \/ InitThread \/ FinishThread
    \/ SetPriority \/ SetInheritScheduling
    \/ SetSchedulingPolicy \/ SetStackSize
    \/ \E d \in BOOLEAN : StartThread(d)
    \/ joinThread \/ detachThread

ThreadNext == OwnerNext \/ CancelThread \/ RunReturns \/ runFunction

ThreadSpec == ThreadInit /\ [][ThreadNext]_threadVars

-----------------------------------------------------------------------------

\* The variables have the values the code gives them.
ThreadTypeOK ==
    /\ thStatus \in ThreadStatuses
    /\ thPc \in {"none", "running", "returned", "notDetached", "leaving", "ended"}
    /\ thOwner \in {"idle", "join", "pthread_join", "detach"}
    /\ thKernel \in {"none", "kept", "released"}
    /\ thSet \subseteq Attributes
    /\ thRuns \in 0..MaxRuns

\* No memory leak (PosixThread.h:154-163): whatever the owner does at the
\* same time, the operating system keeps nothing of a thread that has ended
\* once the owner is out of join and detach.  A cancelled thread, which skips
\* the rest of runFunction, waits for a join.
ThreadsReleased ==
    thPc = "ended" /\ thOwner = "idle" /\ thStatus # "STARTED"
        => thKernel = "released"

\* One object is never run by two threads: start is refused until the last
\* thread has taken its last step.
OneThreadPerObject ==
    [][thRuns' > thRuns => thPc \in {"none", "ended"}]_threadVars

\* "When the thread is finished, the state returns to INITIALIZED"
\* (PosixThread.h:166-167), unless it was detached and has deleted itself.
FinishedThreadIsInitialized ==
    thPc = "ended" /\ thOwner = "idle"
        => thStatus \in Idle \cup {"BUILDED", "DELETED"}

=============================================================================
