---------------------------- MODULE LoadBalancer ----------------------------
(***************************************************************************)
(* The load balancer of LoadBalancer/src/LoadBalancer.  init reads groups  *)
(* of delivery modules from the configuration, every module once even when *)
(* several groups name it.  The thread of the object probes the modules    *)
(* period after period, clients ask for an available module of a group and *)
(* get the modules of the group in turn.                                   *)
(***************************************************************************)
EXTENDS Integers, Sequences, FiniteSets

Vector == INSTANCE SequencesExt  \* std::vector: ToSet

CONSTANTS LbModules,    \* the modules a configuration can describe
          LbConfigs,    \* sequences of the items of a section
          NoGroup,      \* the name of an item that is no "Modules_" item
          LbWithURL,    \* the modules that are asked for their requests
          LbRetry,      \* 5 * 60: how long a module in timeout is left alone
          LbPatience,   \* how long cancel waits for the thread
          LbMaxTime     \* a bound on the clock

IsGroup(item) == item.group # NoGroup

\* An item with six values for every module it describes, or with a number of
\* values that init refuses.
IsItem(item) ==
    /\ item.values \in Nat /\ item.modules \in Seq(LbModules)
    /\ IsGroup(item) /\ item.values % 6 = 0 => item.values = 6 * Len(item.modules)

ASSUME LbAssumption ==
    /\ LbWithURL \subseteq LbModules
    /\ LbRetry \in Nat /\ LbPatience \in Nat /\ LbMaxTime \in Nat
    /\ \A config \in LbConfigs : /\ Len(config) \in Nat
                                 /\ \A i \in 1..Len(config) : IsItem(config[i])

VARIABLES lbConfig,    \* the items of the section: group, values, modules
          lbPc,        \* where the owner is
          lbItem,      \* lItemIndex
          lbAll,       \* _vModulesForAllGroups
          lbGroups,    \* _pgmGroupsModules: name and _vModules
          lbLast,      \* _itLastModuleSelected of every group
          lbHeap,      \* the modules allocated
          lbLocks,     \* the groups whose mutex is initialized
          lbStatus,    \* of a module: the last result, whether a timeout, when
          lbHeld,      \* who holds _mtSocketStatus of a module
          lbGroupHeld, \* the groups whose _mtLastModuleSelected is held
          lbShutdown,  \* _bShutdown
          lbThread,    \* where the thread of the object is
          lbCheck,     \* the place in checkAllDeliveryModules
          lbClient,    \* a call of getAvailableModule
          lbSince,     \* history: the places selected or down since a place
          lbNow,       \* the clock
          lbAsked      \* when cancel was called

lbInitVars == <<lbConfig, lbPc, lbItem, lbAll, lbGroups, lbLast, lbHeap, lbLocks>>
lbWorkVars == <<lbStatus, lbHeld, lbGroupHeld, lbShutdown, lbThread, lbCheck,
                lbClient, lbSince, lbNow, lbAsked>>
lbVars == <<lbInitVars, lbWorkVars>>

Unknown == [ok |-> FALSE, timeout |-> FALSE, at |-> 0]
NoCall == [at |-> "none", group |-> 0, tried |-> 0, place |-> 0]

LbInit ==
    /\ lbConfig \in LbConfigs
    /\ lbPc = "start" /\ lbItem = 0
    /\ lbAll = <<>> /\ lbGroups = <<>> /\ lbLast = <<>>
    /\ lbHeap = {} /\ lbLocks = {}
    /\ lbStatus = [m \in LbModules |-> Unknown]
    /\ lbHeld = [m \in LbModules |-> "free"]
    /\ lbGroupHeld = {}
    /\ lbShutdown = FALSE
    /\ lbThread = "none"
    /\ lbCheck = 0
    /\ lbClient = NoCall
    /\ lbSince = <<>>
    /\ lbNow = 0
    /\ lbAsked = 0

(***************************************************************************)
(* init: every call of the configuration, of a buffer or of a mutex may    *)
(* fail, and then everything built so far is given back.                   *)
(***************************************************************************)
\* The blocks that end every failing branch of init.
UndoInit ==
    /\ lbPc' = "failed"
    /\ lbAll' = <<>> /\ lbGroups' = <<>> /\ lbLast' = <<>>
    /\ lbHeap' = lbHeap \ Vector!ToSet(lbAll)
    /\ lbLocks' = {}
    /\ UNCHANGED <<lbConfig, lbItem, lbWorkVars>>

At(from) == lbPc = from /\ UNCHANGED <<lbConfig, lbWorkVars>>
Fails(from) == lbPc = from /\ UndoInit

\* The parameters of the section; nothing is allocated yet.
InitParameters ==
    \/ At("start") /\ lbPc' = "count" /\ UNCHANGED <<lbItem, lbAll, lbGroups, lbLast, lbHeap, lbLocks>>
    \/ Fails("start")

\* The first pass over the items counts the groups.  Without one init returns
\* without an error and before it makes a mutex or inits the thread: start,
\* cancel and finish then refuse the object and no group is found in it.
CountGroups ==
    \/ /\ At("count")
       /\ lbPc' = IF \E i \in 1..Len(lbConfig) : IsGroup(lbConfig[i])
                  THEN "item" ELSE "noGroups"
       /\ lbItem' = 1
       /\ UNCHANGED <<lbAll, lbGroups, lbLast, lbHeap, lbLocks>>
    \/ Fails("count")

\* The second pass looks for the next "Modules_" item.
NextGroupItem ==
    \/ /\ At("item")
       /\ LET later == {i \in lbItem..Len(lbConfig) : IsGroup(lbConfig[i])}
          IN IF later = {} THEN lbPc' = "section" /\ UNCHANGED lbItem
             ELSE /\ lbItem' = CHOOSE i \in later : \A j \in later : i <= j
                  /\ lbPc' = "values"
       /\ UNCHANGED <<lbAll, lbGroups, lbLast, lbHeap, lbLocks>>
    \/ Fails("item")

\* The number of values, which must be a multiple of 6, and the new group.
ItemValues ==
    \/ /\ At("values") /\ lbConfig[lbItem].values % 6 = 0
       /\ lbGroups' = Append(lbGroups, [name |-> lbConfig[lbItem].group, modules |-> <<>>])
       /\ lbLast' = Append(lbLast, 1)
       /\ lbPc' = IF lbConfig[lbItem].values = 0 THEN "itemFinish" ELSE "privateHost"
       /\ UNCHANGED <<lbItem, lbAll, lbHeap, lbLocks>>
    \/ Fails("values")

Reads(from, to) ==
    \/ At(from) /\ lbPc' = to /\ UNCHANGED <<lbItem, lbAll, lbGroups, lbLast, lbHeap, lbLocks>>
    \/ Fails(from)

\* The six values of a module; a value may be missing or too long.
ReadPrivateHost == Reads("privateHost", "privatePort")
ReadPrivatePort == Reads("privatePort", "publicHost")
ReadPublicHost == Reads("publicHost", "publicPort")
ReadPublicPort == Reads("publicPort", "url")
ReadURL == Reads("url", "maxRequests")
ReadMaxRequests == Reads("maxRequests", "insert")

Group == Len(lbGroups)
Described == lbConfig[lbItem].modules[Len(lbGroups[Group].modules) + 1]

IntoGroup(m) == lbGroups' = [lbGroups EXCEPT ![Group].modules = Append(@, m)]

AfterModule ==
    lbPc' = IF 6 * (Len(lbGroups[Group].modules) + 1) < lbConfig[lbItem].values
            THEN "privateHost" ELSE "groupMutex"

\* A module that another group or an earlier place has described is shared.
FindModule ==
    /\ At("insert") /\ Described \in Vector!ToSet(lbAll)
    /\ IntoGroup(Described) /\ AfterModule
    /\ UNCHANGED <<lbItem, lbAll, lbLast, lbHeap, lbLocks>>

\* A new module, unless there is no memory or no mutex for it.
NewModule ==
    \/ /\ At("insert") /\ Described \notin Vector!ToSet(lbAll)
       /\ lbHeap' = lbHeap \cup {Described}
       /\ lbAll' = Append(lbAll, Described)
       /\ IntoGroup(Described) /\ AfterModule
       /\ UNCHANGED <<lbItem, lbLast, lbLocks>>
    \/ Fails("insert") /\ Described \notin Vector!ToSet(lbAll)

\* The mutex of the group and its iterator.
GroupMutex ==
    \/ /\ At("groupMutex")
       /\ lbLocks' = lbLocks \cup {Group}
       /\ lbPc' = "itemFinish"
       /\ UNCHANGED <<lbItem, lbAll, lbGroups, lbLast, lbHeap>>
    \/ Fails("groupMutex")

ItemFinish ==
    \/ /\ At("itemFinish")
       /\ lbItem' = lbItem + 1
       /\ lbPc' = "item"
       /\ UNCHANGED <<lbAll, lbGroups, lbLast, lbHeap, lbLocks>>
    \/ Fails("itemFinish")

SectionFinish == Reads("section", "mutex")

\* _mtLoadBalancer; the first check of the modules follows.
InitMutex ==
    \/ /\ lbPc = "mutex"
       /\ lbPc' = "check" /\ lbCheck' = 1
       /\ lbShutdown' = FALSE
       /\ lbSince' = [g \in 1..Len(lbGroups) |->
                       [p \in 1..Len(lbGroups[g].modules) |-> 1..Len(lbGroups[g].modules)]]
       /\ UNCHANGED <<lbConfig, lbItem, lbAll, lbGroups, lbLast, lbHeap, lbLocks, lbStatus, lbHeld,
                      lbGroupHeld, lbThread, lbClient, lbNow, lbAsked>>
    \/ Fails("mutex")

InitThread ==
    \/ /\ At("check") /\ lbCheck = Len(lbAll) + 1
       /\ lbPc' = "ready"
       /\ UNCHANGED <<lbItem, lbAll, lbGroups, lbLast, lbHeap, lbLocks>>
    \/ Fails("check") /\ lbCheck = Len(lbAll) + 1

LbInitNext ==
    \/ InitParameters \/ CountGroups \/ NextGroupItem \/ ItemValues
    \/ ReadPrivateHost \/ ReadPrivatePort \/ ReadPublicHost \/ ReadPublicPort
    \/ ReadURL \/ ReadMaxRequests \/ FindModule \/ NewModule
    \/ GroupMutex \/ ItemFinish \/ SectionFinish \/ InitMutex \/ InitThread

(***************************************************************************)
(* checkAllDeliveryModules, called by init and by run.                     *)
(***************************************************************************)
Checking == lbPc = "check" \/ lbThread = "check"
Checked == lbAll[lbCheck]

Places(m, g) == {p \in 1..Len(lbGroups[g].modules) : lbGroups[g].modules[p] = m}

\* The result is written under the mutex of the module, which is released.
CheckEnds(ok, timeout) ==
    /\ lbStatus' = [lbStatus EXCEPT ![Checked].ok = ok, ![Checked].timeout = timeout]
    /\ lbHeld' = [lbHeld EXCEPT ![Checked] = "free"]
    /\ lbCheck' = lbCheck + 1
    /\ lbSince' = IF ok THEN lbSince
                  ELSE [g \in DOMAIN lbSince |-> [p \in DOMAIN lbSince[g] |->
                          lbSince[g][p] \cup Places(Checked, g)]]

CheckOther == UNCHANGED <<lbInitVars, lbGroupHeld, lbShutdown, lbThread, lbClient, lbNow, lbAsked>>

CheckLocks ==
    /\ Checking /\ lbCheck \in 1..Len(lbAll) /\ lbHeld[Checked] = "free"
    /\ lbHeld' = [lbHeld EXCEPT ![Checked] = "check"]
    /\ UNCHANGED <<lbStatus, lbCheck, lbSince>> /\ CheckOther

Locked == Checking /\ lbCheck \in 1..Len(lbAll) /\ lbHeld[Checked] = "check"

\* Mutant: a module that is left alone stays locked.
CheckRecentKeepsLock ==
    /\ Locked /\ lbStatus[Checked].timeout /\ lbNow - lbStatus[Checked].at <= LbRetry
    /\ lbCheck' = lbCheck + 1
    /\ UNCHANGED <<lbStatus, lbHeld, lbSince>> /\ CheckOther

\* A module in timeout is left alone for five minutes.
CheckRecent ==
    /\ Locked /\ lbStatus[Checked].timeout /\ lbNow - lbStatus[Checked].at <= LbRetry
    /\ lbHeld' = [lbHeld EXCEPT ![Checked] = "free"]
    /\ lbCheck' = lbCheck + 1
    /\ UNCHANGED <<lbStatus, lbSince>> /\ CheckOther

CheckBegins ==
    /\ Locked /\ ~(lbStatus[Checked].timeout /\ lbNow - lbStatus[Checked].at <= LbRetry)
    /\ lbStatus' = [lbStatus EXCEPT ![Checked].at = lbNow]
    /\ lbHeld' = [lbHeld EXCEPT ![Checked] = "probe"]
    /\ UNCHANGED <<lbCheck, lbSince>> /\ CheckOther

Probing == Checking /\ lbCheck \in 1..Len(lbAll) /\ lbHeld[Checked] = "probe"

\* The number of requests is asked for: the get fails, is late, answers a
\* number below the maximum or not, or something without a number.
AskRequests ==
    /\ Probing /\ Checked \in LbWithURL
    /\ \E answer \in {"failed", "late", "below", "full", "noNumber"} :
          CheckEnds(answer \in {"below", "noNumber"}, answer = "late")
    /\ CheckOther

\* Or a connection is made and closed.
Ping ==
    /\ Probing /\ Checked \notin LbWithURL
    /\ \E answer \in {"failed", "late", "connected", "notClosed"} :
          CheckEnds(answer = "connected", answer = "late")
    /\ CheckOther

checkAllDeliveryModules == CheckLocks \/ CheckRecent \/ CheckBegins \/ AskRequests \/ Ping

(***************************************************************************)
(* getAvailableModule                                                      *)
(***************************************************************************)
ClientOther == UNCHANGED <<lbConfig, lbPc, lbItem, lbAll, lbGroups, lbHeap, lbLocks, lbStatus,
                           lbHeld, lbShutdown, lbThread, lbCheck, lbNow, lbAsked>>

\* A group without modules has no mutex, and the call fails.
Ask(g) ==
    /\ lbPc = "ready" /\ lbClient = NoCall /\ g \in 1..Len(lbGroups)
    /\ g \in lbLocks /\ g \notin lbGroupHeld
    /\ lbClient' = [at |-> "scan", group |-> g, tried |-> 0, place |-> 0]
    /\ lbGroupHeld' = lbGroupHeld \cup {g}
    /\ UNCHANGED <<lbLast, lbSince>> /\ ClientOther

Candidate == lbGroups[lbClient.group].modules[lbLast[lbClient.group]]
NextPlace ==
    IF lbLast[lbClient.group] = Len(lbGroups[lbClient.group].modules) THEN 1
    ELSE lbLast[lbClient.group] + 1

Scanning ==
    /\ lbClient.at = "scan"
    /\ lbClient.tried < Len(lbGroups[lbClient.group].modules)
    /\ lbHeld[Candidate] = "free"

Down == {p \in 1..Len(lbGroups[lbClient.group].modules) :
            ~lbStatus[lbGroups[lbClient.group].modules[p]].ok}

Selected(next) ==
    LET g == lbClient.group  p == lbLast[g] IN
    /\ Scanning /\ lbStatus[Candidate].ok
    /\ lbClient' = [lbClient EXCEPT !.at = "return", !.place = p]
    /\ lbLast' = [lbLast EXCEPT ![g] = next]
    /\ lbSince' = [lbSince EXCEPT ![g] =
                    [q \in DOMAIN @ |-> IF q = p THEN Down ELSE @[q] \cup {p}]]
    /\ UNCHANGED lbGroupHeld /\ ClientOther

\* Mutant: the call returns the module without moving the iterator.
SelectStays == Selected(lbLast[lbClient.group])

Select == Selected(NextPlace)

\* The name of the host does not fit: the iterator stays where it is.
SelectTooLong ==
    /\ Scanning /\ lbStatus[Candidate].ok
    /\ lbClient' = [lbClient EXCEPT !.at = "return"]
    /\ UNCHANGED <<lbLast, lbSince, lbGroupHeld>> /\ ClientOther

Skip ==
    /\ Scanning /\ ~lbStatus[Candidate].ok
    /\ lbClient' = [lbClient EXCEPT !.tried = @ + 1]
    /\ lbLast' = [lbLast EXCEPT ![lbClient.group] = NextPlace]
    /\ UNCHANGED <<lbSince, lbGroupHeld>> /\ ClientOther

Answer ==
    /\ \/ lbClient.at = "return"
       \/ lbClient.at = "scan" /\ lbClient.tried = Len(lbGroups[lbClient.group].modules)
    /\ lbGroupHeld' = lbGroupHeld \ {lbClient.group}
    /\ lbClient' = NoCall
    /\ UNCHANGED <<lbLast, lbSince>> /\ ClientOther

getAvailableModule == Select \/ SelectTooLong \/ Skip \/ Answer

(***************************************************************************)
(* The thread and its end.                                                 *)
(***************************************************************************)
ThreadOther == UNCHANGED <<lbConfig, lbItem, lbAll, lbGroups, lbLast, lbHeap, lbLocks, lbStatus,
                           lbHeld, lbGroupHeld, lbClient, lbSince>>

StartLb ==
    /\ lbPc = "ready" /\ lbThread = "none"
    /\ lbThread' = "begin"
    /\ UNCHANGED <<lbPc, lbShutdown, lbCheck, lbNow, lbAsked>> /\ ThreadOther

\* run forgets an earlier request to stop.
RunBegins ==
    /\ lbThread = "begin"
    /\ lbShutdown' = FALSE
    /\ lbThread' = "sleep"
    /\ UNCHANGED <<lbPc, lbCheck, lbNow, lbAsked>> /\ ThreadOther

RunSleeps ==
    /\ lbThread = "sleep"
    /\ lbThread' = "check" /\ lbCheck' = 1
    /\ UNCHANGED <<lbPc, lbShutdown, lbNow, lbAsked>> /\ ThreadOther

RunLoops ==
    /\ lbThread = "check" /\ lbCheck = Len(lbAll) + 1
    /\ lbThread' = IF lbShutdown THEN "ended" ELSE "sleep"
    /\ UNCHANGED <<lbPc, lbShutdown, lbCheck, lbNow, lbAsked>> /\ ThreadOther

runLb == RunBegins \/ RunSleeps \/ RunLoops

Alive == lbThread \in {"begin", "sleep", "check"}

\* cancel asks, waits, and after its patience ends the thread at a
\* cancellation point: a mutex the thread holds stays held.
CancelAsks ==
    /\ lbPc = "ready" /\ lbThread # "none" /\ lbNow + LbPatience <= LbMaxTime
    /\ lbPc' = "cancel" /\ lbShutdown' = TRUE /\ lbAsked' = lbNow
    /\ UNCHANGED <<lbThread, lbCheck, lbNow>> /\ ThreadOther

\* cancel gives up after its patience.
CancelGivesUp ==
    /\ lbPc = "cancel"
    /\ ~Alive \/ lbNow - lbAsked >= LbPatience
    /\ lbPc' = "ready"
    /\ UNCHANGED <<lbThread, lbShutdown, lbCheck, lbNow, lbAsked>> /\ ThreadOther

CancelEnds ==
    /\ lbPc = "cancel"
    /\ ~Alive \/ lbNow - lbAsked >= LbPatience
    /\ lbThread' = IF Alive THEN "cancelled" ELSE lbThread
    /\ lbPc' = "ready"
    /\ UNCHANGED <<lbShutdown, lbCheck, lbNow, lbAsked>> /\ ThreadOther

cancelLb == CancelAsks \/ CancelEnds

\* finish refuses while the thread runs; no client is inside.
finishLb ==
    /\ lbPc = "ready" /\ ~Alive /\ lbClient = NoCall
    /\ lbPc' = "finished"
    /\ lbAll' = <<>> /\ lbGroups' = <<>> /\ lbLast' = <<>> /\ lbSince' = <<>>
    /\ lbHeap' = lbHeap \ Vector!ToSet(lbAll)
    /\ lbLocks' = {}
    /\ UNCHANGED <<lbConfig, lbItem, lbStatus, lbHeld, lbGroupHeld, lbShutdown, lbThread,
                   lbCheck, lbClient, lbNow, lbAsked>>

LbTick ==
    /\ lbPc \in {"check", "ready", "cancel"} /\ lbNow < LbMaxTime
    /\ lbNow' = lbNow + 1
    /\ UNCHANGED <<lbInitVars, lbStatus, lbHeld, lbGroupHeld, lbShutdown, lbThread, lbCheck,
                   lbClient, lbSince, lbAsked>>

LbNext ==
    \/ LbInitNext
    \/ checkAllDeliveryModules
    \/ \E g \in 1..Len(lbGroups) : Ask(g)
    \/ getAvailableModule
    \/ StartLb \/ runLb \/ cancelLb \/ finishLb \/ LbTick

LbSpec == LbInit /\ [][LbNext]_lbVars

LbFairness ==
    /\ WF_lbVars(checkAllDeliveryModules) /\ SF_lbVars(getAvailableModule)
    /\ WF_lbVars(runLb) /\ WF_lbVars(CancelEnds) /\ WF_lbVars(LbTick)

(***************************************************************************)
(* Properties                                                              *)
(***************************************************************************)
LbTypeOK ==
    /\ lbPc \in {"start", "count", "item", "values", "privateHost", "privatePort", "publicHost",
                 "publicPort", "url", "maxRequests", "insert", "groupMutex", "itemFinish",
                 "section", "mutex", "check", "ready", "cancel", "finished", "failed",
                 "noGroups"}
    /\ lbHeap \subseteq LbModules
    /\ Vector!ToSet(lbAll) \subseteq LbModules
    /\ lbHeld \in [LbModules -> {"free", "check", "probe"}]
    /\ lbThread \in {"none", "begin", "sleep", "check", "ended", "cancelled"}
    /\ lbNow \in 0..LbMaxTime
    /\ \A g \in 1..Len(lbGroups) : lbGroups[g].modules # <<>> => lbLast[g] \in 1..Len(lbGroups[g].modules)

\* A module that several groups name is allocated once and is freed with the
\* list of all the modules: whatever call of init fails and after finish, what
\* is allocated is what that list names, and no group names a freed module.
ModulesOwned ==
    /\ lbHeap = Vector!ToSet(lbAll) /\ Cardinality(lbHeap) = Len(lbAll)
    /\ \A g \in 1..Len(lbGroups) : Vector!ToSet(lbGroups[g].modules) \subseteq lbHeap

\* getAvailableModule gives every module its turn: a place of a group is
\* selected again only when every other place of the group was selected, or
\* found down by a check, since this place was selected.
RoundRobin ==
    [][lbClient.at = "scan" /\ lbClient'.at = "return" /\ lbClient'.place # 0 =>
         LET g == lbClient.group IN
         DOMAIN lbSince[g] \subseteq lbSince[g][lbClient'.place] \cup {lbClient'.place}]_lbVars

\* A client that is inside getAvailableModule while the thread probes a module
\* waits for the end of the probe and returns, unless cancel ended the thread
\* in the middle of it.
ClientReturns == lbClient # NoCall ~> (lbClient = NoCall \/ lbThread = "cancelled")

\* The thread ends after cancel even when run() forgets the request to stop
\* that was made before run() began.
CancelEndsThread == lbPc = "cancel" ~> ~Alive
=============================================================================
