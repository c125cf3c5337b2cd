--------------------------- MODULE MCConnections ---------------------------
(***************************************************************************)
(* The ConnectionsManager: its sessions, its events with a processor, and  *)
(* the service that builds and starts it.  part says which one runs.       *)
(***************************************************************************)
EXTENDS CMSessions, CMService

VARIABLE part

mcVars == <<part, sessionsVars, eventsVars, svcVars>>

MCInit == part \in {"sessions", "events", "service"} /\ CsInit /\ CeInit /\ SvInit

MCNext ==
    \/ part = "sessions" /\ CsNext /\ UNCHANGED <<part, eventsVars, svcVars>>
    \/ part = "events" /\ CeNext /\ UNCHANGED <<part, sessionsVars, svcVars>>
    \/ part = "service" /\ SvNext /\ UNCHANGED <<part, sessionsVars, eventsVars>>

MCSpec == MCInit /\ [][MCNext]_mcVars /\ CsFairness /\ CeFairness

\* A session that nobody uses becomes free, a connection that is ready is handled, and a processor ends after cancel.
ServerGoesOn == UnusedFreed /\ ConnectionHandled /\ ProcessorEnds
=============================================================================
