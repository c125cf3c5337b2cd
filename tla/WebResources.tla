---------------------------- MODULE WebResources ----------------------------
(***************************************************************************)
(* What the objects that speak http hold: the modules of the load          *)
(* balancer, the buffers, the socket and the file of a get, the sockets    *)
(* and the buffers of the server and of a post; and what becomes of their  *)
(* messages.                                                               *)
(***************************************************************************)
EXTENDS LoadBalancer, HttpThreads, HttpMessage

WebResourcesSpec == LbSpec /\ GetSpec /\ WebSpec

\* Every error path of LoadBalancer::init, of a get, of the server's loop and
\* of a post gives back what was taken, once: modules, buffers, files and
\* sockets.
WebResourcesOwned ==
    /\ LbTypeOK /\ GetTypeOK /\ WebTypeOK
    /\ ModulesOwned
    /\ BuffersInitializedOnce /\ EndedGetIsClean
    /\ ServerReleasesAll /\ PostSocketOwned

\* A message ends where its length says unless, and only unless, a peek ended
\* inside the blank line of its header; a value that is encoded comes back from
\* its decoding, a truncation leaves no part of a code, and the marker of a
\* whole file follows the whole body of this get.
MessagesWhole ==
    /\ []MessageTypeOK /\ []MessageBoundary
    /\ []ParameterComesBack /\ []TruncationKeepsCodes
    /\ MarkerAfterWholeBody
=============================================================================
