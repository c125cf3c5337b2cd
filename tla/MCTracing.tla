----------------------------- MODULE MCTracing -----------------------------
(***************************************************************************)
(* The tracer with its thread, two clients and its owner, and the trace    *)
(* files of a directory with two processes: part says which one runs.      *)
(***************************************************************************)
EXTENDS Tracer, TraceFiles, SequencesExt

VARIABLE part

mcVars == <<part, tracerVars, traceFilesVars>>

MCInit == part \in {"tracer", "files"} /\ TrInit /\ TfInit

MCNext ==
    \/ part = "tracer" /\ TrNext /\ UNCHANGED <<part, traceFilesVars>>
    \/ part = "files" /\ TfNext /\ UNCHANGED <<part, tracerVars>>

MCSpec == MCInit /\ [][MCNext]_mcVars /\ TrFairness

-----------------------------------------------------------------------------
\* The bytes that the cache is said to hold are those of its traces, whichever flush failed.
BytesCounted == trBusy = FoldLeft(LAMBDA n, t : n + t.size, 0, trCache)

\* Traces move on to the file while the thread runs, no flush forgets bytes of the cache, and finish returns although a
\* thread was cancelled by force.
TracerGoesOn == TracesMove /\ []BytesCounted /\ FinishReturns
=============================================================================
