----------------------------- MODULE RequestBox -----------------------------
(***************************************************************************)
(* What the reconcile loop relies on for one KyuubiCluster name: whoever   *)
(* learns of a change leaves a request, requests that wait are one         *)
(* request, a pass takes the request away when it starts, so that one left *)
(* during the pass is still there at its end, and a pass that fails has a  *)
(* retry due.                                                              *)
(***************************************************************************)
CONSTANT Nil

VARIABLES
    known,      \* the informer's copy of the KyuubiCluster, or Nil
    queued,     \* whether a request is waiting
    retry,      \* whether a retry is due some time
    running     \* whether a pass is running

vars == <<known, queued, retry, running>>

Init ==
    /\ known = Nil
    /\ queued = FALSE
    /\ retry = FALSE
    /\ running = FALSE

Learn ==
    /\ known' # known
    /\ queued' = TRUE
    /\ UNCHANGED <<retry, running>>

\* A resync, or an event that brings what is known already.
Remind ==
    /\ queued' = TRUE
    /\ UNCHANGED <<known, retry, running>>

Begin ==
    /\ queued /\ ~running
    /\ known # Nil
    /\ queued' = FALSE
    /\ running' = TRUE
    /\ UNCHANGED <<known, retry>>

\* There is nothing to work on, which counts as a failure.
BeginInVain ==
    /\ queued /\ ~running
    /\ known = Nil
    /\ queued' = FALSE
    /\ retry' = TRUE
    /\ UNCHANGED <<known, running>>

Succeed ==
    /\ running
    /\ running' = FALSE
    /\ UNCHANGED <<known, queued, retry>>

Fail ==
    /\ running
    /\ running' = FALSE
    /\ retry' = TRUE
    /\ UNCHANGED <<known, queued>>

RetryExpires ==
    /\ retry
    /\ retry' = FALSE
    /\ queued' = TRUE
    /\ UNCHANGED <<known, running>>

\* The process is replaced by a new one, which lists what there is.  The box does
\* not tell a restart from the loss of a request for what no longer exists, so it
\* promises nothing of the requests for a KyuubiCluster that is gone.
Restart ==
    /\ queued' = (known' # Nil)
    /\ retry' = FALSE
    /\ running' = FALSE

Next ==
    \/ Learn \/ Remind \/ RetryExpires
    \/ Begin \/ BeginInVain \/ Succeed \/ Fail
    \/ Restart

Spec == Init /\ [][Next]_vars
=============================================================================
