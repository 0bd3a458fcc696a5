---------------------------- MODULE IpcChannels ----------------------------
(***************************************************************************)
(* What the kernel's IPC promises to each guest process, without services, *)
(* handles or blocking: the requests a process queues are answered in the  *)
(* order it queued them, each exactly once, and the answers are collected  *)
(* in that same order.  A request is named by its place in the process's   *)
(* own order, so three counters describe a channel.                        *)
(***************************************************************************)
EXTENDS Naturals

CONSTANT Pids

VARIABLES
    submitted,   \* how many requests the process has queued
    answered,    \* how many of them, from the first, have an answer
    delivered    \* the place of the last request whose answer was collected

chanVars == <<submitted, answered, delivered>>

ChanInit ==
    /\ submitted = [p \in Pids |-> 0]
    /\ answered = [p \in Pids |-> 0]
    /\ delivered = [p \in Pids |-> 0]

Submit(p) ==
    /\ submitted' = [submitted EXCEPT ![p] = @ + 1]
    /\ UNCHANGED <<answered, delivered>>

Answer(p) ==
    /\ answered[p] < submitted[p]
    /\ answered' = [answered EXCEPT ![p] = @ + 1]
    /\ UNCHANGED <<submitted, delivered>>

Collect(p) ==
    /\ delivered[p] < answered[p]
    /\ delivered' = [delivered EXCEPT ![p] = @ + 1]
    /\ UNCHANGED <<submitted, answered>>

\* The host restarts the machine: every channel starts afresh.
Restart ==
    /\ submitted' = [p \in Pids |-> 0]
    /\ answered' = [p \in Pids |-> 0]
    /\ delivered' = [p \in Pids |-> 0]

ChanNext ==
    \/ \E p \in Pids : Submit(p) \/ Answer(p) \/ Collect(p)
    \/ Restart

ChanSpec == ChanInit /\ [][ChanNext]_chanVars

\* Nothing waits for ever: an unanswered request is eventually answered.
ChanLiveSpec == ChanSpec /\ \A p \in Pids : WF_chanVars(Answer(p))

=============================================================================
