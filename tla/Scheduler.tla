----------------------------- MODULE Scheduler -----------------------------
(***************************************************************************)
(* The device event scheduler (src/src/core/scheduler.rs), as operators on *)
(* its queue of pending events.  Two things are relative here that the     *)
(* code counts from the start.  An entry says in how many cycles it is due *)
(* (at_cycle - cycles, not positive once it is due), and its rank orders   *)
(* it among the entries due at the same cycle: entries due at one cycle    *)
(* leave the queue together, so comparing ranks is comparing `order`.  No  *)
(* counter grows then, and the 64-bit saturation of `cycles` and           *)
(* `next_order` is left out.                                               *)
(***************************************************************************)
EXTENDS Integers, FiniteSets

TimerExpiry == [kind |-> "TimerExpiry", id |-> 0]
VBlank == [kind |-> "VBlank", id |-> 0]
DmaCompletion(c) == [kind |-> "DmaCompletion", id |-> c]
ServiceWake(p) == [kind |-> "ServiceWake", id |-> p]

Priority(event) ==
    CASE event.kind = "TimerExpiry" -> 0
      [] event.kind = "VBlank" -> 1
      [] event.kind = "DmaCompletion" -> 2
      [] event.kind = "ServiceWake" -> 3

\* tick: the queue after some cycles.
Elapse(q, cycles) == {[e EXCEPT !.in = @ - cycles] : e \in q}

\* schedule_in, with schedule_at.
ScheduleIn(q, delay, event) ==
    q \cup {[in |-> delay,
             rank |-> Cardinality({e \in q : e.in = delay}),
             event |-> event]}

\* Mutation of Due: the event of this very cycle waits for the next drain.
DueStrict(q) == {e \in q : e.in < 0}

\* drain_due_events: what it takes out, and the order it returns it in.
Due(q) == {e \in q : e.in <= 0}

Before(e, f) ==
    \/ e.in < f.in
    \/ e.in = f.in /\ Priority(e.event) < Priority(f.event)
    \/ e.in = f.in /\ Priority(e.event) = Priority(f.event) /\ e.rank < f.rank

First(batch) == CHOOSE e \in batch : \A f \in batch \ {e} : Before(e, f)

Waiting(q, event) == {e \in q : e.event = event}

=============================================================================
