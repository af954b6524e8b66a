----------------------------- MODULE BufferQueue -----------------------------
(***************************************************************************)
(* What the capture engine promises its caller (spec.md, sections 3 and    *)
(* 4.2): a buffer handed over with submit is owned by the engine until     *)
(* drain gives it back, exactly once.  Buffers submitted while the device  *)
(* is stopped wait in a FIFO and are dispatched in submission order once   *)
(* it starts; a buffer submitted while the device runs is dispatched at    *)
(* once, after every earlier submission.  The driver may complete          *)
(* dispatched buffers in any order, and drain returns them in completion   *)
(* order.                                                                  *)
(***************************************************************************)
EXTENDS Sequences, SequencesExt

CONSTANT Buffers

VARIABLES
    held,        \* buffers owned by the caller
    started,     \* the device runs
    pending,     \* PendingQueue: submitted, not dispatched, oldest first
    dispatched,  \* requests given to the driver, in dispatch order
    ready        \* CompletionQueue: completed, oldest completion first

vars == <<held, started, pending, dispatched, ready>>

Init ==
    /\ held = Buffers
    /\ started = FALSE
    /\ pending = <<>> /\ dispatched = <<>> /\ ready = <<>>

\* submit(): queued while stopped, dispatched at once while running; an
\* earlier pending submission is never overtaken.
Submit(b) ==
    /\ b \in held
    /\ held' = held \ {b}
    /\ IF started /\ pending = <<>>
       THEN /\ dispatched' = Append(dispatched, b) /\ UNCHANGED pending
       ELSE /\ pending' = Append(pending, b) /\ UNCHANGED dispatched
    /\ UNCHANGED <<started, ready>>

\* The oldest pending submission goes to the driver.
DispatchPending ==
    /\ pending # <<>>
    /\ dispatched' = Append(dispatched, Head(pending))
    /\ pending' = Tail(pending)

\* start(): the device runs; draining the PendingQueue may begin at once.
Start ==
    /\ started' = TRUE
    /\ DispatchPending \/ UNCHANGED <<pending, dispatched>>
    /\ UNCHANGED <<held, ready>>

\* One more pending submission dispatched by a start() that is draining
\* the PendingQueue (the drain, once begun, runs to its end).
Dispatch ==
    /\ DispatchPending
    /\ UNCHANGED <<held, started, ready>>

Stop ==
    /\ started' = FALSE
    /\ UNCHANGED <<held, pending, dispatched, ready>>

\* The driver completes any dispatched request.
Complete(i) ==
    /\ i \in 1..Len(dispatched)
    /\ dispatched' = RemoveAt(dispatched, i)
    /\ ready' = Append(ready, dispatched[i])
    /\ UNCHANGED <<held, started, pending>>

\* drain(): the oldest completed buffer goes back to the caller.
Drain ==
    /\ ready # <<>>
    /\ held' = held \cup {Head(ready)}
    /\ ready' = Tail(ready)
    /\ UNCHANGED <<started, pending, dispatched>>

Next ==
    \/ \E b \in Buffers : Submit(b)
    \/ Start \/ Dispatch \/ Stop \/ Drain
    \/ \E i \in 1..Len(dispatched) : Complete(i)

Spec == Init /\ [][Next]_vars
=============================================================================
