------------------------------ MODULE EventFeed ------------------------------
(***************************************************************************)
(* What the event stream of a run promises to whoever listens to it: a     *)
(* listener joins at the present, and from then on is told every event, in *)
(* order and without a gap, for as long as it stays connected.             *)
(***************************************************************************)
EXTENDS Integers

CONSTANT Listeners

VARIABLES log,   \* number of events of the run
          up,    \* who is connected
          view   \* the last event each listener knows of

feedVars == <<log, up, view>>

Init ==
    /\ log \in Nat
    /\ up = {}
    /\ view \in [Listeners -> Nat]

\* the run goes on
Emit ==
    /\ log' > log /\ log' \in Nat
    /\ UNCHANGED <<up, view>>

\* a listener gets a snapshot of the present
Join(s) ==
    /\ s \notin up
    /\ up' = up \cup {s}
    /\ view' = [view EXCEPT ![s] = log]
    /\ UNCHANGED log

\* a listener is told the next event
Tell(s) ==
    /\ s \in up /\ view[s] < log
    /\ view' = [view EXCEPT ![s] = @ + 1]
    /\ UNCHANGED <<log, up>>

Leave(s) ==
    /\ s \in up
    /\ up' = up \ {s}
    /\ UNCHANGED <<log, view>>

\* the process restarts: nobody is connected any more, and events nobody
\* saved are gone
Restart ==
    /\ up' = {} /\ log' \in Nat /\ log' <= log
    /\ UNCHANGED view

Next == Emit \/ Restart \/ \E s \in Listeners : Join(s) \/ Tell(s) \/ Leave(s)

Spec == Init /\ [][Next]_feedVars
=============================================================================
