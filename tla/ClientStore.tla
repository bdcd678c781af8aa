----------------------------- MODULE ClientStore -----------------------------
(***************************************************************************)
(* The browser's copy of a run (core/frontend/src: state/worldStore.ts,    *)
(* state/eventReducer.ts, api/socket.ts, ui/useWorldRuntime.ts), fed by    *)
(* the event stream of EventStream and by the snapshots that the HTTP      *)
(* responses of commands and of GET /runs carry.                           *)
(*                                                                         *)
(* A snapshot of number n reflects the events 1..n.  An event brings news  *)
(* of two kinds: what it changes in the snapshot (known) and what only the *)
(* event carries, the message a message_created adds to the chat (shown;   *)
(* the chat panel also fetches the history, when it opens and no sooner).  *)
(* The two connections deliver independently: an HTTP response may arrive  *)
(* before or after the events the socket has under way.                    *)
(***************************************************************************)
EXTENDS EventStream

CONSTANT MaxHttp   \* bound: HTTP responses with a snapshot

ASSUME HttpAssumption == MaxHttp \in Nat

VARIABLES store,   \* worldStore of each client
          after,   \* the afterSeq its connection was opened with
          http,    \* snapshots of HTTP responses under way
          asked    \* how much of MaxHttp has been used

clientVars == <<store, after, http, asked>>
allVars    == <<streamVars, clientVars>>

-----------------------------------------------------------------------------
(* The reducers *)

\* reduceRunEvent
Reduced(st, n) ==
    IF n <= st.seq THEN st
    ELSE [st EXCEPT !.seq = n, !.known = @ \cup {n}, !.shown = @ \cup {n}]

\* Mutants (here and below, each before the operator it changes): what the
\* operator would be with a plausible bug in the code it stands for; they are
\* used by no definition of the specification.
WithSnapshotOnly(st, n) == [seq |-> n, known |-> 1..n]

\* setSnapshot: the snapshot replaces the one of the store, the messages stay
WithSnapshot(st, n) == [st EXCEPT !.seq = n, !.known = 1..n]

\* the events of the replay that the reducer does not drop
Replayed(st, a, n) == {m \in 1..n : m > a /\ m > st.seq}

\* the store after a replay and its snapshot (since is history: what the first connection
\* brought it to), and after the snapshot of an HTTP response (back and ahead are history:
\* a snapshot older or newer than the store has replaced its own)
AfterReplay(st, a, n) ==
    WithSnapshot([st EXCEPT !.shown = @ \cup Replayed(st, a, n),
                            !.since = IF @ = 0 THEN n ELSE @], n)
AfterResponse(st, n) ==
    WithSnapshot([st EXCEPT !.back = @ \/ n < st.seq, !.ahead = @ \/ n > st.seq], n)

-----------------------------------------------------------------------------

\* the server side goes on without the client
Server ==
    /\ \/ \E p \in Sections : Section(p)
       \/ \E s \in Sockets : TakeSnapshot(s) \/ Drop(s)
       \/ Deliver \/ Prime \/ Crash
    /\ UNCHANGED clientVars

\* RunSocket.connect with afterSeq, the sequence number of the store
Connect(s) ==
    /\ Subscribe(s)
    /\ after' = [after EXCEPT ![s] = store[s].seq]
    /\ UNCHANGED <<store, http, asked>>

\* onEvent for every event of the replay, then onSnapshot
ReceiveReplay(s) ==
    /\ Replay(s)
    /\ store' = [store EXCEPT ![s] = AfterReplay(@, after[s], pos[s])]
    /\ UNCHANGED <<after, http, asked>>

\* onEvent for the next event of the socket, unless the server skips it
ReceiveEvent(s) ==
    /\ Send(s)
    /\ store' = [store EXCEPT ![s] = IF pos'[s] = pos[s] THEN @ ELSE Reduced(@, pos'[s])]
    /\ UNCHANGED <<after, http, asked>>

\* a command or GET /runs answers with to_public_snapshot, taken under run.lock
Respond(s) ==
    /\ lock = "free" /\ asked < MaxHttp
    /\ http' = [http EXCEPT ![s] = @ \cup {eventSeq}]
    /\ asked' = asked + 1
    /\ UNCHANGED <<streamVars, store, after>>

\* the answer arrives
ReceiveResponse(s) ==
    /\ \E n \in http[s] :
        /\ store' = [store EXCEPT ![s] = AfterResponse(@, n)]
        /\ http' = [http EXCEPT ![s] = @ \ {n}]
    /\ UNCHANGED <<streamVars, after, asked>>

\* the client has its first snapshot from create_run or from GET /runs
ClientInit ==
    /\ Init
    /\ store = [s \in Sockets |-> [seq |-> 1, known |-> {1}, shown |-> {1},
                              since |-> 0, back |-> FALSE, ahead |-> FALSE]]
    /\ after = [s \in Sockets |-> 0]
    /\ http = [s \in Sockets |-> {}] /\ asked = 0

ClientNext ==
    \/ Server
    \/ \E s \in Sockets : Connect(s) \/ ReceiveReplay(s) \/ ReceiveEvent(s)
                                     \/ Respond(s) \/ ReceiveResponse(s)

ClientSpec == ClientInit /\ [][ClientNext]_allVars

-----------------------------------------------------------------------------
(* Properties *)

\* Type correctness of the client.
ClientTypeOK ==
    /\ store \in [Sockets -> [seq: Nat, known: SUBSET Nat, shown: SUBSET Nat,
                          since: Nat, back: BOOLEAN, ahead: BOOLEAN]]
    /\ after \in [Sockets -> Nat]
    /\ http \in [Sockets -> SUBSET Nat] /\ asked \in Nat

\* The store is the run as it was at one moment: it reflects every event up to
\* its sequence number (setSnapshot, reduceRunEvent), through lost connections,
\* reconnections with afterSeq, restarts of the server and the snapshots of HTTP
\* responses, unless one of these was older than the store: it takes the store
\* back, and the next event of the socket leaves a hole.
StoreIsWhole == \A s \in Sockets : ~store[s].back => store[s].known = 1..store[s].seq

\* What only an event carries, the text of a message, has been shown for every
\* event since the first connection that the store has moved past: across lost
\* connections it is replayed (get_events with afterSeq).  The exception is an
\* HTTP snapshot that overtakes the socket: the reducer drops the events it covers.
NothingUnseen ==
    \A s \in Sockets : store[s].since > 0 /\ ~store[s].ahead =>
        (store[s].since + 1)..store[s].seq \subseteq store[s].shown

\* No client is ahead of what a restart keeps, whichever way its snapshot came:
\* were it ahead, it would drop the events that get the same numbers again.
NeverAhead ==
    \A s \in Sockets : store[s].seq <= saved /\ \A n \in http[s] : n <= saved

\* What a browser shows is the run: whole, with nothing it missed and nothing that is not kept.
ViewIsFaithful == StoreIsWhole /\ NothingUnseen /\ NeverAhead
=============================================================================
