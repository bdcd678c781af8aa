-------------------------- MODULE EventStreamProofs --------------------------
(***************************************************************************)
(* Proofs about EventStream, for any number of sections, clients, events,  *)
(* silent or raising sections, lost connections and restarts; and about    *)
(* ClientStore, the browser's copy of the run, for any number of HTTP      *)
(* responses besides.                                                      *)
(***************************************************************************)
EXTENDS ClientStore, TLAPS

Connected(s) == conn[s] \in {"replaying", "live"}

Increasing(q) == \A i, j \in DOMAIN q : i < j => q[i] < q[j]

\* the numbers of the hub, the sections and the handlers fit together
InRange ==
    /\ 1 <= saved /\ saved <= eventSeq /\ last <= eventSeq
    /\ \A n \in DOMAIN pending : last < n /\ n <= eventSeq
    /\ \A p \in Sections : sect[p].upto <= eventSeq

\* subscribers are the handlers that run; the hub was primed before the first
Subscribers ==
    /\ subs = {s \in Sockets : conn[s] # "closed"}
    /\ \A s \in Sockets : conn[s] # "closed" => last # 0 \/ DOMAIN pending # {}

\* queues hold delivered events in order
Queues ==
    \A s \in Sockets :
        /\ Increasing(queue[s])
        /\ \A i \in DOMAIN queue[s] : queue[s][i] <= last

\* an event that waits for its turn and is not in the snapshot of a handler was
\* captured with that handler
CapturedWith(s) == \A n \in DOMAIN pending : n > pos[s] => s \in pending[n]

Captured == \A s \in Sockets : Connected(s) => CapturedWith(s)

\* NothingSlipsThrough, for one handler
InQueue(s) == \A n \in (pos[s] + 1)..last : \E i \in DOMAIN queue[s] : queue[s][i] = n

IInv == TypeOK /\ InRange /\ Subscribers /\ Queues /\ Captured /\ NothingSlipsThrough

-----------------------------------------------------------------------------

LEMMA AppendFacts ==
    ASSUME NEW q \in Seq(Nat), NEW n \in Nat,
           Increasing(q), \A i \in DOMAIN q : q[i] < n
    PROVE  /\ Append(q, n) \in Seq(Nat)
           /\ Increasing(Append(q, n))
           /\ \A i \in DOMAIN Append(q, n) : Append(q, n)[i] <= n
  <1>1. /\ Append(q, n) \in Seq(Nat)
        /\ DOMAIN Append(q, n) = 1..(Len(q) + 1)
        /\ DOMAIN q = 1..Len(q) /\ Len(q) \in Nat
        /\ \A i \in 1..Len(q) : Append(q, n)[i] = q[i] /\ q[i] \in Nat
        /\ Append(q, n)[Len(q) + 1] = n
    OBVIOUS
  <1>2. \A i \in 1..(Len(q) + 1) : i \in 1..Len(q) \/ i = Len(q) + 1
    BY <1>1
  <1> QED BY <1>1, <1>2 DEF Increasing

LEMMA AppendHas ==
    ASSUME NEW q \in Seq(Nat), NEW n \in Nat
    PROVE  /\ \A i \in DOMAIN q : i \in DOMAIN Append(q, n) /\ Append(q, n)[i] = q[i]
           /\ \E i \in DOMAIN Append(q, n) : Append(q, n)[i] = n
  <1>1. /\ DOMAIN Append(q, n) = 1..(Len(q) + 1)
        /\ DOMAIN q = 1..Len(q) /\ Len(q) \in Nat
        /\ \A i \in 1..Len(q) : Append(q, n)[i] = q[i]
        /\ Append(q, n)[Len(q) + 1] = n
    OBVIOUS
  <1> QED BY <1>1

LEMMA TailFacts ==
    ASSUME NEW q \in Seq(Nat), q # <<>>, Increasing(q)
    PROVE  /\ Tail(q) \in Seq(Nat)
           /\ Increasing(Tail(q))
           /\ Head(q) \in Nat /\ 1 \in DOMAIN q /\ Head(q) = q[1]
           /\ \A i \in DOMAIN Tail(q) : i + 1 \in DOMAIN q /\ Tail(q)[i] = q[i + 1]
           /\ \A i \in DOMAIN q : q[i] # Head(q) =>
                 i - 1 \in DOMAIN Tail(q) /\ Tail(q)[i - 1] = q[i]
           /\ \A i \in DOMAIN q : Head(q) <= q[i]
  <1>1. /\ Len(q) \in Nat \ {0} /\ DOMAIN q = 1..Len(q)
        /\ Head(q) = q[1]
        /\ Tail(q) \in Seq(Nat) /\ DOMAIN Tail(q) = 1..(Len(q) - 1)
        /\ \A i \in 1..(Len(q) - 1) : Tail(q)[i] = q[i + 1]
        /\ \A i \in 1..Len(q) : q[i] \in Nat
    OBVIOUS
  <1>2. \A i, j \in 1..Len(q) : i < j => q[i] < q[j]
    BY <1>1 DEF Increasing
  <1>3. \A i \in 1..(Len(q) - 1) : i + 1 \in 1..Len(q)
    BY <1>1
  <1>4. Increasing(Tail(q))
    <2>1. SUFFICES ASSUME NEW i \in 1..(Len(q) - 1), NEW j \in 1..(Len(q) - 1), i < j
                   PROVE  Tail(q)[i] < Tail(q)[j]
      BY <1>1 DEF Increasing
    <2>2. Tail(q)[i] = q[i + 1] /\ Tail(q)[j] = q[j + 1]
      BY <1>1
    <2> QED BY <2>1, <2>2, <1>2, <1>3
  <1>5. \A i \in DOMAIN q : q[i] # Head(q) =>
                 i - 1 \in DOMAIN Tail(q) /\ Tail(q)[i - 1] = q[i]
    <2>1. SUFFICES ASSUME NEW i \in 1..Len(q), q[i] # q[1]
                   PROVE  i - 1 \in 1..(Len(q) - 1) /\ Tail(q)[i - 1] = q[i]
      BY <1>1
    <2>2. i - 1 \in 1..(Len(q) - 1) /\ (i - 1) + 1 = i
      BY <2>1, <1>1
    <2> QED BY <2>2, <1>1
  <1>6. \A i \in DOMAIN q : Head(q) <= q[i]
    <2>1. SUFFICES ASSUME NEW i \in 1..Len(q) PROVE q[1] <= q[i]
      BY <1>1
    <2>2. 1 \in 1..Len(q) /\ (i = 1 \/ 1 < i)
      BY <1>1
    <2> QED BY <1>1, <1>2, <2>2
  <1> QED BY <1>1, <1>3, <1>4, <1>5, <1>6

LEMMA InitIInv == Init => IInv
  <1> SUFFICES ASSUME Init PROVE IInv
    OBVIOUS
  <1>1. DOMAIN pending = {} /\ pending \in [{} -> SUBSET Sockets]
    BY DEF Init, Nothing
  <1>2. TypeOK
    BY <1>1 DEF Init, TypeOK, Idle
  <1>3. InRange /\ Subscribers
    BY <1>1 DEF Init, InRange, Subscribers, Idle
  <1>4. Queues /\ Captured /\ NothingSlipsThrough
    BY <1>1 DEF Init, Queues, Captured, Connected, NothingSlipsThrough, Increasing
  <1> QED BY <1>2, <1>3, <1>4 DEF IInv

-----------------------------------------------------------------------------
(* Type correctness *)

LEMMA NextType == TypeOK /\ InRange /\ [Next]_streamVars => TypeOK'
  <1> SUFFICES ASSUME TypeOK, InRange, [Next]_streamVars PROVE TypeOK'
    OBVIOUS
  <1> USE DEF TypeOK
  <1>1. ASSUME NEW p \in Sections, Begin(p) PROVE TypeOK'
    BY <1>1, SMTT(30) DEF Begin, hubVars, socketVars
  <1>2. ASSUME NEW p \in Sections, AppendEvent(p) PROVE TypeOK'
    BY <1>2, SMTT(30) DEF AppendEvent, hubVars, socketVars
  <1>3. ASSUME NEW p \in Sections, AwaitModel(p) PROVE TypeOK'
    BY <1>3, ZenonT(60) DEF AwaitModel, hubVars, socketVars
  <1>4. ASSUME NEW p \in Sections, Resume(p) PROVE TypeOK'
    BY <1>4, ZenonT(60) DEF Resume, hubVars, socketVars
  <1>5. ASSUME NEW p \in Sections, End(p) PROVE TypeOK'
    <2>1. CASE EndSection(p)
      BY <2>1, ZenonT(60) DEF EndSection, ToPublish, hubVars, socketVars
    <2>2. CASE EndSilently(p)
      BY <2>2 DEF EndSilently, Use, Idle, hubVars, socketVars
    <2>3. CASE EndRaised(p)
      BY <2>3, SMTT(30) DEF EndRaised, Use, Idle, hubVars, socketVars
    <2> QED BY <1>5, <2>1, <2>2, <2>3 DEF End
  <1>6. ASSUME NEW p \in Sections, Publish(p) PROVE TypeOK'
    <2>0. sect' \in [Sections -> [at: {"idle", "open", "waiting", "publishing"},
                                  next: Nat, upto: Nat]]
      <3>1. CASE sect' = [sect EXCEPT ![p] = Idle]
        BY <3>1 DEF Idle
      <3>2. CASE sect' = [sect EXCEPT ![p].next = @ + 1]
        <4>1. sect[p].next \in Nat /\ sect[p].next + 1 \in Nat
          OBVIOUS
        <4>2. [sect[p] EXCEPT !.next = @ + 1] \in
                 [at: {"idle", "open", "waiting", "publishing"}, next: Nat, upto: Nat]
          BY <4>1, ZenonT(60)
        <4> QED BY <3>2, <4>2
      <3> QED BY <1>6, <3>1, <3>2 DEF Publish
    <2>1. CASE sect[p].next > sect[p].upto \/ sect[p].next <= last
      <3>1. UNCHANGED hubVars
        BY <1>6, <2>1 DEF Publish, Accept
      <3> QED BY <1>6, <2>0, <3>1 DEF Publish, hubVars, socketVars
    <2>2. CASE ~(sect[p].next > sect[p].upto \/ sect[p].next <= last)
      <3> DEFINE n == sect[p].next
      <3>1. /\ pending' = [m \in DOMAIN pending \cup {n} |->
                               IF m = n THEN subs ELSE pending[m]]
            /\ UNCHANGED <<eventSeq, saved, lock, last, socketVars, used>>
        BY <1>6, <2>2 DEF Publish, Accept, hubVars
      <3>2. n \in Nat
        OBVIOUS
      <3>3. /\ DOMAIN pending' \subseteq Nat
            /\ pending' \in [DOMAIN pending' -> SUBSET Sockets]
        BY <3>1, <3>2
      <3> QED BY <2>0, <3>1, <3>3 DEF socketVars
    <2> QED BY <2>1, <2>2
  <1>7. ASSUME NEW s \in Sockets, Subscribe(s) PROVE TypeOK'
    BY <1>7, SMTT(30) DEF Subscribe, Primed, runVars
  <1>8. ASSUME NEW s \in Sockets, TakeSnapshot(s) PROVE TypeOK'
    BY <1>8 DEF TakeSnapshot, runVars, hubVars
  <1>9. ASSUME NEW s \in Sockets, Replay(s) PROVE TypeOK'
    BY <1>9 DEF Replay, runVars, hubVars
  <1>10. ASSUME NEW s \in Sockets, Send(s) PROVE TypeOK'
    <2>1. Tail(queue[s]) \in Seq(Nat) /\ Head(queue[s]) \in Nat
      BY <1>10, SMTT(30) DEF Send
    <2> QED BY <1>10, <2>1 DEF Send, Skips, runVars, hubVars
  <1>11. ASSUME NEW s \in Sockets, Drop(s) PROVE TypeOK'
    BY <1>11, SMTT(30) DEF Drop, Use, runVars, hubVars
  <1>12. ASSUME Deliver PROVE TypeOK'
    <2>1. \A s \in Sockets : Append(queue[s], last + 1) \in Seq(Nat)
      OBVIOUS
    <2>2. queue' \in [Sockets -> Seq(Nat)]
      BY <1>12, <2>1 DEF Deliver
    <2>3. /\ DOMAIN pending' \subseteq Nat
          /\ pending' \in [DOMAIN pending' -> SUBSET Sockets]
      BY <1>12 DEF Deliver, Restrict
    <2>4. last' \in Nat /\ UNCHANGED <<eventSeq, saved, lock, sect, subs, conn, pos, used>>
      BY <1>12 DEF Deliver, runVars
    <2> QED BY <2>2, <2>3, <2>4
  <1>13. ASSUME Prime PROVE TypeOK'
    BY <1>13 DEF Prime, Primed, runVars, socketVars
  <1>14. ASSUME Crash PROVE TypeOK'
    <2>1. DOMAIN pending' = {} /\ pending' \in [{} -> SUBSET Sockets]
      BY <1>14 DEF Crash, Nothing
    <2>2. Idle \in [at: {"idle", "open", "waiting", "publishing"}, next: Nat, upto: Nat]
      BY DEF Idle
    <2>3. /\ <<>> \in Seq(Nat)
          /\ used' \in [{"silent", "raised", "drops", "crashes"} -> Nat]
      BY <1>14 DEF Crash, Use
    <2> QED BY <1>14, <2>1, <2>2, <2>3 DEF Crash
  <1>15. ASSUME UNCHANGED streamVars PROVE TypeOK'
    BY <1>15 DEF streamVars
  <1> QED BY <1>1, <1>2, <1>3, <1>4, <1>5, <1>6, <1>7, <1>8, <1>9, <1>10, <1>11,
             <1>12, <1>13, <1>14, <1>15 DEF Next, Section, Handler

-----------------------------------------------------------------------------
(* The hub, the sections and the handlers fit together *)

LEMMA NextRange ==
    TypeOK /\ InRange /\ [Next]_streamVars => InRange'
  <1> SUFFICES ASSUME TypeOK, InRange, [Next]_streamVars PROVE InRange'
    OBVIOUS
  <1> USE DEF TypeOK, InRange
  <1>1. ASSUME NEW p \in Sections, Begin(p) PROVE InRange'
    BY <1>1 DEF Begin, hubVars
  <1>2. ASSUME NEW p \in Sections, AppendEvent(p) PROVE InRange'
    BY <1>2 DEF AppendEvent, hubVars
  <1>3. ASSUME NEW p \in Sections, AwaitModel(p) PROVE InRange'
    BY <1>3 DEF AwaitModel, hubVars
  <1>4. ASSUME NEW p \in Sections, Resume(p) PROVE InRange'
    BY <1>4 DEF Resume, hubVars
  <1>5. ASSUME NEW p \in Sections, End(p) PROVE InRange'
    <2>1. CASE EndSection(p)
      BY <2>1 DEF EndSection, ToPublish, hubVars
    <2>2. CASE EndSilently(p)
      BY <2>2 DEF EndSilently, Idle, hubVars
    <2>3. CASE EndRaised(p)
      BY <2>3 DEF EndRaised, Idle, hubVars
    <2> QED BY <1>5, <2>1, <2>2, <2>3 DEF End
  <1>6. ASSUME NEW p \in Sections, Publish(p) PROVE InRange'
    <2>1. \A q \in Sections : sect'[q].upto <= eventSeq
      <3>1. \/ sect' = [sect EXCEPT ![p] = Idle]
            \/ sect' = [sect EXCEPT ![p].next = @ + 1]
        BY <1>6 DEF Publish
      <3>2. \A q \in Sections : sect'[q].upto = sect[q].upto \/ sect'[q].upto = 0
        <4>1. CASE sect' = [sect EXCEPT ![p] = Idle]
          BY <4>1 DEF Idle
        <4>2. CASE sect' = [sect EXCEPT ![p].next = @ + 1]
          BY <4>2
        <4> QED BY <3>1, <4>1, <4>2
      <3>3. 0 <= eventSeq /\ \A q \in Sections : sect[q].upto <= eventSeq
        OBVIOUS
      <3> QED BY ONLY <3>2, <3>3
    <2>2. last' = last /\ \A n \in DOMAIN pending' : last < n /\ n <= eventSeq
      <3>1. CASE sect[p].next > sect[p].upto
        BY <1>6, <3>1 DEF Publish, hubVars
      <3>2. CASE ~(sect[p].next > sect[p].upto)
        BY <1>6, <3>2 DEF Publish, Accept, hubVars
      <3> QED BY <3>1, <3>2
    <2> QED BY <1>6, <2>1, <2>2 DEF Publish
  <1>7. ASSUME NEW s \in Sockets, Subscribe(s) PROVE InRange'
    BY <1>7 DEF Subscribe, Primed, runVars
  <1>8. ASSUME NEW s \in Sockets,
               TakeSnapshot(s) \/ Replay(s) \/ Send(s) \/ Drop(s) PROVE InRange'
    BY <1>8 DEF TakeSnapshot, Replay, Send, Drop, runVars, hubVars
  <1>9. ASSUME Deliver PROVE InRange'
    <2>1. /\ DOMAIN pending' = DOMAIN pending \ {last + 1}
          /\ last + 1 \in DOMAIN pending /\ last' = last + 1
          /\ UNCHANGED <<eventSeq, saved, sect>>
      BY <1>9 DEF Deliver, HubFree, Restrict, runVars
    <2> QED BY <2>1
  <1>10. ASSUME Prime PROVE InRange'
    BY <1>10 DEF Prime, Primed, runVars
  <1>11. ASSUME Crash PROVE InRange'
    BY <1>11 DEF Crash, Idle, Nothing
  <1>12. ASSUME UNCHANGED streamVars PROVE InRange'
    BY <1>12 DEF streamVars
  <1> QED BY <1>1, <1>2, <1>3, <1>4, <1>5, <1>6, <1>7, <1>8, <1>9, <1>10, <1>11,
             <1>12 DEF Next, Section, Handler

LEMMA NextSubscribers ==
    TypeOK /\ InRange /\ Subscribers /\ [Next]_streamVars => Subscribers'
  <1> SUFFICES ASSUME TypeOK, InRange, Subscribers, [Next]_streamVars
               PROVE  Subscribers'
    OBVIOUS
  <1> USE DEF TypeOK, InRange, Subscribers
  <1>1. ASSUME NEW p \in Sections,
               Begin(p) \/ AppendEvent(p) \/ AwaitModel(p) \/ Resume(p) \/ End(p)
        PROVE  Subscribers'
    BY <1>1 DEF Begin, AppendEvent, AwaitModel, Resume, End, EndSection, EndSilently,
                EndRaised, hubVars, socketVars
  <1>2. ASSUME NEW p \in Sections, Publish(p) PROVE Subscribers'
    <2>1. last' = last /\ DOMAIN pending \subseteq DOMAIN pending'
      BY <1>2 DEF Publish, Accept, hubVars
    <2> QED BY <1>2, <2>1 DEF Publish, socketVars
  <1>3. ASSUME NEW s \in Sockets, Subscribe(s) PROVE Subscribers'
    <2>1. subs' = {t \in Sockets : conn'[t] # "closed"}
      BY <1>3 DEF Subscribe
    <2>2. last' # 0 \/ DOMAIN pending' # {}
      <3>1. pending' = pending /\ last' = Primed /\ eventSeq # 0
        BY <1>3 DEF Subscribe
      <3>2. CASE last = 0 /\ DOMAIN pending = {}
        BY <3>1, <3>2 DEF Primed
      <3>3. CASE ~(last = 0 /\ DOMAIN pending = {})
        BY <3>1, <3>3 DEF Primed
      <3> QED BY <3>2, <3>3
    <2> QED BY <2>1, <2>2
  <1>4. ASSUME NEW s \in Sockets,
               TakeSnapshot(s) \/ Replay(s) \/ Send(s) \/ Drop(s) PROVE Subscribers'
    BY <1>4 DEF TakeSnapshot, Replay, Send, Drop, runVars, hubVars
  <1>5. ASSUME Deliver PROVE Subscribers'
    BY <1>5 DEF Deliver, HubFree, runVars
  <1>6. ASSUME Prime PROVE Subscribers'
    BY <1>6 DEF Prime, Primed, runVars, socketVars
  <1>7. ASSUME Crash PROVE Subscribers'
    BY <1>7 DEF Crash
  <1>8. ASSUME UNCHANGED streamVars PROVE Subscribers'
    BY <1>8 DEF streamVars
  <1> QED BY <1>1, <1>2, <1>3, <1>4, <1>5, <1>6, <1>7, <1>8 DEF Next, Section, Handler

LEMMA NextQueues ==
    TypeOK /\ InRange /\ Subscribers /\ Queues /\ [Next]_streamVars => Queues'
  <1> SUFFICES ASSUME TypeOK, InRange, Subscribers, Queues, [Next]_streamVars
               PROVE  Queues'
    OBVIOUS
  <1> USE DEF TypeOK, InRange, Queues
  <1>1. ASSUME NEW p \in Sections, Section(p) PROVE Queues'
    <2>1. queue' = queue /\ last' = last
      BY <1>1 DEF Section, Begin, AppendEvent, AwaitModel, Resume, End, EndSection,
                  EndSilently, EndRaised, Publish, Accept, hubVars, socketVars
    <2> QED BY <2>1
  <1>2. ASSUME NEW s \in Sockets, TakeSnapshot(s) \/ Replay(s) PROVE Queues'
    BY <1>2 DEF TakeSnapshot, Replay, hubVars
  <1>3. ASSUME NEW s \in Sockets, Subscribe(s) PROVE Queues'
    <2>1. last <= last'
      BY <1>3 DEF Subscribe, Primed
    <2>2. last' \in Nat /\ \A t \in Sockets :
            queue'[t] = IF t = s THEN <<>> ELSE queue[t]
      BY <1>3 DEF Subscribe, Primed
    <2>3. ASSUME NEW t \in Sockets
          PROVE  Increasing(queue'[t]) /\ \A i \in DOMAIN queue'[t] : queue'[t][i] <= last'
      <3>1. CASE t = s
        BY <3>1, <2>2 DEF Increasing
      <3>2. CASE t # s
        <4>1. \A i \in DOMAIN queue[t] : queue[t][i] \in Nat /\ queue[t][i] <= last
          BY SMTT(30)
        <4>2. queue'[t] = queue[t]
          BY <3>2, <2>2
        <4> QED BY <2>1, <2>2, <4>1, <4>2
      <3> QED BY <3>1, <3>2
    <2> QED BY <2>3
  <1>4. ASSUME NEW s \in Sockets, Send(s) PROVE Queues'
    <2>1. /\ Increasing(Tail(queue[s]))
          /\ \A i \in DOMAIN Tail(queue[s]) : Tail(queue[s])[i] <= last
      BY <1>4, TailFacts DEF Send
    <2>2. last' = last /\ \A t \in Sockets :
            queue'[t] = IF t = s THEN Tail(queue[s]) ELSE queue[t]
      BY <1>4 DEF Send, hubVars
    <2> QED BY <2>1, <2>2
  <1>5. ASSUME NEW s \in Sockets, Drop(s) PROVE Queues'
    <2>1. last' = last /\ \A t \in Sockets :
            queue'[t] = IF t = s THEN <<>> ELSE queue[t]
      BY <1>5 DEF Drop, hubVars
    <2>2. Increasing(<<>>) /\ \A i \in DOMAIN <<>> : <<>>[i] <= last
      BY DEF Increasing
    <2> QED BY <2>1, <2>2
  <1>6. ASSUME Deliver PROVE Queues'
    <2>1. last' = last + 1 /\ \A t \in Sockets :
            queue'[t] = IF t \in pending[last + 1] THEN Append(queue[t], last + 1)
                                                  ELSE queue[t]
      BY <1>6 DEF Deliver
    <2>2. ASSUME NEW t \in Sockets
          PROVE  Increasing(queue'[t]) /\ \A i \in DOMAIN queue'[t] : queue'[t][i] <= last'
      <3>1. \A i \in DOMAIN queue[t] : queue[t][i] < last + 1 /\ queue[t][i] \in Nat
        BY SMTT(30)
      <3>2. CASE t \in pending[last + 1]
        <4>1. queue[t] \in Seq(Nat) /\ last + 1 \in Nat /\ Increasing(queue[t])
          OBVIOUS
        <4>2. /\ Increasing(Append(queue[t], last + 1))
              /\ \A i \in DOMAIN Append(queue[t], last + 1) :
                    Append(queue[t], last + 1)[i] <= last + 1
          BY <3>1, <4>1, AppendFacts
        <4> QED BY <3>2, <2>1, <4>2
      <3>3. CASE t \notin pending[last + 1]
        BY <3>1, <3>3, <2>1, SMTT(30)
      <3> QED BY <3>2, <3>3
    <2> QED BY <2>2
  <1>7. ASSUME Prime PROVE Queues'
    <2>1. last' \in Nat /\ last <= last' /\ queue' = queue
      BY <1>7 DEF Prime, Primed, socketVars
    <2>2. \A t \in Sockets : \A i \in DOMAIN queue[t] : queue[t][i] \in Nat
      BY SMTT(30)
    <2> QED BY <2>1, <2>2
  <1>8. ASSUME Crash PROVE Queues'
    BY <1>8 DEF Crash, Increasing
  <1>9. ASSUME UNCHANGED streamVars PROVE Queues'
    BY <1>9 DEF streamVars
  <1> QED BY <1>1, <1>2, <1>3, <1>4, <1>5, <1>6, <1>7, <1>8, <1>9 DEF Next, Handler

-----------------------------------------------------------------------------
(* Nothing slips through between the snapshot and the queue *)

LEMMA NextCaptured ==
    IInv /\ [Next]_streamVars => Captured' /\ NothingSlipsThrough'
  <1> SUFFICES ASSUME IInv, [Next]_streamVars, NEW t \in Sockets, Connected(t)'
               PROVE  CapturedWith(t)' /\ InQueue(t)'
    BY DEF Captured, NothingSlipsThrough, InQueue, Connected
  <1> DEFINE Goal == CapturedWith(t)' /\ InQueue(t)'
  <1>1. /\ last \in Nat /\ eventSeq \in Nat /\ pos[t] \in Nat /\ queue[t] \in Seq(Nat)
        /\ DOMAIN pending \subseteq Nat
        /\ conn \in [Sockets -> {"closed", "subscribed", "replaying", "live"}]
        /\ queue \in [Sockets -> Seq(Nat)] /\ pos \in [Sockets -> Nat]
    BY DEF IInv, TypeOK
  <1>2. /\ last <= eventSeq
        /\ \A n \in DOMAIN pending : last < n /\ n <= eventSeq
    BY DEF IInv, InRange
  <1>3. Increasing(queue[t])
    BY DEF IInv, Queues
  <1>4. Connected(t) => CapturedWith(t) /\ InQueue(t) /\ t \in subs
    BY DEF IInv, Captured, NothingSlipsThrough, InQueue, Subscribers, Connected
  <1>5. ASSUME Connected(t), pending' = pending, last' = last,
               queue'[t] = queue[t], pos'[t] = pos[t]
        PROVE  Goal
    BY <1>4, <1>5 DEF CapturedWith, InQueue
  <1>6. ASSUME NEW p \in Sections,
               Begin(p) \/ AppendEvent(p) \/ AwaitModel(p) \/ Resume(p) \/ End(p)
        PROVE  Goal
    <2>1. UNCHANGED <<last, pending, conn, queue, pos>>
      BY <1>6 DEF Begin, AppendEvent, AwaitModel, Resume, End, EndSection, EndSilently,
                  EndRaised, hubVars, socketVars
    <2> QED BY <2>1, <1>5 DEF Connected
  <1>7. ASSUME NEW p \in Sections, Publish(p) PROVE Goal
    <2>1. UNCHANGED <<last, conn, queue, pos>>
      BY <1>7 DEF Publish, Accept, hubVars, socketVars
    <2>2. \A n \in DOMAIN pending' :
            \/ n \in DOMAIN pending /\ pending'[n] = pending[n]
            \/ pending'[n] = subs
      <3>1. CASE pending' = pending
        BY <3>1
      <3>2. CASE pending' = [m \in DOMAIN pending \cup {sect[p].next} |->
                                IF m = sect[p].next THEN subs ELSE pending[m]]
        BY <3>2
      <3> QED BY <1>7, <3>1, <3>2 DEF Publish, Accept, hubVars
    <2>3. CapturedWith(t) /\ InQueue(t) /\ t \in subs
      BY <1>4, <2>1 DEF Connected
    <2>4. CapturedWith(t)'
      BY <2>1, <2>2, <2>3 DEF CapturedWith
    <2> QED BY <2>1, <2>3, <2>4 DEF InQueue
  <1>8. ASSUME NEW s \in Sockets, Subscribe(s) PROVE Goal
    <2>1. /\ pending' = pending /\ pos' = pos /\ s # t
          /\ conn'[t] = conn[t] /\ queue'[t] = queue[t]
      BY <1>1, <1>8 DEF Subscribe, Connected
    <2>2. Connected(t) /\ ~(last = 0 /\ DOMAIN pending = {})
      BY <2>1 DEF Connected, IInv, Subscribers
    <2>3. last' = last
      BY <1>8, <2>2 DEF Subscribe, Primed
    <2> QED BY <2>1, <2>2, <2>3, <1>5
  <1>9. ASSUME NEW s \in Sockets, TakeSnapshot(s) PROVE Goal
    <2>1. UNCHANGED <<pending, last, queue>>
      BY <1>9 DEF TakeSnapshot, hubVars
    <2>2. CASE s = t
      <3>1. pos'[t] = eventSeq
        BY <1>1, <1>9, <2>2 DEF TakeSnapshot
      <3>2. CapturedWith(t)'
        BY <1>1, <1>2, <2>1, <3>1 DEF CapturedWith
      <3>3. InQueue(t)'
        BY <1>1, <1>2, <2>1, <3>1 DEF InQueue
      <3> QED BY <3>2, <3>3
    <2>3. CASE s # t
      <3>1. conn'[t] = conn[t] /\ pos'[t] = pos[t]
        BY <1>1, <1>9, <2>3 DEF TakeSnapshot
      <3> QED BY <2>1, <3>1, <1>5 DEF Connected
    <2> QED BY <2>2, <2>3
  <1>10. ASSUME NEW s \in Sockets, Replay(s) PROVE Goal
    <2>1. UNCHANGED <<pending, last, queue, pos>> /\ Connected(t)
      BY <1>1, <1>10 DEF Replay, hubVars, Connected
    <2> QED BY <2>1, <1>5
  <1>11. ASSUME NEW s \in Sockets, Send(s) PROVE Goal
    <2>1. UNCHANGED <<pending, last, conn>>
      BY <1>11 DEF Send, hubVars
    <2>2. Connected(t) /\ CapturedWith(t) /\ InQueue(t)
      BY <2>1, <1>4 DEF Connected
    <2>3. CASE s # t
      <3>1. queue'[t] = queue[t] /\ pos'[t] = pos[t]
        BY <1>1, <1>11, <2>3 DEF Send
      <3> QED BY <2>1, <2>2, <3>1, <1>5
    <2>4. CASE s = t
      <3> DEFINE h == Head(queue[t])
      <3>1. /\ queue'[t] = Tail(queue[t]) /\ queue[t] # <<>>
            /\ pos'[t] = IF h <= pos[t] THEN pos[t] ELSE h
        BY <1>1, <1>11, <2>4 DEF Send, Skips
      <3>2. /\ h \in Nat
            /\ \A i \in DOMAIN queue[t] : queue[t][i] # h =>
                  i - 1 \in DOMAIN Tail(queue[t]) /\ Tail(queue[t])[i - 1] = queue[t][i]
        BY <1>1, <1>3, <3>1, TailFacts
      <3>3. pos'[t] \in Nat /\ pos[t] <= pos'[t] /\ h <= pos'[t]
        BY <1>1, <3>1, <3>2
      <3> HIDE DEF h
      <3>4. CapturedWith(t)'
        BY <1>1, <2>1, <2>2, <3>3 DEF CapturedWith
      <3>5. ASSUME NEW n \in (pos'[t] + 1)..last
            PROVE  \E i \in DOMAIN queue'[t] : queue'[t][i] = n
        <4>1. n \in (pos[t] + 1)..last /\ n # h
          BY <1>1, <3>2, <3>3
        <4>2. PICK i \in DOMAIN queue[t] : queue[t][i] = n
          BY <2>2, <4>1 DEF InQueue
        <4> QED BY <3>1, <3>2, <4>1, <4>2
      <3> QED BY <2>1, <3>4, <3>5 DEF InQueue
    <2> QED BY <2>3, <2>4
  <1>12. ASSUME NEW s \in Sockets, Drop(s) PROVE Goal
    <2>1. /\ UNCHANGED <<pending, last, pos>>
          /\ conn'[t] = conn[t] /\ queue'[t] = queue[t]
      BY <1>1, <1>12 DEF Drop, hubVars, Connected
    <2> QED BY <2>1, <1>5 DEF Connected
  <1>13. ASSUME Deliver PROVE Goal
    <2>1. /\ last' = last + 1 /\ last + 1 \in DOMAIN pending
          /\ DOMAIN pending' = DOMAIN pending \ {last + 1}
          /\ \A n \in DOMAIN pending' : pending'[n] = pending[n]
          /\ UNCHANGED <<conn, pos>>
          /\ queue'[t] = IF t \in pending[last + 1] THEN Append(queue[t], last + 1)
                                                   ELSE queue[t]
      BY <1>13 DEF Deliver, HubFree, Restrict
    <2>2. Connected(t) /\ CapturedWith(t) /\ InQueue(t)
      BY <2>1, <1>4 DEF Connected
    <2>3. CapturedWith(t)'
      BY <2>1, <2>2 DEF CapturedWith
    <2>4. ASSUME NEW n \in (pos[t] + 1)..(last + 1)
          PROVE  \E i \in DOMAIN queue'[t] : queue'[t][i] = n
      <3>1. CASE n = last + 1
        <4>1. t \in pending[last + 1]
          BY <1>1, <2>1, <2>2, <3>1 DEF CapturedWith
        <4>2. queue'[t] = Append(queue[t], last + 1) /\ last + 1 \in Nat
          BY <1>1, <2>1, <4>1
        <4>3. \E i \in DOMAIN Append(queue[t], last + 1) :
                 Append(queue[t], last + 1)[i] = last + 1
          BY <1>1, <4>2, AppendHas
        <4> QED BY <3>1, <4>2, <4>3
      <3>2. CASE n # last + 1
        <4>1. n \in (pos[t] + 1)..last
          BY <1>1, <3>2
        <4>2. PICK i \in DOMAIN queue[t] : queue[t][i] = n
          BY <2>2, <4>1 DEF InQueue
        <4>3. i \in DOMAIN Append(queue[t], last + 1) /\ Append(queue[t], last + 1)[i] = n
          BY <1>1, <4>2, AppendHas
        <4> QED BY <2>1, <4>2, <4>3
      <3> QED BY <3>1, <3>2
    <2> QED BY <2>1, <2>3, <2>4 DEF InQueue
  <1>14. ASSUME Prime PROVE Goal
    <2>1. UNCHANGED <<pending, conn, queue, pos>> /\ Connected(t)
      BY <1>14 DEF Prime, socketVars, Connected
    <2>2. ~(last = 0 /\ DOMAIN pending = {})
      BY <2>1 DEF Connected, IInv, Subscribers
    <2>3. last' = last
      BY <1>14, <2>2 DEF Prime, Primed
    <2> QED BY <2>1, <2>3, <1>5
  <1>15. ASSUME Crash PROVE Goal
    <2>1. conn'[t] = "closed"
      BY <1>15 DEF Crash
    <2> QED BY <2>1 DEF Connected
  <1>16. ASSUME UNCHANGED streamVars PROVE Goal
    BY <1>16, <1>5 DEF streamVars, Connected
  <1> QED BY <1>6, <1>7, <1>8, <1>9, <1>10, <1>11, <1>12, <1>13, <1>14, <1>15, <1>16
          DEF Next, Section, Handler

LEMMA NextIInv == IInv /\ [Next]_streamVars => IInv'
  BY NextType, NextRange, NextSubscribers, NextQueues, NextCaptured DEF IInv

\* TypeOK holds in every reachable state of the stream.
THEOREM StreamTypeCorrect == Spec => []TypeOK
  <1>1. IInv => TypeOK
    BY DEF IInv
  <1> QED BY InitIInv, NextIInv, <1>1, PTL DEF Spec

\* A subscriber misses nothing between its snapshot and its queue, whatever the
\* sections publish and whenever it subscribed (EventHub, run_websocket).
THEOREM StreamLosesNothing == Spec => []NothingSlipsThrough
  <1>1. IInv => NothingSlipsThrough
    BY DEF IInv
  <1> QED BY InitIInv, NextIInv, <1>1, PTL DEF Spec

\* What a handler sends is the next event or one the client knows.
LEMMA SendsTheNext ==
    ASSUME IInv, NEW s \in Sockets, Send(s)
    PROVE  \/ pos' = pos
           \/ pos' = [pos EXCEPT ![s] = @ + 1] /\ pos[s] < eventSeq
  <1> DEFINE h == Head(queue[s])
  <1>1. /\ last \in Nat /\ eventSeq \in Nat /\ pos[s] \in Nat /\ queue[s] \in Seq(Nat)
        /\ pos \in [Sockets -> Nat]
        /\ Increasing(queue[s]) /\ last <= eventSeq
        /\ \A i \in DOMAIN queue[s] : queue[s][i] <= last
    BY DEF IInv, TypeOK, Queues, InRange
  <1>2. \A n \in (pos[s] + 1)..last : \E i \in DOMAIN queue[s] : queue[s][i] = n
    BY DEF IInv, NothingSlipsThrough, Send
  <1>3. /\ queue[s] # <<>>
        /\ pos' = [pos EXCEPT ![s] = IF h <= pos[s] THEN pos[s] ELSE h]
    BY DEF Send, Skips
  <1>4. /\ h \in Nat /\ h <= last
        /\ \A i \in DOMAIN queue[s] : h <= queue[s][i]
    BY <1>1, <1>3, TailFacts
  <1> HIDE DEF h
  <1>5. CASE h > pos[s]
    <2>1. pos[s] + 1 \in (pos[s] + 1)..last
      BY <1>1, <1>4, <1>5
    <2>2. PICK i \in DOMAIN queue[s] : queue[s][i] = pos[s] + 1
      BY <1>2, <2>1
    <2>3. h <= pos[s] + 1
      BY <1>4, <2>2
    <2>4. h = pos[s] + 1 /\ pos[s] < eventSeq
      BY <1>1, <1>4, <1>5, <2>1, <2>3
    <2> QED BY <1>1, <1>3, <2>4
  <1>6. CASE ~(h > pos[s])
    BY <1>1, <1>3, <1>4, <1>6
  <1> QED BY <1>5, <1>6

\* A client that stays connected is told the next event or none: what waits in
\* its queue beyond its position begins with the next event.
THEOREM StreamTellsOneByOne == Spec => ToldOneByOne
  <1>1. IInv /\ [Next]_streamVars =>
            \A t \in Sockets : conn[t] = "live" /\ conn'[t] = "live" =>
                pos'[t] \in {pos[t], pos[t] + 1}
    <2> SUFFICES ASSUME IInv, [Next]_streamVars, NEW t \in Sockets,
                        conn[t] = "live", conn'[t] = "live"
                 PROVE  pos'[t] \in {pos[t], pos[t] + 1}
      OBVIOUS
    <2>1. /\ pos \in [Sockets -> Nat]
          /\ conn \in [Sockets -> {"closed", "subscribed", "replaying", "live"}]
      BY DEF IInv, TypeOK
    <2>2. ASSUME NEW s \in Sockets, Send(s) PROVE pos'[t] \in {pos[t], pos[t] + 1}
      BY <2>1, <2>2, SendsTheNext
    <2>3. ASSUME NEW p \in Sections, Section(p) PROVE pos' = pos
      BY <2>3 DEF Section, Begin, AppendEvent, AwaitModel, Resume, End, EndSection,
                  EndSilently, EndRaised, Publish, socketVars
    <2>4. ASSUME NEW s \in Sockets, Subscribe(s) \/ Replay(s) \/ Drop(s)
          PROVE  pos' = pos
      BY <2>4 DEF Subscribe, Replay, Drop
    <2>5. ASSUME NEW s \in Sockets, TakeSnapshot(s)
          PROVE  pos'[t] \in {pos[t], pos[t] + 1}
      BY <2>1, <2>5 DEF TakeSnapshot
    <2>6. ASSUME Deliver \/ Prime \/ Crash \/ UNCHANGED streamVars PROVE pos' = pos
      BY <2>6 DEF Deliver, Prime, Crash, socketVars, streamVars
    <2> QED BY <2>2, <2>3, <2>4, <2>5, <2>6 DEF Next, Handler
  <1>2. IInv /\ [Next]_streamVars =>
            [\A s \in Sockets : conn[s] = "live" /\ conn'[s] = "live" =>
                pos'[s] \in {pos[s], pos[s] + 1}]_streamVars
    BY <1>1
  <1> QED BY InitIInv, NextIInv, <1>2, PTL DEF Spec, ToldOneByOne

-----------------------------------------------------------------------------
(* The stream implements the feed *)

Up == {s \in Sockets : conn[s] \in {"replaying", "live"}}

LEMMA FeedInit == Init => Feed!Init
  BY DEF Init, Feed!Init

LEMMA FeedStep ==
    IInv /\ [Next]_streamVars => [Feed!Next]_<<eventSeq, Up, pos>>
  <1> SUFFICES ASSUME IInv, [Next]_streamVars
               PROVE  Feed!Next \/ UNCHANGED <<eventSeq, Up, pos>>
    BY DEF Up
  <1>1. /\ eventSeq \in Nat /\ saved \in Nat /\ saved <= eventSeq
        /\ pos \in [Sockets -> Nat]
        /\ conn \in [Sockets -> {"closed", "subscribed", "replaying", "live"}]
    BY DEF IInv, TypeOK, InRange
  <1>2. ASSUME NEW p \in Sections, AppendEvent(p) PROVE Feed!Emit
    BY <1>1, <1>2 DEF AppendEvent, socketVars, Feed!Emit
  <1>3. ASSUME NEW p \in Sections,
               Begin(p) \/ AwaitModel(p) \/ Resume(p) \/ End(p) \/ Publish(p)
        PROVE  UNCHANGED <<eventSeq, Up, pos>>
    BY <1>3 DEF Begin, AwaitModel, Resume, End, EndSection, EndSilently, EndRaised,
                Publish, socketVars, Up
  <1>4. ASSUME NEW s \in Sockets, Subscribe(s) \/ Replay(s)
        PROVE  UNCHANGED <<eventSeq, Up, pos>>
    BY <1>1, <1>4 DEF Subscribe, Replay, runVars, Up
  <1>5. ASSUME NEW s \in Sockets, TakeSnapshot(s) PROVE Feed!Join(s)
    BY <1>1, <1>5 DEF TakeSnapshot, runVars, Feed!Join
  <1>6. ASSUME NEW s \in Sockets, Send(s)
        PROVE  Feed!Tell(s) \/ UNCHANGED <<eventSeq, Up, pos>>
    <2>1. conn' = conn /\ eventSeq' = eventSeq /\ conn[s] = "live"
      BY <1>6 DEF Send, runVars
    <2> QED BY <1>6, <2>1, SendsTheNext DEF Feed!Tell, Up
  <1>7. ASSUME NEW s \in Sockets, Drop(s)
        PROVE  Feed!Leave(s) \/ UNCHANGED <<eventSeq, Up, pos>>
    BY <1>1, <1>7 DEF Drop, runVars, Feed!Leave, Up
  <1>8. ASSUME Deliver \/ Prime \/ UNCHANGED streamVars
        PROVE  UNCHANGED <<eventSeq, Up, pos>>
    BY <1>8 DEF Deliver, Prime, runVars, socketVars, streamVars, Up
  <1>9. ASSUME Crash PROVE Feed!Restart
    BY <1>1, <1>9 DEF Crash, Feed!Restart
  <1> QED BY <1>2, <1>3, <1>4, <1>5, <1>6, <1>7, <1>8, <1>9
          DEF Next, Section, Handler, Feed!Next

\* Whatever sections overlap, publish twice, silently or not at all, and however
\* often connections break and the process restarts, the stream behaves as the
\* feed of EventFeed (Run.append_event to run_websocket).
THEOREM StreamImplementsFeed == Spec => FeedSpec
  <1>1. IInv /\ [Next]_streamVars => [Feed!Next]_(Feed!feedVars)
    BY FeedStep DEF Up, Feed!feedVars
  <1> QED BY InitIInv, NextIInv, FeedInit, <1>1, PTL DEF Spec, FeedSpec, Feed!Spec

-----------------------------------------------------------------------------
(* Without commands that raise, what clients are told is saved *)

\* outside a section everything is saved; what is on its way to a client is too
Durable ==
    /\ used.raised = 0
    /\ lock = "free" => saved = eventSeq
    /\ \A p \in Sections : sect[p].upto <= saved
    /\ \A n \in DOMAIN pending : n <= saved
    /\ \A s \in Sockets : \A i \in DOMAIN queue[s] : queue[s][i] <= saved
    /\ ToldIsDurable

LEMMA NextDurable ==
    ASSUME MaxRaised = 0, IInv, Durable, [Next]_streamVars
    PROVE  Durable'
  <1>1. /\ eventSeq \in Nat /\ saved \in Nat /\ saved <= eventSeq
        /\ lock \in Sections \cup {"free"}
        /\ sect \in [Sections -> [at: {"idle", "open", "waiting", "publishing"},
                                  next: Nat, upto: Nat]]
        /\ conn \in [Sockets -> {"closed", "subscribed", "replaying", "live"}]
        /\ queue \in [Sockets -> Seq(Nat)] /\ pos \in [Sockets -> Nat]
        /\ used \in [{"silent", "raised", "drops", "crashes"} -> Nat]
        /\ DOMAIN pending \subseteq Nat /\ last \in Nat
    BY DEF IInv, TypeOK, InRange
  <1>2. \A s \in Sockets : Increasing(queue[s])
    BY DEF IInv, Queues
  <1> USE StreamAssumption DEF Durable, ToldIsDurable
  <1>3. ASSUME NEW p \in Sections, Begin(p) \/ AppendEvent(p) \/ Resume(p)
        PROVE  Durable'
    <2>1. UNCHANGED <<saved, used, pending, queue, conn, pos>>
      BY <1>3 DEF Begin, AppendEvent, Resume, hubVars, socketVars
    <2>2. lock' # "free"
      BY <1>3 DEF Begin, AppendEvent, Resume
    <2>3. \A q \in Sections : sect'[q].upto <= saved
      BY <1>1, <1>3, SMTT(30) DEF Begin, AppendEvent, Resume
    <2> QED BY ONLY <2>1, <2>2, <2>3, Durable DEF Durable, ToldIsDurable
  <1>4. ASSUME NEW p \in Sections, AwaitModel(p) \/ EndSection(p) \/ EndSilently(p)
        PROVE  Durable'
    <2>1. /\ saved' = eventSeq /\ eventSeq' = eventSeq
          /\ UNCHANGED <<pending, queue, conn, pos>> /\ used'.raised = used.raised
      BY <1>1, <1>4 DEF AwaitModel, EndSection, EndSilently, Use, hubVars, socketVars
    <2>2. \A q \in Sections : sect'[q].upto <= eventSeq
      <3>1. \A q \in Sections : sect[q].upto \in Nat /\ sect[q].upto <= saved
        BY <1>1
      <3>2. ASSUME NEW q \in Sections
            PROVE  \/ sect'[q].upto = 0
                   \/ sect'[q].upto = eventSeq
                   \/ sect'[q].upto = sect[q].upto
        <4>1. CASE AwaitModel(p)
          BY ONLY <1>1, <4>1 DEF AwaitModel
        <4>2. CASE EndSection(p)
          BY ONLY <1>1, <4>2 DEF EndSection, ToPublish
        <4>3. CASE EndSilently(p)
          BY ONLY <1>1, <4>3 DEF EndSilently, Idle
        <4> QED BY <1>4, <4>1, <4>2, <4>3
      <3>3. eventSeq \in Nat /\ saved \in Nat /\ saved <= eventSeq
        BY <1>1
      <3> QED BY ONLY <3>1, <3>2, <3>3
    <2>3. \A s \in Sockets : \A i \in DOMAIN queue[s] : queue[s][i] <= eventSeq
      <3>1. \A s \in Sockets : \A i \in DOMAIN queue[s] :
              queue[s][i] \in Nat /\ queue[s][i] <= saved
        BY <1>1
      <3> QED BY ONLY <1>1, <3>1
    <2>4. \A n \in DOMAIN pending : n <= eventSeq
      BY <1>1
    <2>5. \A s \in Sockets : conn[s] \in {"replaying", "live"} => pos[s] <= eventSeq
      BY <1>1
    <2> QED BY ONLY <2>1, <2>2, <2>3, <2>4, <2>5, Durable DEF Durable, ToldIsDurable
  <1>5. ASSUME NEW p \in Sections, EndRaised(p) PROVE Durable'
    BY <1>5 DEF EndRaised
  <1>6. ASSUME NEW p \in Sections, Publish(p) PROVE Durable'
    <2>1. UNCHANGED <<saved, eventSeq, lock, used, queue, conn, pos>>
      BY <1>6 DEF Publish, socketVars
    <2>2. \A q \in Sections : sect'[q].upto <= saved
      <3>1. CASE sect' = [sect EXCEPT ![p] = Idle]
        BY <1>1, <3>1 DEF Idle
      <3>2. CASE sect' = [sect EXCEPT ![p].next = @ + 1]
        BY <1>1, <3>2
      <3> QED BY <1>6, <3>1, <3>2 DEF Publish
    <2>3. \/ DOMAIN pending' \subseteq DOMAIN pending
          \/ /\ DOMAIN pending' = DOMAIN pending \cup {sect[p].next}
             /\ sect[p].next <= sect[p].upto
      <3>0. sect[p].next \in Nat /\ sect[p].upto \in Nat
        BY <1>1
      <3>1. CASE sect[p].next > sect[p].upto \/ sect[p].next <= last
        BY ONLY <3>1, <1>6 DEF Publish, Accept, hubVars
      <3>2. CASE ~(sect[p].next > sect[p].upto \/ sect[p].next <= last)
        <4>1. pending' = [m \in DOMAIN pending \cup {sect[p].next} |->
                             IF m = sect[p].next THEN subs ELSE pending[m]]
          BY ONLY <3>2, <1>6 DEF Publish, Accept, hubVars
        <4> QED BY ONLY <3>0, <3>2, <4>1
      <3> QED BY <3>1, <3>2
    <2>4. \A n \in DOMAIN pending' : n <= saved
      BY <1>1, <2>3
    <2> QED BY ONLY <2>1, <2>2, <2>4, Durable DEF Durable, ToldIsDurable
  <1>7. ASSUME NEW s \in Sockets, Subscribe(s) \/ Drop(s) PROVE Durable'
    <2>1. /\ UNCHANGED <<saved, eventSeq, lock, sect, pending, pos>>
          /\ used'.raised = used.raised
      BY <1>1, <1>7 DEF Subscribe, Drop, Use, runVars, hubVars
    <2>2. /\ conn'[s] \notin {"replaying", "live"} /\ queue'[s] = <<>>
          /\ \A t \in Sockets \ {s} : conn'[t] = conn[t] /\ queue'[t] = queue[t]
      BY <1>1, <1>7 DEF Subscribe, Drop
    <2> QED BY ONLY <2>1, <2>2, Durable DEF Durable, ToldIsDurable
  <1>8. ASSUME NEW s \in Sockets, TakeSnapshot(s) PROVE Durable'
    <2>1. UNCHANGED <<saved, eventSeq, lock, sect, pending, queue, used>>
          /\ lock = "free"
      BY <1>8 DEF TakeSnapshot, runVars, hubVars
    <2>2. pos'[s] = eventSeq
          /\ \A t \in Sockets \ {s} : conn'[t] = conn[t] /\ pos'[t] = pos[t]
      BY <1>1, <1>8 DEF TakeSnapshot
    <2> QED BY ONLY <1>1, <2>1, <2>2, Durable DEF Durable, ToldIsDurable
  <1>9. ASSUME NEW s \in Sockets, Replay(s) PROVE Durable'
    <2>1. UNCHANGED <<saved, eventSeq, lock, sect, pending, queue, used, pos>>
      BY <1>9 DEF Replay, runVars, hubVars
    <2>2. conn[s] = "replaying" /\ \A t \in Sockets \ {s} : conn'[t] = conn[t]
      BY <1>1, <1>9 DEF Replay
    <2> QED BY ONLY <2>1, <2>2, Durable DEF Durable, ToldIsDurable
  <1>10. ASSUME NEW s \in Sockets, Send(s) PROVE Durable'
    <2> DEFINE h == Head(queue[s])
    <2>1. /\ UNCHANGED <<saved, eventSeq, lock, sect, pending, used, conn>>
          /\ queue[s] # <<>> /\ conn[s] = "live"
          /\ queue'[s] = Tail(queue[s])
          /\ pos'[s] = IF h <= pos[s] THEN pos[s] ELSE h
          /\ \A t \in Sockets \ {s} : queue'[t] = queue[t] /\ pos'[t] = pos[t]
      BY <1>1, <1>10 DEF Send, Skips, runVars, hubVars
    <2>2. /\ h \in Nat /\ 1 \in DOMAIN queue[s] /\ h = queue[s][1]
          /\ \A i \in DOMAIN Tail(queue[s]) :
                i + 1 \in DOMAIN queue[s] /\ Tail(queue[s])[i] = queue[s][i + 1]
      BY <1>1, <1>2, <2>1, TailFacts
    <2> HIDE DEF h
    <2>3. h <= saved /\ \A i \in DOMAIN Tail(queue[s]) : Tail(queue[s])[i] <= saved
      BY <2>2
    <2> QED BY ONLY <2>1, <2>3, Durable DEF Durable, ToldIsDurable
  <1>11. ASSUME Deliver PROVE Durable'
    <2>1. /\ UNCHANGED <<saved, eventSeq, lock, sect, conn, pos, used>>
          /\ last + 1 \in DOMAIN pending /\ DOMAIN pending' \subseteq DOMAIN pending
          /\ \A t \in Sockets : \/ queue'[t] = queue[t]
                               \/ queue'[t] = Append(queue[t], last + 1)
      BY ONLY <1>11 DEF Deliver, HubFree, Restrict, runVars
    <2>2. ASSUME NEW t \in Sockets, NEW i \in DOMAIN Append(queue[t], last + 1)
          PROVE  Append(queue[t], last + 1)[i] <= saved
      <3>1. /\ DOMAIN Append(queue[t], last + 1) = 1..(Len(queue[t]) + 1)
            /\ DOMAIN queue[t] = 1..Len(queue[t]) /\ Len(queue[t]) \in Nat
            /\ \A j \in 1..Len(queue[t]) : Append(queue[t], last + 1)[j] = queue[t][j]
            /\ Append(queue[t], last + 1)[Len(queue[t]) + 1] = last + 1
        BY <1>1
      <3>2. last + 1 <= saved /\ \A j \in DOMAIN queue[t] : queue[t][j] <= saved
        BY <2>1
      <3>3. i \in 1..Len(queue[t]) \/ i = Len(queue[t]) + 1
        BY ONLY <3>1
      <3> QED BY ONLY <3>1, <3>2, <3>3
    <2>3. \A t \in Sockets : \A i \in DOMAIN queue'[t] : queue'[t][i] <= saved
      BY ONLY <2>1, <2>2, Durable DEF Durable
    <2> QED BY ONLY <2>1, <2>3, Durable DEF Durable, ToldIsDurable
  <1>12. ASSUME Prime PROVE Durable'
    BY <1>12 DEF Prime, runVars, socketVars
  <1>13. ASSUME Crash PROVE Durable'
    <2>1. /\ saved' = saved /\ eventSeq' = saved /\ used'.raised = used.raised
          /\ \A q \in Sections : sect'[q].upto = 0
          /\ DOMAIN pending' = {}
          /\ \A s \in Sockets : queue'[s] = <<>> /\ conn'[s] = "closed"
      BY <1>1, <1>13 DEF Crash, Idle, Nothing, Use
    <2> QED BY ONLY <1>1, <2>1, Durable DEF Durable, ToldIsDurable
  <1>14. ASSUME UNCHANGED streamVars PROVE Durable'
    BY <1>14 DEF streamVars
  <1> QED BY <1>3, <1>4, <1>5, <1>6, <1>7, <1>8, <1>9, <1>10, <1>11, <1>12, <1>13, <1>14
          DEF Next, Section, Handler, End

\* Clients are told only what a restart keeps, whatever sections overlap and
\* whenever the process stops, as long as no command raises after it appended an
\* event (repository.save before release and before publish).
THEOREM StreamTellsTheDurable ==
    ASSUME MaxRaised = 0 PROVE Spec => []ToldIsDurable
  <1>1. Init => Durable
    BY DEF Init, Durable, ToldIsDurable, Idle, Nothing
  <1>2. IInv /\ Durable /\ [Next]_streamVars => Durable'
    BY NextDurable
  <1>3. Durable => ToldIsDurable
    BY DEF Durable
  <1> QED BY InitIInv, NextIInv, <1>1, <1>2, <1>3, PTL DEF Spec

-----------------------------------------------------------------------------
(* The browser's view *)

\* The records of the browser's store.
Stores == [seq: Nat, known: SUBSET Nat, shown: SUBSET Nat,
           since: Nat, back: BOOLEAN, ahead: BOOLEAN]

\* The three parts of ViewIsFaithful for one client, with what carries them from step to
\* step: a live connection is not ahead of a store that was never taken back; and what the
\* store may still fall behind of, the connection's afterSeq and its position, was shown.
Sees(s) ==
    /\ ~store[s].back => store[s].known = 1..store[s].seq
    /\ conn[s] = "live" /\ ~store[s].back => pos[s] <= store[s].seq
    /\ store[s].since > 0 /\ ~store[s].ahead =>
          /\ (store[s].since + 1)..store[s].seq \subseteq store[s].shown
          /\ (store[s].since + 1)..after[s] \subseteq store[s].shown
          /\ conn[s] = "live" => (store[s].since + 1)..pos[s] \subseteq store[s].shown
    /\ conn[s] = "subscribed" => after[s] <= eventSeq
    /\ conn[s] = "replaying" => after[s] <= pos[s]
    /\ store[s].seq <= saved /\ \A n \in http[s] : n <= saved

\* The inductive invariant of the stream and the clients.
StreamInv == IInv /\ Durable
ClientInv == StreamInv /\ ClientTypeOK /\ \A s \in Sockets : Sees(s)

\* What ClientTypeOK says of one client.
LEMMA ClientTypes ==
    ASSUME TypeOK, ClientTypeOK, NEW s \in Sockets
    PROVE  /\ store[s] \in Stores /\ after[s] \in Nat /\ http[s] \subseteq Nat
           /\ pos[s] \in Nat /\ eventSeq \in Nat /\ saved \in Nat
  BY DEF TypeOK, ClientTypeOK, Stores

\* What the two reducers do.
LEMMA SnapshotDoes ==
    ASSUME NEW st \in Stores, NEW n \in Nat
    PROVE  /\ WithSnapshot(st, n) \in Stores
           /\ WithSnapshot(st, n).seq = n /\ WithSnapshot(st, n).known = 1..n
           /\ WithSnapshot(st, n).shown = st.shown /\ WithSnapshot(st, n).since = st.since
           /\ WithSnapshot(st, n).back = st.back /\ WithSnapshot(st, n).ahead = st.ahead
  <1>1. 1..n \subseteq Nat
    OBVIOUS
  <1> QED BY <1>1 DEF WithSnapshot, Stores

LEMMA ReducedDoes ==
    ASSUME NEW st \in Stores, NEW n \in Nat, n > st.seq
    PROVE  /\ Reduced(st, n) \in Stores
           /\ Reduced(st, n).seq = n /\ Reduced(st, n).known = st.known \cup {n}
           /\ Reduced(st, n).shown = st.shown \cup {n} /\ Reduced(st, n).since = st.since
           /\ Reduced(st, n).back = st.back /\ Reduced(st, n).ahead = st.ahead
  <1>1. ~(n <= st.seq)
    BY DEF Stores
  <1> QED BY <1>1 DEF Reduced, Stores

LEMMA ReducedKeeps ==
    ASSUME NEW st \in Stores, NEW n \in Nat, ~(n > st.seq)
    PROVE  Reduced(st, n) = st
  <1>1. n <= st.seq
    BY DEF Stores
  <1> QED BY <1>1 DEF Reduced

-----------------------------------------------------------------------------
\* What a client sees survives what does not concern it, and the end of its connection.
LEMMA SeesStays ==
    ASSUME NEW s \in Sockets, TypeOK, ClientTypeOK, Sees(s),
           store'[s] = store[s], after'[s] = after[s], http'[s] = http[s],
           pos'[s] = pos[s], conn'[s] \in {conn[s], "closed"},
           saved \in Nat, saved' \in Nat, saved <= saved',
           conn'[s] = "subscribed" => eventSeq <= eventSeq', eventSeq' \in Nat
    PROVE  Sees(s)'
  <1>1. /\ store[s].seq \in Nat /\ http[s] \subseteq Nat /\ after[s] \in Nat /\ eventSeq \in Nat
    BY ClientTypes DEF Stores
  <1>2. store'[s].seq <= saved' /\ \A n \in http'[s] : n <= saved'
    BY <1>1 DEF Sees
  <1>3. conn'[s] = "subscribed" => after'[s] <= eventSeq'
    BY <1>1 DEF Sees
  <1>4. /\ conn'[s] = "live" => conn[s] = "live"
        /\ conn'[s] = "replaying" => conn[s] = "replaying"
    OBVIOUS
  <1> QED BY <1>2, <1>3, <1>4, Zenon DEF Sees

\* So it does when the server goes on without the client.
LEMMA ServerSees ==
    ASSUME StreamInv, ClientTypeOK, StreamInv', Server, NEW s \in Sockets, Sees(s)
    PROVE  Sees(s)'
  <1>1. /\ TypeOK /\ TypeOK' /\ saved \in Nat /\ saved' \in Nat /\ saved <= eventSeq
        /\ eventSeq \in Nat /\ eventSeq' \in Nat
        /\ conn \in [Sockets -> {"closed", "subscribed", "replaying", "live"}]
        /\ pos \in [Sockets -> Nat]
    BY DEF StreamInv, IInv, TypeOK, InRange
  <1>2. store' = store /\ after' = after /\ http' = http /\ asked' = asked
    BY DEF Server, clientVars
  <1>3. ASSUME pos'[s] = pos[s], conn'[s] \in {conn[s], "closed"}, saved <= saved',
               conn'[s] = "subscribed" => eventSeq <= eventSeq'
        PROVE  Sees(s)'
    BY <1>1, <1>2, <1>3, SeesStays
  <1>4. ASSUME NEW p \in Sections, Section(p)
        PROVE  Sees(s)'
    <2>1. /\ pos' = pos /\ conn' = conn
          /\ saved' \in {saved, eventSeq} /\ eventSeq' \in {eventSeq, eventSeq + 1}
      BY <1>4 DEF Section, Begin, AppendEvent, AwaitModel, Resume, End, EndSection,
                  EndSilently, EndRaised, Publish, socketVars
    <2>2. saved <= saved' /\ eventSeq <= eventSeq'
      BY <1>1, <2>1
    <2> QED BY <1>3, <2>1, <2>2
  <1>5. ASSUME NEW t \in Sockets, TakeSnapshot(t)
        PROVE  Sees(s)'
    <2>1. /\ saved' = saved /\ eventSeq' = eventSeq /\ conn[t] = "subscribed"
          /\ pos' = [pos EXCEPT ![t] = eventSeq] /\ conn' = [conn EXCEPT ![t] = "replaying"]
      BY <1>5 DEF TakeSnapshot, runVars
    <2>2. CASE s = t
      <3>1. /\ pos'[s] = eventSeq /\ conn'[s] = "replaying" /\ conn[s] = "subscribed"
        BY <1>1, <2>1, <2>2
      <3>2. after'[s] <= pos'[s]
        BY <1>2, <3>1 DEF Sees
      <3> QED BY <1>2, <2>1, <3>1, <3>2 DEF Sees
    <2>3. CASE s # t
      BY <1>1, <1>3, <2>1, <2>3
    <2> QED BY <2>2, <2>3
  <1>6. ASSUME NEW t \in Sockets, Drop(t)
        PROVE  Sees(s)'
    <2>1. /\ saved' = saved /\ eventSeq' = eventSeq /\ pos' = pos
          /\ conn' = [conn EXCEPT ![t] = "closed"]
      BY <1>6 DEF Drop, runVars
    <2> QED BY <1>1, <1>3, <2>1
  <1>7. ASSUME Deliver \/ Prime
        PROVE  Sees(s)'
    <2>1. saved' = saved /\ eventSeq' = eventSeq /\ pos' = pos /\ conn' = conn
      BY <1>7 DEF Deliver, Prime, runVars, socketVars
    <2> QED BY <1>1, <1>3, <2>1
  <1>8. ASSUME Crash
        PROVE  Sees(s)'
    <2>1. saved' = saved /\ pos' = pos /\ conn'[s] = "closed"
      BY <1>8 DEF Crash
    <2> QED BY <1>1, <1>3, <2>1
  <1> QED BY <1>4, <1>5, <1>6, <1>7, <1>8 DEF Server

\* Each step of a client keeps what every client sees.
LEMMA ConnectSees ==
    ASSUME StreamInv, ClientTypeOK, NEW t \in Sockets, Connect(t), NEW s \in Sockets, Sees(s)
    PROVE  Sees(s)'
  <1>1. /\ TypeOK /\ saved \in Nat /\ saved <= eventSeq /\ eventSeq \in Nat
        /\ conn \in [Sockets -> {"closed", "subscribed", "replaying", "live"}]
        /\ after \in [Sockets -> Nat]
    BY DEF StreamInv, IInv, TypeOK, InRange, ClientTypeOK
  <1>2. /\ store' = store /\ http' = http /\ after' = [after EXCEPT ![t] = store[t].seq]
        /\ saved' = saved /\ eventSeq' = eventSeq /\ pos' = pos
        /\ conn' = [conn EXCEPT ![t] = "subscribed"]
    BY DEF Connect, Subscribe, runVars
  <1>3. CASE s = t
    <2>1. conn'[s] = "subscribed" /\ after'[s] = store[s].seq
      BY <1>1, <1>2, <1>3
    <2>2. store[s].seq \in Nat /\ store[s].seq <= eventSeq
      BY <1>1, ClientTypes DEF Sees, Stores
    <2> QED BY <1>2, <2>1, <2>2 DEF Sees
  <1>4. CASE s # t
    <2>1. /\ store'[s] = store[s] /\ after'[s] = after[s] /\ http'[s] = http[s]
          /\ pos'[s] = pos[s] /\ conn'[s] = conn[s]
      BY <1>1, <1>2, <1>4
    <2> QED BY <1>1, <1>2, <2>1, SeesStays
  <1> QED BY <1>3, <1>4

LEMMA ReplaySees ==
    ASSUME StreamInv, ClientTypeOK, NEW t \in Sockets, ReceiveReplay(t), NEW s \in Sockets,
           Sees(s)
    PROVE  Sees(s)'
  <1>1. /\ TypeOK /\ saved \in Nat /\ eventSeq \in Nat /\ pos[t] \in Nat /\ pos[t] <= saved
        /\ pos \in [Sockets -> Nat]
        /\ conn \in [Sockets -> {"closed", "subscribed", "replaying", "live"}]
        /\ store \in [Sockets -> Stores] /\ store[t] \in Stores
    BY DEF StreamInv, IInv, TypeOK, ClientTypeOK, Stores, Durable, ToldIsDurable,
           ReceiveReplay, Replay
  <1> DEFINE st == store[t]
             mid == [st EXCEPT !.shown = st.shown \cup Replayed(st, after[t], pos[t]),
                               !.since = IF st.since = 0 THEN pos[t] ELSE st.since]
  <1>2. /\ after' = after /\ http' = http
        /\ store' = [store EXCEPT ![t] = AfterReplay(st, after[t], pos[t])]
        /\ saved' = saved /\ eventSeq' = eventSeq /\ pos' = pos
        /\ conn' = [conn EXCEPT ![t] = "live"] /\ conn[t] = "replaying"
    BY DEF ReceiveReplay, Replay, runVars
  <1>3. CASE s = t
    <2>1. Replayed(st, after[t], pos[t]) = {m \in 1..pos[t] : m > after[t] /\ m > st.seq}
      BY DEF Replayed
    <2>2. /\ mid \in Stores /\ mid.back = st.back /\ mid.ahead = st.ahead
          /\ mid.shown = st.shown \cup Replayed(st, after[t], pos[t])
          /\ mid.since = IF st.since = 0 THEN pos[t] ELSE st.since
      <3>1. st.shown \cup Replayed(st, after[t], pos[t]) \subseteq Nat
        BY <1>1, <2>1 DEF Stores
      <3>2. (IF st.since = 0 THEN pos[t] ELSE st.since) \in Nat
        BY <1>1 DEF Stores
      <3> QED BY <1>1, <3>1, <3>2 DEF Stores
    <2> DEFINE new == AfterReplay(st, after[t], pos[t])
    <2>9. new = WithSnapshot(mid, pos[t])
      BY DEF AfterReplay
    <2> HIDE DEF mid, new
    <2>3. /\ new.seq = pos[t] /\ new.known = 1..pos[t] /\ new.shown = mid.shown
          /\ new.since = mid.since /\ new.back = mid.back /\ new.ahead = mid.ahead
      BY <1>1, <2>2, <2>9, SnapshotDoes
    <2>4. store'[s] = new
      BY <1>1, <1>2, <1>3 DEF new
    <2>5. conn'[s] = "live" /\ pos'[s] = pos[t]
      BY <1>1, <1>2, <1>3
    <2>6. st.seq \in Nat /\ st.since \in Nat /\ after[t] \in Nat /\ after[t] <= pos[t]
      BY <1>1, <1>2, <1>3, ClientTypes DEF Sees, Stores
    <2>7. ASSUME new.since > 0, ~new.ahead
          PROVE  (new.since + 1)..pos[t] \subseteq new.shown
      <3>1. SUFFICES ASSUME NEW m \in (new.since + 1)..pos[t]
                     PROVE  m \in new.shown
        OBVIOUS
      <3>2. CASE st.since = 0
        BY <1>1, <2>2, <2>3, <3>1, <3>2
      <3>3. CASE st.since # 0
        <4>1. new.since = st.since /\ st.since > 0 /\ ~st.ahead
          BY <2>2, <2>3, <2>6, <2>7, <3>3
        <4>2. /\ (st.since + 1)..st.seq \subseteq st.shown
              /\ (st.since + 1)..after[t] \subseteq st.shown
          BY <1>3, <4>1 DEF Sees
        <4>3. m \in Nat /\ m >= st.since + 1 /\ m <= pos[t] /\ m >= 1
          BY <1>1, <2>6, <3>1, <4>1
        <4>4. CASE m <= st.seq \/ m <= after[t]
          <5>1. m \in st.shown
            BY <2>6, <4>2, <4>3, <4>4
          <5> QED BY <2>2, <2>3, <5>1
        <4>5. CASE m > st.seq /\ m > after[t]
          <5>1. m \in Replayed(st, after[t], pos[t])
            BY <1>1, <2>1, <4>3, <4>5
          <5> QED BY <2>2, <2>3, <5>1
        <4> QED BY <2>6, <4>3, <4>4, <4>5
      <3> QED BY <3>2, <3>3
    <2>8. ASSUME new.since > 0, ~new.ahead
          PROVE  (new.since + 1)..after[t] \subseteq new.shown
      <3>1. new.since \in Nat
        BY <1>1, <2>2, <2>3, <2>6
      <3>2. (new.since + 1)..after[t] \subseteq (new.since + 1)..pos[t]
        BY <1>1, <2>6, <3>1
      <3> QED BY <2>7, <2>8, <3>2
    <2> QED BY <1>1, <1>2, <1>3, <2>3, <2>4, <2>5, <2>7, <2>8 DEF Sees
  <1>4. CASE s # t
    <2> HIDE DEF mid
    <2>1. /\ store'[s] = store[s] /\ after'[s] = after[s] /\ http'[s] = http[s]
          /\ pos'[s] = pos[s] /\ conn'[s] = conn[s]
      BY <1>1, <1>2, <1>4
    <2> QED BY <1>1, <1>2, <2>1, SeesStays
  <1> QED BY <1>3, <1>4

LEMMA EventSees ==
    ASSUME StreamInv, ClientTypeOK, StreamInv', NEW t \in Sockets, ReceiveEvent(t),
           NEW s \in Sockets, Sees(s)
    PROVE  Sees(s)'
  <1>1. /\ TypeOK /\ saved \in Nat /\ eventSeq \in Nat /\ pos[t] \in Nat
        /\ pos \in [Sockets -> Nat] /\ pos' \in [Sockets -> Nat]
        /\ conn \in [Sockets -> {"closed", "subscribed", "replaying", "live"}]
        /\ store \in [Sockets -> Stores] /\ store[t] \in Stores
    BY DEF StreamInv, IInv, TypeOK, ClientTypeOK, Stores
  <1> DEFINE n == pos'[t]
             st == store[t]
  <1>2. /\ after' = after /\ http' = http
        /\ store' = [store EXCEPT ![t] = IF n = pos[t] THEN st ELSE Reduced(st, n)]
        /\ saved' = saved /\ eventSeq' = eventSeq /\ conn' = conn /\ conn[t] = "live"
    BY DEF ReceiveEvent, Send, runVars
  <1>3. pos' = pos \/ (pos' = [pos EXCEPT ![t] = @ + 1] /\ n = pos[t] + 1)
    BY <1>1, SendsTheNext DEF ReceiveEvent, StreamInv
  <1>4. \A u \in Sockets : u # t => pos'[u] = pos[u] /\ store'[u] = store[u]
    BY <1>1, <1>2, <1>3
  <1>5. CASE s # t
    BY <1>1, <1>2, <1>4, <1>5, SeesStays
  <1>6. CASE s = t /\ pos' = pos
    <2>1. store'[s] = store[s] /\ pos'[s] = pos[s]
      BY <1>1, <1>2, <1>6
    <2> QED BY <1>1, <1>2, <2>1, SeesStays
  <1>7. CASE s = t /\ n = pos[t] + 1
    <2>1. n \in Nat /\ n # pos[t] /\ store'[s] = Reduced(st, n) /\ conn'[s] = "live"
      BY <1>1, <1>2, <1>7
    <2>2. n <= saved
      BY <1>2, <1>7, <2>1 DEF StreamInv, Durable, ToldIsDurable
    <2>3. st.seq \in Nat /\ st.since \in Nat
      BY <1>1 DEF Stores
    <2> HIDE DEF n
    <2>4. CASE n > st.seq
      <3> DEFINE new == Reduced(st, n)
      <3>1. /\ new.seq = n /\ new.known = st.known \cup {n} /\ new.shown = st.shown \cup {n}
            /\ new.since = st.since /\ new.back = st.back /\ new.ahead = st.ahead
        BY <1>1, <2>1, <2>4, ReducedDoes
      <3> HIDE DEF new
      <3>2. ASSUME ~st.back
            PROVE  st.known \cup {n} = 1..n
        <4>1. pos[t] <= st.seq /\ st.known = 1..st.seq
          BY <1>2, <1>7, <3>2 DEF Sees
        <4>2. n = st.seq + 1
          BY <1>1, <1>7, <2>1, <2>3, <2>4, <4>1
        <4> QED BY <2>3, <4>1, <4>2
      <3>3. ASSUME st.since > 0, ~st.ahead
            PROVE  (st.since + 1)..n \subseteq new.shown
        <4>1. (st.since + 1)..pos[t] \subseteq st.shown
          BY <1>2, <1>7, <3>3 DEF Sees
        <4>2. \A m \in (st.since + 1)..n : m = n \/ m \in (st.since + 1)..pos[t]
          BY <1>1, <1>7, <2>1, <2>3
        <4> QED BY <3>1, <4>1, <4>2
      <3>4. ASSUME st.since > 0, ~st.ahead
            PROVE  (st.since + 1)..after[t] \subseteq new.shown
        BY <1>7, <3>1, <3>4 DEF Sees
      <3>5. store'[s] = new /\ pos'[s] = n /\ after'[s] = after[t] /\ http'[s] = http[t]
        BY <1>2, <1>7, <2>1 DEF new, n
      <3>6. \A m \in http[t] : m <= saved
        BY <1>7 DEF Sees
      <3>7. n <= n
        BY <2>1
      <3> QED BY ONLY <1>2, <2>1, <2>2, <3>1, <3>2, <3>3, <3>4, <3>5, <3>6, <3>7 DEF Sees
    <2>5. CASE ~(n > st.seq)
      <3>1. store'[s] = st /\ pos'[s] = n
        BY <1>1, <2>1, <2>5, <1>7, ReducedKeeps DEF n
      <3>2. n <= st.seq
        BY <2>1, <2>3, <2>5
      <3>3. st.since > 0 /\ ~st.ahead => (st.since + 1)..n \subseteq st.shown
        <4>1. SUFFICES ASSUME st.since > 0, ~st.ahead
                       PROVE  (st.since + 1)..n \subseteq st.shown
          OBVIOUS
        <4>2. (st.since + 1)..st.seq \subseteq st.shown
          BY <1>7, <4>1 DEF Sees
        <4>3. (st.since + 1)..n \subseteq (st.since + 1)..st.seq
          BY <2>1, <2>3, <3>2
        <4> QED BY <4>2, <4>3
      <3> QED BY <1>2, <1>7, <2>1, <3>1, <3>2, <3>3 DEF Sees
    <2> QED BY <2>4, <2>5
  <1> QED BY <1>3, <1>5, <1>6, <1>7

LEMMA RespondSees ==
    ASSUME StreamInv, ClientTypeOK, NEW t \in Sockets, Respond(t), NEW s \in Sockets, Sees(s)
    PROVE  Sees(s)'
  <1>1. /\ TypeOK /\ saved \in Nat /\ eventSeq = saved /\ http \in [Sockets -> SUBSET Nat]
    BY DEF StreamInv, IInv, TypeOK, Durable, Respond, ClientTypeOK
  <1>2. /\ store' = store /\ after' = after /\ saved' = saved /\ eventSeq' = eventSeq
        /\ pos' = pos /\ conn' = conn
        /\ http' = [http EXCEPT ![t] = @ \cup {eventSeq}]
    BY DEF Respond, streamVars
  <1>3. \A n \in http'[s] : n \in http[s] \/ n = saved
    BY <1>1, <1>2
  <1>4. \A n \in http'[s] : n <= saved
    BY <1>1, <1>3 DEF Sees
  <1> QED BY <1>2, <1>4 DEF Sees

LEMMA ResponseSees ==
    ASSUME StreamInv, ClientTypeOK, NEW t \in Sockets, ReceiveResponse(t), NEW s \in Sockets,
           Sees(s)
    PROVE  Sees(s)'
  <1>1. /\ TypeOK /\ saved \in Nat /\ eventSeq \in Nat /\ http \in [Sockets -> SUBSET Nat]
        /\ store \in [Sockets -> Stores] /\ store[t] \in Stores
    BY DEF StreamInv, IInv, TypeOK, ClientTypeOK, Stores
  <1>2. PICK n \in http[t] :
          /\ store' = [store EXCEPT ![t] = AfterResponse(@, n)]
          /\ http' = [http EXCEPT ![t] = @ \ {n}]
    BY DEF ReceiveResponse
  <1>3. /\ after' = after /\ saved' = saved /\ eventSeq' = eventSeq /\ pos' = pos
        /\ conn' = conn
    BY DEF ReceiveResponse, streamVars
  <1>4. CASE s # t
    <2>1. store'[s] = store[s] /\ http'[s] = http[s]
      BY <1>1, <1>2, <1>4
    <2> QED BY <1>1, <1>3, <2>1, SeesStays
  <1>5. CASE s = t
    <2> DEFINE st == store[t]
               mid == [st EXCEPT !.back = st.back \/ n < st.seq,
                                 !.ahead = st.ahead \/ n > st.seq]
               new == AfterResponse(st, n)
    <2>1. n \in Nat /\ n <= saved /\ \A m \in http'[s] : m <= saved
      BY <1>1, <1>2, <1>5 DEF Sees
    <2>2. /\ mid \in Stores /\ mid.shown = st.shown /\ mid.since = st.since
          /\ mid.back <=> (st.back \/ n < st.seq)
          /\ mid.ahead <=> (st.ahead \/ n > st.seq)
      BY <1>1 DEF Stores
    <2>3. new = WithSnapshot(mid, n)
      BY DEF AfterResponse
    <2> HIDE DEF mid, new
    <2>4. /\ new.seq = n /\ new.known = 1..n /\ new.shown = st.shown /\ new.since = st.since
          /\ new.back <=> (st.back \/ n < st.seq)
          /\ new.ahead <=> (st.ahead \/ n > st.seq)
      <3>1. /\ new.seq = n /\ new.known = 1..n /\ new.shown = mid.shown
            /\ new.since = mid.since /\ new.back = mid.back /\ new.ahead = mid.ahead
        BY <2>1, <2>2, <2>3, SnapshotDoes
      <3> QED BY <2>2, <3>1
    <2>5. store'[s] = new /\ conn'[s] = conn[t] /\ pos'[s] = pos[t] /\ after'[s] = after[t]
      BY <1>1, <1>2, <1>3, <1>5 DEF new
    <2>6. st.seq \in Nat /\ st.since \in Nat /\ pos[t] \in Nat
      BY <1>1 DEF Stores, TypeOK
    <2>7. ~new.back /\ conn[t] = "live" => pos[t] <= n
      <3>1. ~new.back => ~st.back /\ st.seq <= n
        BY <2>1, <2>4, <2>6
      <3>2. ~st.back /\ conn[t] = "live" => pos[t] <= st.seq
        BY <1>5 DEF Sees
      <3> QED BY <2>1, <2>6, <3>1, <3>2
    <2>8. ASSUME new.since > 0, ~new.ahead
          PROVE  /\ (st.since + 1)..n \subseteq st.shown
                 /\ (st.since + 1)..after[t] \subseteq st.shown
                 /\ conn[t] = "live" => (st.since + 1)..pos[t] \subseteq st.shown
      <3>1. st.since > 0 /\ ~st.ahead /\ n <= st.seq
        BY <2>1, <2>4, <2>6, <2>8
      <3>2. /\ (st.since + 1)..st.seq \subseteq st.shown
            /\ (st.since + 1)..after[t] \subseteq st.shown
            /\ conn[t] = "live" => (st.since + 1)..pos[t] \subseteq st.shown
        BY <1>5, <3>1 DEF Sees
      <3>3. (st.since + 1)..n \subseteq (st.since + 1)..st.seq
        BY <2>1, <2>6, <3>1
      <3> QED BY <3>2, <3>3
    <2>9. /\ conn[t] = "subscribed" => after[t] <= eventSeq
          /\ conn[t] = "replaying" => after[t] <= pos[t]
      BY <1>5 DEF Sees
    <2> QED BY <1>3, <2>1, <2>4, <2>5, <2>7, <2>8, <2>9 DEF Sees
  <1> QED BY <1>4, <1>5
-----------------------------------------------------------------------------
\* The store, the afterSeq and the snapshots under way keep their types.
LEMMA ClientTypeStep ==
    ASSUME StreamInv, StreamInv', ClientTypeOK, [ClientNext]_allVars
    PROVE  ClientTypeOK'
  <1>1. /\ store \in [Sockets -> Stores] /\ after \in [Sockets -> Nat]
        /\ http \in [Sockets -> SUBSET Nat] /\ asked \in Nat /\ eventSeq \in Nat
        /\ pos \in [Sockets -> Nat] /\ pos' \in [Sockets -> Nat]
    BY DEF ClientTypeOK, Stores, StreamInv, IInv, TypeOK
  <1>2. /\ ClientTypeOK <=> /\ store \in [Sockets -> Stores] /\ after \in [Sockets -> Nat]
                            /\ http \in [Sockets -> SUBSET Nat] /\ asked \in Nat
        /\ ClientTypeOK' <=> /\ store' \in [Sockets -> Stores] /\ after' \in [Sockets -> Nat]
                             /\ http' \in [Sockets -> SUBSET Nat] /\ asked' \in Nat
    BY DEF ClientTypeOK, Stores
  <1>3. CASE Server \/ UNCHANGED allVars
    BY <1>1, <1>2, <1>3 DEF Server, allVars, clientVars
  <1>4. ASSUME NEW s \in Sockets, Connect(s)
        PROVE  ClientTypeOK'
    <2>1. store[s].seq \in Nat
      BY <1>1 DEF Stores
    <2> QED BY <1>1, <1>2, <1>4, <2>1 DEF Connect
  <1>5. ASSUME NEW s \in Sockets, ReceiveReplay(s)
        PROVE  ClientTypeOK'
    <2> DEFINE st == store[s]
               mid == [st EXCEPT !.shown = st.shown \cup Replayed(st, after[s], pos[s]),
                                 !.since = IF st.since = 0 THEN pos[s] ELSE st.since]
    <2>1. mid \in Stores
      <3>1. st.shown \cup Replayed(st, after[s], pos[s]) \subseteq Nat
        BY <1>1 DEF Stores, Replayed
      <3>2. (IF st.since = 0 THEN pos[s] ELSE st.since) \in Nat
        BY <1>1 DEF Stores
      <3> QED BY <1>1, <3>1, <3>2 DEF Stores
    <2>2. AfterReplay(st, after[s], pos[s]) = WithSnapshot(mid, pos[s])
      BY DEF AfterReplay
    <2> HIDE DEF mid
    <2>3. AfterReplay(st, after[s], pos[s]) \in Stores
      BY <1>1, <2>1, <2>2, SnapshotDoes
    <2> QED BY <1>1, <1>2, <1>5, <2>3 DEF ReceiveReplay
  <1>6. ASSUME NEW s \in Sockets, ReceiveEvent(s)
        PROVE  ClientTypeOK'
    <2>1. Reduced(store[s], pos'[s]) \in Stores
      <3>1. pos'[s] \in Nat /\ store[s] \in Stores
        BY <1>1
      <3>2. CASE pos'[s] > store[s].seq
        BY <3>1, <3>2, ReducedDoes
      <3>3. CASE ~(pos'[s] > store[s].seq)
        BY <3>1, <3>3, ReducedKeeps
      <3> QED BY <3>2, <3>3
    <2> QED BY <1>1, <1>2, <1>6, <2>1 DEF ReceiveEvent
  <1>7. ASSUME NEW s \in Sockets, Respond(s)
        PROVE  ClientTypeOK'
    BY <1>1, <1>2, <1>7 DEF Respond
  <1>8. ASSUME NEW s \in Sockets, ReceiveResponse(s)
        PROVE  ClientTypeOK'
    <2>1. PICK n \in http[s] :
            /\ store' = [store EXCEPT ![s] = AfterResponse(@, n)]
            /\ http' = [http EXCEPT ![s] = @ \ {n}]
      BY <1>8 DEF ReceiveResponse
    <2> DEFINE st == store[s]
               mid == [st EXCEPT !.back = st.back \/ n < st.seq,
                                 !.ahead = st.ahead \/ n > st.seq]
    <2>2. mid \in Stores /\ n \in Nat
      BY <1>1, <2>1 DEF Stores
    <2>3. AfterResponse(st, n) = WithSnapshot(mid, n)
      BY DEF AfterResponse
    <2> HIDE DEF mid
    <2>4. AfterResponse(st, n) \in Stores
      BY <2>2, <2>3, SnapshotDoes
    <2>5. after' = after /\ asked' = asked
      BY <1>8 DEF ReceiveResponse
    <2> QED BY <1>1, <1>2, <2>1, <2>4, <2>5
  <1> QED BY <1>3, <1>4, <1>5, <1>6, <1>7, <1>8 DEF ClientNext

\* A step of the client is a step of the stream, or leaves it alone.
LEMMA ClientMovesStream == [ClientNext]_allVars => [Next]_streamVars
  BY DEF ClientNext, allVars, Server, Connect, ReceiveReplay, ReceiveEvent, Respond,
         ReceiveResponse, Next, Handler

LEMMA ClientInits == ClientInit => ClientInv
  <1> SUFFICES ASSUME ClientInit
               PROVE  ClientInv
    OBVIOUS
  <1>1. IInv /\ Durable
    BY InitIInv DEF ClientInit, Init, Durable, ToldIsDurable, Idle, Nothing
  <1>2. ClientTypeOK
    BY DEF ClientInit, ClientTypeOK
  <1>3. ASSUME NEW s \in Sockets
        PROVE  Sees(s)
    <2>1. /\ store[s].seq = 1 /\ store[s].known = {1} /\ store[s].since = 0
          /\ http[s] = {} /\ saved = 1 /\ conn[s] = "closed"
      BY DEF ClientInit, Init
    <2> QED BY <2>1 DEF Sees
  <1> QED BY <1>1, <1>2, <1>3 DEF ClientInv, StreamInv

LEMMA ClientStep ==
    ASSUME MaxRaised = 0, ClientInv, [ClientNext]_allVars
    PROVE  ClientInv'
  <1>1. [Next]_streamVars
    BY ClientMovesStream
  <1>2. StreamInv'
    BY <1>1, NextIInv, NextDurable DEF ClientInv, StreamInv
  <1>3. ClientTypeOK'
    BY <1>2, ClientTypeStep DEF ClientInv
  <1>4. ASSUME NEW s \in Sockets
        PROVE  Sees(s)'
    <2>1. StreamInv /\ ClientTypeOK /\ Sees(s)
      BY DEF ClientInv
    <2>2. CASE Server
      BY <1>2, <2>1, <2>2, ServerSees
    <2>3. ASSUME NEW t \in Sockets, Connect(t)
          PROVE  Sees(s)'
      BY <2>1, <2>3, ConnectSees
    <2>4. ASSUME NEW t \in Sockets, ReceiveReplay(t)
          PROVE  Sees(s)'
      BY <2>1, <2>4, ReplaySees
    <2>5. ASSUME NEW t \in Sockets, ReceiveEvent(t)
          PROVE  Sees(s)'
      BY <1>2, <2>1, <2>5, EventSees
    <2>6. ASSUME NEW t \in Sockets, Respond(t)
          PROVE  Sees(s)'
      BY <2>1, <2>6, RespondSees
    <2>7. ASSUME NEW t \in Sockets, ReceiveResponse(t)
          PROVE  Sees(s)'
      BY <2>1, <2>7, ResponseSees
    <2>8. CASE UNCHANGED allVars
      BY <2>1, <2>8 DEF allVars, clientVars, streamVars, Sees
    <2> QED BY <2>2, <2>3, <2>4, <2>5, <2>6, <2>7, <2>8 DEF ClientNext
  <1> QED BY <1>2, <1>3, <1>4 DEF ClientInv

\* As long as no command raises after it appended an event, the browser's store reflects every
\* event up to its number, has shown what it moved past and is never ahead of what a restart
\* keeps: over lost connections, reconnections with afterSeq, restarts and HTTP snapshots in
\* any order, but for the snapshots ViewIsFaithful names (setSnapshot, reduceRunEvent).
THEOREM ClientViewIsFaithful ==
    ASSUME MaxRaised = 0 PROVE ClientSpec => []ViewIsFaithful
  <1>1. ClientInv => ViewIsFaithful
    BY DEF ClientInv, Sees, ViewIsFaithful, StoreIsWhole, NothingUnseen, NeverAhead
  <1>2. ClientInv /\ [ClientNext]_allVars => ClientInv'
    BY ClientStep
  <1> QED BY <1>1, <1>2, ClientInits, PTL DEF ClientSpec
=============================================================================
