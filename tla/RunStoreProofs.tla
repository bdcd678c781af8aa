---------------------------- MODULE RunStoreProofs ----------------------------
(***************************************************************************)
(* Proofs about what a run is stored in.                                   *)
(*                                                                         *)
(* RunStore: its type invariant, that an effect is stored once, and that   *)
(* no save overwrites another, for any workers, commands and values of     *)
(* the bounds.  A save compares one number, the revision; what makes that  *)
(* enough is Current: an aggregate whose revision is the stored one goes   *)
(* on from the stored effects and records.  Known relates effects and      *)
(* records of one aggregate: who had its effect is recorded.               *)
(*                                                                         *)
(* RunTables: its type invariant, that answered commands and vectors stay, *)
(* and that the database refuses a save for the known reasons only, for    *)
(* any conversations, statuses and bounds.  The invariant is TablesInv:    *)
(* every row passes its checks and refers to rows that are there, a row of *)
(* a run hangs on the row of its run by cascading references, the run in   *)
(* memory and the one the last transaction wrote are well formed, and the  *)
(* first goes on from the second.                                          *)
(***************************************************************************)
EXTENDS RunStore, RunTables, FiniteSetTheorems, SequenceTheorems, TLAPS

-----------------------------------------------------------------------------
(* Sequences of effects *)

LEMMA ExtendsByElements ==
  ASSUME NEW s \in Seq(Commands), NEW t \in Seq(Commands)
  PROVE  Extends(s, t) <=> /\ Len(s) <= Len(t)
                           /\ \A i \in 1..Len(s) : t[i] = s[i]
<1>1. Len(s) \in Nat /\ Len(t) \in Nat  BY LenProperties
<1>2. ASSUME Len(s) <= Len(t)
      PROVE  SubSeq(t, 1, Len(s)) = s <=> \A i \in 1..Len(s) : t[i] = s[i]
  <2> DEFINE u == SubSeq(t, 1, Len(s))
  <2>1. \A i \in 1..Len(s) : t[i] \in Commands
    BY <1>1, <1>2, ElementOfSeq
  <2>2. /\ u \in Seq(Commands) /\ Len(u) = Len(s)
        /\ \A i \in 1..Len(s) : u[i] = t[i]
    BY <1>1, <2>1, SubSeqProperties
  <2> HIDE DEF u
  <2>3. (\A i \in 1..Len(s) : t[i] = s[i]) => u = s
    BY <2>2, SeqEqual
  <2>4. u = s => \A i \in 1..Len(s) : t[i] = s[i]
    BY <2>2
  <2>5. u = s <=> \A i \in 1..Len(s) : t[i] = s[i]  BY <2>3, <2>4
  <2> QED  BY <2>5 DEF u
<1> QED  BY <1>2 DEF Extends

LEMMA ExtendsItself == ASSUME NEW s \in Seq(Commands) PROVE Extends(s, s)
  BY ExtendsByElements, LenProperties

LEMMA ExtendsTransitive ==
  ASSUME NEW r \in Seq(Commands), NEW s \in Seq(Commands), NEW t \in Seq(Commands),
         Extends(r, s), Extends(s, t)
  PROVE  Extends(r, t)
<1>1. Len(r) \in Nat /\ Len(s) \in Nat /\ Len(t) \in Nat  BY LenProperties
<1>2. Len(r) <= Len(s) /\ \A i \in 1..Len(r) : s[i] = r[i]  BY ExtendsByElements
<1>3. Len(s) <= Len(t) /\ \A i \in 1..Len(s) : t[i] = s[i]  BY ExtendsByElements
<1>4. Len(r) <= Len(t) /\ \A i \in 1..Len(r) : t[i] = r[i]  BY <1>1, <1>2, <1>3
<1> QED  BY <1>4, ExtendsByElements

LEMMA ExtendsAppended ==
  ASSUME NEW s \in Seq(Commands), NEW t \in Seq(Commands), NEW c \in Commands, Extends(s, t)
  PROVE  Append(t, c) \in Seq(Commands) /\ Extends(s, Append(t, c))
<1>1. /\ Append(t, c) \in Seq(Commands) /\ Len(Append(t, c)) = Len(t) + 1
      /\ \A i \in 1..Len(t) : Append(t, c)[i] = t[i]
  BY AppendProperties
<1>2. Len(s) \in Nat /\ Len(t) \in Nat  BY LenProperties
<1>3. Len(s) <= Len(t) /\ \A i \in 1..Len(s) : t[i] = s[i]  BY ExtendsByElements
<1>4. Len(s) <= Len(Append(t, c)) /\ \A i \in 1..Len(s) : Append(t, c)[i] = s[i]
  BY <1>1, <1>2, <1>3
<1> QED  BY <1>1, <1>4, ExtendsByElements

\* The stored events and the new ones are those of the aggregate.
LEMMA EventsOfEffects ==
  ASSUME NEW s \in Seq(Commands), NEW t \in Seq(Commands), Extends(s, t)
  PROVE  WithEvents(s, t) = t
<1>1. Len(s) \in Nat /\ Len(t) \in Nat /\ Len(s) <= Len(t)
      /\ \A i \in 1..Len(s) : t[i] = s[i]
  BY LenProperties, ExtendsByElements
<1> DEFINE u == SubSeq(t, Len(s) + 1, Len(t))
<1>2. \A i \in Len(s) + 1 .. Len(t) : t[i] \in Commands
  BY <1>1, ElementOfSeq
<1>3. /\ u \in Seq(Commands) /\ Len(u) = Len(t) - Len(s)
      /\ \A i \in 1 .. Len(t) - Len(s) : u[i] = t[Len(s) + i]
  <2>1. /\ u \in Seq(Commands)
        /\ Len(u) = IF Len(s) + 1 <= Len(t) THEN Len(t) - (Len(s) + 1) + 1 ELSE 0
        /\ \A i \in 1 .. Len(t) - (Len(s) + 1) + 1 : u[i] = t[Len(s) + 1 + i - 1]
    BY <1>1, <1>2, SubSeqProperties
  <2> HIDE DEF u
  <2> QED  BY <1>1, <2>1
<1> HIDE DEF u
<1>4. /\ s \o u \in Seq(Commands) /\ Len(s \o u) = Len(t)
      /\ \A i \in 1..Len(t) : (s \o u)[i] = IF i <= Len(s) THEN s[i] ELSE u[i - Len(s)]
  BY <1>1, <1>3, ConcatProperties
<1>5. \A i \in 1..Len(t) : (s \o u)[i] = t[i]
  BY <1>1, <1>3, <1>4
<1>6. s \o u = t  BY <1>4, <1>5, SeqEqual
<1> QED  BY <1>6 DEF WithEvents, u

LEMMA TimesEmpty == \A c : Times(c, <<>>) = 0
  BY FS_EmptySet DEF Times

LEMMA TimesAppended ==
  ASSUME NEW s \in Seq(Commands), NEW c \in Commands, NEW d \in Commands
  PROVE  /\ Times(c, s) \in Nat
         /\ Times(c, Append(s, d)) = IF c = d THEN Times(c, s) + 1 ELSE Times(c, s)
<1> DEFINE n == Len(s)
           old == {i \in DOMAIN s : s[i] = c}
           new == {i \in DOMAIN Append(s, d) : Append(s, d)[i] = c}
<1>1. n \in Nat /\ DOMAIN s = 1..n  BY LenProperties
<1>2. /\ DOMAIN Append(s, d) = 1..(n + 1) /\ Append(s, d)[n + 1] = d
      /\ \A i \in 1..n : Append(s, d)[i] = s[i]
  BY <1>1, AppendProperties, LenProperties
<1>3. new = IF c = d THEN old \cup {n + 1} ELSE old
  BY <1>1, <1>2
<1>4. IsFiniteSet(old) /\ n + 1 \notin old
  <2>1. IsFiniteSet(1..n)  BY <1>1, FS_Interval
  <2> QED  BY <1>1, <2>1, FS_Subset
<1>5. Cardinality(old) \in Nat /\ Cardinality(old \cup {n + 1}) = Cardinality(old) + 1
  BY <1>4, FS_AddElement, FS_CardinalityType
<1> HIDE DEF old, new
<1>6. Cardinality(new) = IF c = d THEN Cardinality(old) + 1 ELSE Cardinality(old)
  BY <1>3, <1>5
<1> QED  BY <1>5, <1>6 DEF Times, old, new

-----------------------------------------------------------------------------
(* The invariant *)

\* Of an aggregate, or of the stored one: who had its effect, once, is recorded.
Known(r) ==
    \A c \in Commands \ Slow :
        Times(c, r.effects) <= 1 /\ (Times(c, r.effects) > 0 => c \in r.recorded)

\* An aggregate is never ahead of the store, and one at the stored revision goes on from
\* what is stored.
Current(r) ==
    /\ r.rev <= db.rev
    /\ r.rev = db.rev => Extends(db.effects, r.effects) /\ db.recorded \subseteq r.recorded

Sound ==
    /\ Known(db) /\ db.events = db.effects
    /\ \A w \in Workers : cache[w] # NoRun => Known(cache[w]) /\ Current(cache[w])

\* While no save has raised, what clients and aggregates know is stored.
Durable ==
    /\ told \subseteq db.recorded
    /\ \A w \in Workers : cache[w] # NoRun => cache[w].recorded \subseteq db.recorded

\* A command that waits does so in a process that has the run.
Served == \A t \in Waiters : request[t].at = "waiting" => cache[request[t].by] # NoRun

StoreInv ==
    /\ StoreTypeOK /\ Served
    /\ ~torn => Sound
    /\ ~torn /\ ~failed => Durable

Rows == [effects : Seq(Commands), recorded : SUBSET Commands, rev : Nat,
         events : Seq(Commands)]
Requests == [at : {"waiting"}, by : Workers, cmd : Commands]

LEMMA InitInv == StoreInit => StoreInv
<1> SUFFICES ASSUME StoreInit
             PROVE  StoreInv
  OBVIOUS
<1>1. <<>> \in Seq(Commands)  BY EmptySeq
<1>2. db \in Rows  BY <1>1 DEF StoreInit, Rows
<1>3. torn \in BOOLEAN /\ failed \in BOOLEAN  BY Zenon DEF StoreInit
<1>4. 0 \in 0..MaxFaults  BY StoreAssumption
<1>5. StoreTypeOK  BY <1>2, <1>3, <1>4 DEF StoreInit, StoreTypeOK, Rows
<1>6. Known(db)  BY TimesEmpty DEF StoreInit, Known
<1>7. Sound /\ Durable  BY <1>6 DEF StoreInit, Sound, Durable
<1>8. Served  BY DEF StoreInit, Served, NoRequest
<1> QED  BY <1>5, <1>7, <1>8 DEF StoreInv

-----------------------------------------------------------------------------
(* Saving *)

\* What a command makes of the aggregate of its process.
GoesOn(w, copy) ==
    /\ copy \in Runs /\ copy.rev = cache[w].rev
    /\ Extends(cache[w].effects, copy.effects)
    /\ cache[w].recorded \subseteq copy.recorded
    /\ Known(cache[w]) => Known(copy)

\* A save keeps the types, whether it is accepted or raises.
LEMMA SaveType ==
  ASSUME StoreTypeOK, NEW w \in Workers, NEW copy \in Runs,
         SaveAccepted(w, copy) \/ SaveRaises(w, copy)
  PROVE  /\ db' \in Rows /\ cache' \in [Workers -> Runs \cup {NoRun}]
         /\ failed' \in BOOLEAN /\ faults' \in 0..MaxFaults
         /\ cache'[w] # NoRun /\ \A v \in Workers \ {w} : cache'[v] = cache[v]
<1>1. /\ db \in Rows /\ cache \in [Workers -> Runs \cup {NoRun}] /\ faults \in 0..MaxFaults
      /\ db.rev \in Nat /\ NoRun \notin Runs /\ MaxFaults \in Nat
  BY StoreAssumption DEF StoreTypeOK, Rows
<1>2. WithEvents(db.events, copy.effects) \in Seq(Commands)
  <2>1. db.events \in Seq(Commands) /\ copy.effects \in Seq(Commands)
    BY DEF StoreTypeOK, Runs
  <2>2. Len(db.events) \in Nat /\ Len(copy.effects) \in Nat  BY <2>1, LenProperties
  <2>3. \A i \in Len(db.events) + 1 .. Len(copy.effects) : copy.effects[i] \in Commands
    BY <2>1, <2>2, ElementOfSeq
  <2>4. SubSeq(copy.effects, Len(db.events) + 1, Len(copy.effects)) \in Seq(Commands)
    BY <2>2, <2>3, SubSeqProperties
  <2> QED  BY <2>1, <2>4, ConcatProperties DEF WithEvents
<1>3. Written(copy) => db' \in Rows
  BY <1>1, <1>2 DEF Written, Rows, Runs
<1>4. [copy EXCEPT !.rev = db.rev + 1] \in Runs
  BY <1>1 DEF Runs
<1>5. CASE SaveAccepted(w, copy)
  <2>1. failed' \in BOOLEAN  BY <1>5, Zenon DEF SaveAccepted, StoreTypeOK
  <2> QED  BY <1>1, <1>3, <1>4, <1>5, <2>1 DEF SaveAccepted
<1>6. CASE SaveRaises(w, copy)
  <2>1. failed' \in BOOLEAN  BY <1>6, Zenon DEF SaveRaises
  <2>2. db' \in Rows /\ faults' \in 0..MaxFaults
    BY <1>1, <1>3, <1>6 DEF SaveRaises
  <2>3. cache' = [cache EXCEPT ![w] = copy]  BY <1>6 DEF SaveRaises
  <2> QED  BY <1>1, <2>1, <2>2, <2>3
<1> QED  BY <1>5, <1>6

\* What is written goes on from what was stored.
LEMMA WriteSound ==
  ASSUME StoreTypeOK, Sound, NEW w \in Workers, NEW copy, cache[w] # NoRun, GoesOn(w, copy),
         copy.rev = db.rev, Written(copy)
  PROVE  /\ db'.effects = copy.effects /\ db'.recorded = copy.recorded /\ db'.rev = db.rev + 1
         /\ Extends(db.effects, db'.effects) /\ db.recorded \subseteq db'.recorded
         /\ db'.events = db'.effects /\ Known(db')
<1>1. /\ Extends(db.effects, cache[w].effects) /\ db.recorded \subseteq cache[w].recorded
      /\ Known(cache[w]) /\ db.events = db.effects
  BY DEF Sound, Current, GoesOn
<1>2. /\ db.effects \in Seq(Commands) /\ cache[w].effects \in Seq(Commands)
      /\ copy.effects \in Seq(Commands)
  BY DEF StoreTypeOK, GoesOn, Runs
<1>3. Extends(db.effects, copy.effects)
  BY <1>1, <1>2, ExtendsTransitive DEF GoesOn
<1>4. WithEvents(db.events, copy.effects) = copy.effects
  BY <1>1, <1>2, <1>3, EventsOfEffects
<1>5. /\ db'.effects = copy.effects /\ db'.recorded = copy.recorded /\ db'.rev = db.rev + 1
      /\ db'.events = copy.effects
  BY <1>4 DEF Written
<1>6. Known(db')  BY <1>1, <1>5 DEF GoesOn, Known
<1> QED  BY <1>1, <1>3, <1>5, <1>6 DEF GoesOn

LEMMA SaveSound ==
  ASSUME StoreTypeOK, Sound, NEW w \in Workers, NEW copy, cache[w] # NoRun, GoesOn(w, copy),
         SaveAccepted(w, copy) \/ SaveRaises(w, copy)
  PROVE  Sound' /\ Extends(db.effects, db'.effects)
<1>1. /\ db.rev \in Nat /\ db.effects \in Seq(Commands) /\ copy \in Runs
      /\ \A v \in Workers : cache[v] # NoRun => cache[v] \in Runs
  BY DEF StoreTypeOK, GoesOn
<1>2. /\ cache'[w] # NoRun /\ \A v \in Workers \ {w} : cache'[v] = cache[v]
  BY <1>1, SaveType
<1>3. /\ Known(copy) /\ Current(copy)
  <2>1. Known(cache[w]) /\ Current(cache[w])  BY DEF Sound
  <2>2. Known(copy)  BY <2>1 DEF GoesOn
  <2>3. copy.rev = db.rev => Extends(db.effects, copy.effects)
    <3> SUFFICES ASSUME copy.rev = db.rev
                 PROVE  Extends(db.effects, copy.effects)
      OBVIOUS
    <3>1. /\ db.effects \in Seq(Commands) /\ cache[w].effects \in Seq(Commands)
          /\ copy.effects \in Seq(Commands)
      BY <1>1 DEF Runs
    <3>2. Extends(db.effects, cache[w].effects) /\ Extends(cache[w].effects, copy.effects)
      BY <2>1 DEF Current, GoesOn
    <3> QED  BY <3>1, <3>2, ExtendsTransitive
  <2>4. copy.rev <= db.rev /\ (copy.rev = db.rev => db.recorded \subseteq copy.recorded)
    BY <2>1 DEF Current, GoesOn
  <2> QED  BY <2>2, <2>3, <2>4 DEF Current
<1>4. \A v \in Workers \ {w} : cache'[v] # NoRun =>
                 Known(cache'[v]) /\ cache'[v].rev \in Nat /\ Current(cache[v])
  BY <1>1, <1>2 DEF Sound, Runs
<1>5. ASSUME copy.rev = db.rev, Written(copy)
      PROVE  /\ Known(db') /\ db'.events = db'.effects /\ Extends(db.effects, db'.effects)
             /\ \A v \in Workers \ {w} : cache'[v] # NoRun =>
                    /\ Known(cache'[v]) /\ cache'[v].rev <= db'.rev
                    /\ cache'[v].rev # db'.rev
             /\ db'.effects = copy.effects /\ db'.recorded = copy.recorded
             /\ db'.rev = db.rev + 1
  <2>1. /\ db'.rev = db.rev + 1 /\ Known(db') /\ db'.events = db'.effects
        /\ Extends(db.effects, db'.effects)
        /\ db'.effects = copy.effects /\ db'.recorded = copy.recorded
    BY <1>5, WriteSound
  <2>2. \A v \in Workers \ {w} : cache'[v] # NoRun =>
                    /\ Known(cache'[v]) /\ cache'[v].rev <= db'.rev
                    /\ cache'[v].rev # db'.rev
    BY <1>1, <1>2, <1>4, <2>1 DEF Current
  <2> QED  BY <2>1, <2>2
<1>6. CASE SaveAccepted(w, copy)
  <2>1. copy.rev = db.rev /\ Written(copy) /\ cache'[w] = [copy EXCEPT !.rev = db.rev + 1]
    BY <1>1, <1>6 DEF SaveAccepted, StoreTypeOK
  <2>2. /\ cache'[w].effects = copy.effects /\ cache'[w].recorded = copy.recorded
        /\ cache'[w].rev = db.rev + 1
    BY <1>1, <2>1 DEF Runs
  <2>3. copy.effects \in Seq(Commands)  BY <1>1 DEF Runs
  <2>4. Known(cache'[w])  BY <1>3, <2>2 DEF Known
  <2>5. /\ cache'[w].rev <= db'.rev /\ Extends(db'.effects, cache'[w].effects)
        /\ db'.recorded \subseteq cache'[w].recorded
    BY <1>1, <1>5, <2>1, <2>2, <2>3, ExtendsItself
  <2>6. \A v \in Workers : cache'[v] # NoRun =>
           /\ Known(cache'[v]) /\ cache'[v].rev <= db'.rev
           /\ cache'[v].rev = db'.rev => /\ Extends(db'.effects, cache'[v].effects)
                                        /\ db'.recorded \subseteq cache'[v].recorded
    BY <1>5, <2>1, <2>4, <2>5
  <2> QED  BY <1>5, <2>1, <2>6 DEF Sound, Current
<1>7. ASSUME SaveRaises(w, copy), copy.rev = db.rev, Written(copy)
      PROVE  Sound' /\ Extends(db.effects, db'.effects)
  <2>1. cache'[w] = copy  BY <1>1, <1>7 DEF SaveRaises, StoreTypeOK
  <2>2. copy.rev <= db'.rev /\ copy.rev # db'.rev  BY <1>1, <1>5, <1>7
  <2>3. \A v \in Workers : cache'[v] # NoRun =>
           /\ Known(cache'[v]) /\ cache'[v].rev <= db'.rev /\ cache'[v].rev # db'.rev
    BY <1>3, <1>5, <1>7, <2>1, <2>2
  <2> QED  BY <1>5, <1>7, <2>3 DEF Sound, Current
<1>8. ASSUME SaveRaises(w, copy), UNCHANGED db
      PROVE  Sound' /\ Extends(db.effects, db'.effects)
  <2>1. cache'[w] = copy  BY <1>1, <1>8 DEF SaveRaises, StoreTypeOK
  <2>2. \A v \in Workers : cache'[v] # NoRun => Known(cache'[v]) /\ Current(cache'[v])
    BY <1>2, <1>3, <1>4, <2>1
  <2>3. Extends(db.effects, db'.effects)  BY <1>1, <1>8, ExtendsItself
  <2> QED  BY <1>8, <2>2, <2>3 DEF Sound, Current, Known
<1> QED  BY <1>6, <1>7, <1>8 DEF SaveRaises

\* While no save has raised, a save that is accepted stores what its process knows.
LEMMA SaveDurable ==
  ASSUME StoreTypeOK, Sound, Durable, NEW w \in Workers, NEW copy, cache[w] # NoRun,
         GoesOn(w, copy), SaveAccepted(w, copy),
         told' \subseteq told \cup copy.recorded
  PROVE  Durable'
<1>1. copy \in Runs /\ cache \in [Workers -> Runs \cup {NoRun}]
  BY DEF StoreTypeOK, GoesOn
<1>2. cache'[w] # NoRun /\ \A v \in Workers \ {w} : cache'[v] = cache[v]
  BY <1>1, SaveType
<1>3. copy.rev = db.rev /\ Written(copy) /\ cache'[w] = [copy EXCEPT !.rev = db.rev + 1]
  BY <1>1 DEF SaveAccepted
<1>4. db'.recorded = copy.recorded /\ db.recorded \subseteq db'.recorded
  BY <1>3, WriteSound
<1>5. cache'[w].recorded = copy.recorded  BY <1>1, <1>3 DEF Runs
<1> QED  BY <1>2, <1>4, <1>5 DEF Durable

\* A step that saves an aggregate its process may have made.
LEMMA SaveInv ==
  ASSUME StoreInv, NEW w \in Workers, NEW copy, cache[w] # NoRun, GoesOn(w, copy),
         \/ SaveAccepted(w, copy) /\ told' \subseteq told \cup copy.recorded
         \/ SaveRaises(w, copy) /\ told' = told,
         loading' = loading, torn' = torn, request' \in [Waiters -> Requests \cup {NoRequest}],
         \A t \in Waiters : request'[t].at = "waiting" =>
             request[t] = request'[t] \/ request'[t].by = w
  PROVE  StoreInv' /\ (~torn => Extends(db.effects, db'.effects))
<1>1. /\ StoreTypeOK /\ Served /\ copy \in Runs /\ copy.recorded \subseteq Commands
      /\ loading \in [Workers -> Aggregates \cup {NoRun}] /\ told \subseteq Commands
  BY DEF StoreInv, StoreTypeOK, GoesOn, Runs
<1>2. /\ db' \in Rows /\ cache' \in [Workers -> Runs \cup {NoRun}]
      /\ faults' \in 0..MaxFaults
      /\ cache'[w] # NoRun /\ \A v \in Workers \ {w} : cache'[v] = cache[v]
  BY <1>1, SaveType
<1>3. failed' \in BOOLEAN  BY <1>1, SaveType
<1>4. torn' \in BOOLEAN  BY <1>1, Zenon DEF StoreTypeOK
<1>5. told' \subseteq Commands  BY <1>1
<1>6. loading' \in [Workers -> Aggregates \cup {NoRun}]  BY <1>1
<1>7. StoreTypeOK'
  BY <1>2, <1>3, <1>4, <1>5, <1>6 DEF StoreTypeOK, Rows, Requests
<1>8. Served'
  <2> SUFFICES ASSUME NEW t \in Waiters, request'[t].at = "waiting"
               PROVE  cache'[request'[t].by] # NoRun
    BY DEF Served
  <2>1. CASE request'[t].by = w  BY <1>2, <2>1
  <2>2. CASE request[t] = request'[t]
    <3>1. cache[request[t].by] # NoRun  BY <1>1, <2>2 DEF Served
    <3>2. request'[t] \in Requests  BY DEF Requests, NoRequest
    <3>3. request[t].by \in Workers  BY <2>2, <3>2 DEF Requests
    <3> QED  BY <1>2, <2>2, <3>1, <3>3
  <2>3. request[t] = request'[t] \/ request'[t].by = w
    OBVIOUS
  <2> QED  BY ONLY <2>1, <2>2, <2>3
<1>9. ASSUME ~torn PROVE Sound' /\ Extends(db.effects, db'.effects)
  <2>1. Sound  BY <1>9 DEF StoreInv
  <2> QED  BY <1>1, <2>1, SaveSound
<1>10. ASSUME ~torn, ~failed' PROVE Durable'
  <2>1. SaveAccepted(w, copy) /\ ~failed /\ told' \subseteq told \cup copy.recorded
    <3>1. ASSUME SaveRaises(w, copy) PROVE failed'
      BY <3>1, Zenon DEF SaveRaises
    <3>2. ASSUME SaveAccepted(w, copy), failed PROVE failed'
      BY <3>2, SMT DEF SaveAccepted
    <3> QED  BY <1>10, <3>1, <3>2, Zenon
  <2>2. Sound /\ Durable  BY <1>10, <2>1 DEF StoreInv
  <2> QED  BY <1>1, <2>1, <2>2, SaveDurable
<1>11. /\ ~torn' => Sound' /\ Extends(db.effects, db'.effects)
       /\ ~torn' /\ ~failed' => Durable'
  BY <1>9, <1>10
<1>12. ~torn => Extends(db.effects, db'.effects)  BY <1>11
<1> QED  BY <1>7, <1>8, <1>11, <1>12, Zenon DEF StoreInv

-----------------------------------------------------------------------------
(* What commands make of an aggregate *)

LEMMA RecordedChange ==
  ASSUME StoreTypeOK, NEW w \in Workers, cache[w] # NoRun, NEW c \in Commands
  PROVE  /\ GoesOn(w, WithRecord(cache[w], c))
         /\ WithRecord(cache[w], c).recorded = cache[w].recorded \cup {c}
<1>1. cache[w] \in Runs  BY DEF StoreTypeOK
<1> DEFINE copy == WithRecord(cache[w], c)
<1>2. /\ copy \in Runs /\ copy.rev = cache[w].rev /\ copy.effects = cache[w].effects
      /\ copy.recorded = cache[w].recorded \cup {c} /\ cache[w].effects \in Seq(Commands)
  BY <1>1 DEF WithRecord, Runs
<1> HIDE DEF copy
<1>3. Extends(cache[w].effects, copy.effects)  BY <1>2, ExtendsItself
<1>4. Known(cache[w]) => Known(copy)  BY <1>2 DEF Known
<1>5. GoesOn(w, copy)  BY <1>2, <1>3, <1>4 DEF GoesOn
<1> QED  BY <1>2, <1>5 DEF copy

\* The whole command at once: it had no effect before, for it was not recorded.
LEMMA ExecutedChange ==
  ASSUME StoreTypeOK, NEW w \in Workers, cache[w] # NoRun, NEW c \in Commands,
         c \notin cache[w].recorded
  PROVE  /\ GoesOn(w, WithRecord(WithEffect(cache[w], c), c))
         /\ WithRecord(WithEffect(cache[w], c), c).recorded = cache[w].recorded \cup {c}
<1>1. cache[w] \in Runs  BY DEF StoreTypeOK
<1> DEFINE copy == WithRecord(WithEffect(cache[w], c), c)
<1>2. cache[w].effects \in Seq(Commands)  BY <1>1 DEF Runs
<1>3. /\ Append(cache[w].effects, c) \in Seq(Commands)
      /\ Extends(cache[w].effects, Append(cache[w].effects, c))
  BY <1>2, ExtendsItself, ExtendsAppended
<1>4. /\ copy \in Runs /\ copy.rev = cache[w].rev
      /\ copy.effects = Append(cache[w].effects, c)
      /\ copy.recorded = cache[w].recorded \cup {c}
  BY <1>1, <1>3 DEF WithRecord, WithEffect, Runs
<1> HIDE DEF copy
<1>5. ASSUME Known(cache[w]), NEW d \in Commands \ Slow
      PROVE  Times(d, copy.effects) <= 1 /\ (Times(d, copy.effects) > 0 => d \in copy.recorded)
  <2>1. /\ Times(d, cache[w].effects) \in Nat
        /\ Times(d, copy.effects) = IF d = c THEN Times(d, cache[w].effects) + 1
                                            ELSE Times(d, cache[w].effects)
    BY <1>2, <1>4, TimesAppended
  <2>2. /\ Times(d, cache[w].effects) <= 1
        /\ Times(d, cache[w].effects) > 0 => d \in cache[w].recorded
    BY <1>5 DEF Known
  <2> QED  BY <1>4, <2>1, <2>2
<1>6. Known(cache[w]) => Known(copy)  BY <1>5 DEF Known
<1>7. GoesOn(w, copy)  BY <1>3, <1>4, <1>6 DEF GoesOn
<1> QED  BY <1>4, <1>7 DEF copy

\* The first half of a slow command.
LEMMA StartedChange ==
  ASSUME StoreTypeOK, NEW w \in Workers, cache[w] # NoRun, NEW c \in Slow
  PROVE  /\ GoesOn(w, WithEffect(cache[w], c))
<1>1. cache[w] \in Runs /\ c \in Commands  BY StoreAssumption DEF StoreTypeOK
<1> DEFINE copy == WithEffect(cache[w], c)
<1>2. cache[w].effects \in Seq(Commands)  BY <1>1 DEF Runs
<1>3. /\ Append(cache[w].effects, c) \in Seq(Commands)
      /\ Extends(cache[w].effects, Append(cache[w].effects, c))
  BY <1>1, <1>2, ExtendsItself, ExtendsAppended
<1>4. /\ copy \in Runs /\ copy.rev = cache[w].rev /\ copy.recorded = cache[w].recorded
      /\ copy.effects = Append(cache[w].effects, c)
  BY <1>1, <1>3 DEF WithEffect, Runs
<1> HIDE DEF copy
<1>5. ASSUME NEW d \in Commands \ Slow
      PROVE  Times(d, copy.effects) = Times(d, cache[w].effects)
  BY <1>1, <1>2, <1>4, TimesAppended
<1>6. Known(cache[w]) => Known(copy)  BY <1>4, <1>5 DEF Known
<1>7. GoesOn(w, copy)  BY <1>3, <1>4, <1>6 DEF GoesOn
<1> QED  BY <1>7 DEF copy

-----------------------------------------------------------------------------
(* Every step keeps the invariant *)

Step == StoreInv' /\ (~torn => Extends(db.effects, db'.effects))

\* A step that changes nothing the invariant is about but the requests.
LEMMA QuietStep ==
  ASSUME StoreInv, UNCHANGED <<db, cache, torn, failed>>,
         loading' \in [Workers -> Aggregates \cup {NoRun}],
         request' \in [Waiters -> Requests \cup {NoRequest}],
         \A t \in Waiters : request'[t].at = "waiting" => request[t] = request'[t],
         told' \subseteq Commands, ~torn /\ ~failed => told' \subseteq db.recorded,
         faults' \in 0..MaxFaults
  PROVE  Step
<1>1. db.effects \in Seq(Commands)  BY DEF StoreInv, StoreTypeOK
<1>2. db' = db /\ cache' = cache  OBVIOUS
<1>3. torn' \in BOOLEAN /\ failed' \in BOOLEAN
  BY Zenon DEF StoreInv, StoreTypeOK
<1>4. StoreTypeOK'
  BY <1>2, <1>3 DEF StoreInv, StoreTypeOK, Requests
<1>5. Served'  BY <1>2 DEF StoreInv, Served
<1>6. Sound => Sound'  BY <1>2 DEF Sound, Known, Current
<1>7. ~torn => Sound'
  <2>1. ~torn => Sound  BY DEF StoreInv
  <2> QED  BY <1>6, <2>1
<1>8. ~torn /\ ~failed => Durable'  BY <1>2 DEF StoreInv, Durable
<1>9. (torn' <=> torn) /\ (failed' <=> failed)  OBVIOUS
<1>10. StoreInv'
  BY ONLY <1>4, <1>5, <1>7, <1>8, <1>9, Zenon DEF StoreInv
<1>11. Extends(db.effects, db'.effects)  BY <1>1, <1>2, ExtendsItself
<1> QED  BY <1>10, <1>11 DEF Step

LEMMA LoadRowsInv ==
  ASSUME StoreInv, NEW w \in Workers, LoadRows(w)
  PROVE  Step
<1>1. [effects |-> db.effects, recorded |-> db.recorded] \in Aggregates
  BY DEF StoreInv, StoreTypeOK, Aggregates
<1>2. loading' \in [Workers -> Aggregates \cup {NoRun}]
  BY <1>1 DEF StoreInv, StoreTypeOK, LoadRows
<1>3. /\ request' \in [Waiters -> Requests \cup {NoRequest}]
      /\ \A t \in Waiters : request'[t].at = "waiting" => request[t] = request'[t]
      /\ told' \subseteq Commands /\ faults' \in 0..MaxFaults
      /\ UNCHANGED <<db, cache, torn, failed>> /\ told' = told
  BY DEF StoreInv, StoreTypeOK, LoadRows, Requests
<1>4. ~torn /\ ~failed => told' \subseteq db.recorded
  BY <1>3 DEF StoreInv, Durable
<1> QED  BY <1>2, <1>3, <1>4, QuietStep

LEMMA AnswerAgainInv ==
  ASSUME StoreInv, NEW w \in Workers, NEW c \in Commands, AnswerAgain(w, c)
  PROVE  Step
<1>1. /\ loading' \in [Workers -> Aggregates \cup {NoRun}]
      /\ request' \in [Waiters -> Requests \cup {NoRequest}]
      /\ \A t \in Waiters : request'[t].at = "waiting" => request[t] = request'[t]
      /\ told' \subseteq Commands /\ faults' \in 0..MaxFaults
      /\ UNCHANGED <<db, cache, torn, failed>>
  BY DEF StoreInv, StoreTypeOK, AnswerAgain, Requests
<1>2. ~torn /\ ~failed => told' \subseteq db.recorded
  BY DEF StoreInv, Durable, AnswerAgain
<1> QED  BY <1>1, <1>2, QuietStep

LEMMA CommandRaisesInv ==
  ASSUME StoreInv, NEW t \in Waiters, CommandRaises(t)
  PROVE  Step
<1>1. /\ loading' \in [Workers -> Aggregates \cup {NoRun}]
      /\ request' \in [Waiters -> Requests \cup {NoRequest}]
      /\ told' \subseteq Commands /\ faults' \in 0..MaxFaults
      /\ UNCHANGED <<db, cache, torn, failed>> /\ told' = told
  BY DEF StoreInv, StoreTypeOK, CommandRaises, Requests
<1>2. \A u \in Waiters : request'[u].at = "waiting" => request[u] = request'[u]
  BY DEF StoreInv, StoreTypeOK, CommandRaises, NoRequest
<1>3. ~torn /\ ~failed => told' \subseteq db.recorded
  BY <1>1 DEF StoreInv, Durable
<1> QED  BY <1>1, <1>2, <1>3, QuietStep

\* What is read is what is stored, unless another save came between.
LEMMA LoadRevisionInv ==
  ASSUME StoreInv, NEW w \in Workers, LoadRevision(w)
  PROVE  Step
<1> DEFINE rows == [effects |-> db.effects, recorded |-> db.recorded]
           copy == [effects |-> loading[w].effects, recorded |-> loading[w].recorded,
                   rev |-> db.rev]
<1>1. /\ db.rev \in Nat /\ db.effects \in Seq(Commands)
      /\ loading[w] \in Aggregates /\ cache \in [Workers -> Runs \cup {NoRun}]
      /\ loading \in [Workers -> Aggregates \cup {NoRun}] /\ NoRun \notin Runs
  BY StoreAssumption DEF StoreInv, StoreTypeOK, LoadRevision
<1>2. copy \in Runs  BY <1>1 DEF Aggregates, Runs
<1>3. cache' = [cache EXCEPT ![w] = copy]  BY DEF LoadRevision
<1>4. /\ loading' \in [Workers -> Aggregates \cup {NoRun}]
      /\ UNCHANGED <<db, request, told, failed, faults>>
  BY <1>1 DEF LoadRevision
<1>5. torn' \in BOOLEAN  BY Zenon DEF LoadRevision
<1>6. torn' <=> torn \/ loading[w] # rows
  BY DEF LoadRevision
<1>7. ASSUME ~torn'
      PROVE  ~torn /\ copy.effects = db.effects /\ copy.recorded = db.recorded
  BY <1>6, <1>7
<1>8. copy.rev = db.rev  OBVIOUS
<1> HIDE DEF copy, rows
<1>9. /\ cache' \in [Workers -> Runs \cup {NoRun}] /\ cache'[w] = copy /\ copy # NoRun
      /\ \A v \in Workers \ {w} : cache'[v] = cache[v]
  BY <1>1, <1>2, <1>3
<1>10. StoreTypeOK'
  <2>1. failed' \in BOOLEAN  BY <1>4, Zenon DEF StoreInv, StoreTypeOK
  <2> QED  BY <1>4, <1>5, <1>9, <2>1 DEF StoreInv, StoreTypeOK
<1>11. Served'  BY <1>4, <1>9 DEF StoreInv, Served, StoreTypeOK, NoRequest
<1>12. ASSUME ~torn' PROVE Sound'
  <2>1. Known(db) /\ db.events = db.effects
        /\ \A v \in Workers : cache[v] # NoRun => Known(cache[v]) /\ Current(cache[v])
    BY <1>7, <1>12 DEF StoreInv, Sound
  <2>2. Known(copy) /\ Current(copy)
    BY <1>1, <1>7, <1>8, <1>12, <2>1, ExtendsItself DEF Known, Current
  <2>3. \A v \in Workers : cache'[v] # NoRun => Known(cache'[v]) /\ Current(cache'[v])
    BY <1>9, <2>1, <2>2
  <2>4. db' = db  BY <1>4
  <2> QED  BY <2>1, <2>3, <2>4 DEF Sound, Known, Current
<1>13. ASSUME ~torn', ~failed' PROVE Durable'
  <2>1. ~failed  BY <1>4, <1>13
  <2>2. Durable  BY <1>7, <1>13, <2>1 DEF StoreInv
  <2> QED  BY <1>4, <1>7, <1>9, <1>13, <2>2 DEF Durable
<1>14. Extends(db.effects, db'.effects)  BY <1>1, <1>4, ExtendsItself
<1> QED  BY ONLY <1>10, <1>11, <1>12, <1>13, <1>14, Zenon DEF StoreInv, Step

LEMMA WorkerRestartsInv ==
  ASSUME StoreInv, NEW w \in Workers, WorkerRestarts(w)
  PROVE  Step
<1>1. /\ db.effects \in Seq(Commands) /\ faults \in 0..MaxFaults /\ MaxFaults \in Nat
      /\ cache \in [Workers -> Runs \cup {NoRun}]
      /\ loading \in [Workers -> Aggregates \cup {NoRun}]
      /\ request \in [Waiters -> Requests \cup {NoRequest}]
  BY StoreAssumption DEF StoreInv, StoreTypeOK, Requests
<1>2. UNCHANGED <<db, told, torn, failed>> /\ faults' \in 0..MaxFaults
  BY <1>1 DEF WorkerRestarts
<1>3. /\ cache' \in [Workers -> Runs \cup {NoRun}] /\ cache'[w] = NoRun
      /\ \A v \in Workers \ {w} : cache'[v] = cache[v]
      /\ loading' \in [Workers -> Aggregates \cup {NoRun}]
  BY <1>1 DEF WorkerRestarts
<1>4. /\ request' \in [Waiters -> Requests \cup {NoRequest}]
      /\ \A t \in Waiters : request'[t].at = "waiting" =>
             request[t] = request'[t] /\ request[t].by # w
  BY <1>1 DEF WorkerRestarts, NoRequest
<1>5. torn' \in BOOLEAN /\ failed' \in BOOLEAN
  BY <1>2, Zenon DEF StoreInv, StoreTypeOK
<1>6. StoreTypeOK'
  BY <1>2, <1>3, <1>4, <1>5 DEF StoreInv, StoreTypeOK, Requests
<1>7. Served'
  <2> SUFFICES ASSUME NEW t \in Waiters, request'[t].at = "waiting"
               PROVE  cache'[request'[t].by] # NoRun
    BY DEF Served
  <2>1. request[t] = request'[t] /\ request[t].by # w  BY <1>4
  <2>2. cache[request[t].by] # NoRun  BY <2>1 DEF StoreInv, Served
  <2>3. request[t].by \in Workers  BY <1>1, <2>1 DEF Requests, NoRequest
  <2> QED  BY <1>3, <2>1, <2>2, <2>3
<1>8. ~torn => Sound'
  <2>1. ~torn => Sound  BY DEF StoreInv
  <2>2. db' = db  BY <1>2
  <2>3. Sound => Sound'  BY <1>3, <2>2 DEF Sound, Known, Current
  <2> QED  BY <2>1, <2>3
<1>9. ~torn /\ ~failed => Durable'
  BY <1>2, <1>3 DEF StoreInv, Durable
<1>10. (torn' <=> torn) /\ (failed' <=> failed)  BY <1>2
<1>11. Extends(db.effects, db'.effects)  BY <1>1, <1>2, ExtendsItself
<1> QED  BY ONLY <1>6, <1>7, <1>8, <1>9, <1>10, <1>11, Zenon DEF StoreInv, Step

LEMMA ExecuteInv ==
  ASSUME StoreInv, NEW w \in Workers, NEW c \in Commands, Execute(w, c)
  PROVE  Step
<1> DEFINE copy == WithRecord(WithEffect(cache[w], c), c)
<1>1. cache[w] # NoRun /\ c \notin cache[w].recorded  BY DEF Execute, Loaded
<1>2. StoreTypeOK  BY DEF StoreInv
<1>3. GoesOn(w, copy) /\ copy.recorded = cache[w].recorded \cup {c}
  BY <1>1, <1>2, ExecutedChange
<1>4. /\ \/ SaveAccepted(w, copy) /\ told' = told \cup {c}
         \/ SaveRaises(w, copy) /\ UNCHANGED told
      /\ UNCHANGED <<loading, request, torn>>
  BY DEF Execute
<1> HIDE DEF copy
<1>5. /\ request' \in [Waiters -> Requests \cup {NoRequest}]
      /\ \A t \in Waiters : request'[t].at = "waiting" =>
             request[t] = request'[t] \/ request'[t].by = w
  BY <1>2, <1>4 DEF StoreTypeOK, Requests
<1>6. \/ SaveAccepted(w, copy) /\ told' \subseteq told \cup copy.recorded
      \/ SaveRaises(w, copy) /\ told' = told
  BY <1>3, <1>4
<1> QED  BY <1>1, <1>3, <1>4, <1>5, <1>6, SaveInv DEF Step

LEMMA WaitInv ==
  ASSUME StoreInv, NEW t \in Waiters, NEW w \in Workers, NEW c \in Commands, Wait(t, w, c)
  PROVE  Step
<1> DEFINE copy == WithEffect(cache[w], c)
           waits == [at |-> "waiting", by |-> w, cmd |-> c]
<1>1. cache[w] # NoRun /\ c \in Slow  BY DEF Wait, Loaded
<1>2. StoreTypeOK  BY DEF StoreInv
<1>3. GoesOn(w, copy)  BY <1>1, <1>2, StartedChange
<1>4. /\ \/ SaveAccepted(w, copy) /\ request' = [request EXCEPT ![t] = waits]
         \/ SaveRaises(w, copy) /\ UNCHANGED request
      /\ UNCHANGED <<loading, told, torn>>
  BY DEF Wait
<1>5. waits \in Requests /\ waits.by = w  BY DEF Requests
<1> HIDE DEF copy, waits
<1>6. /\ request' \in [Waiters -> Requests \cup {NoRequest}]
      /\ \A u \in Waiters : request'[u].at = "waiting" =>
             request[u] = request'[u] \/ request'[u].by = w
  BY <1>2, <1>4, <1>5 DEF StoreTypeOK, Requests
<1>7. \/ SaveAccepted(w, copy) /\ told' \subseteq told \cup copy.recorded
      \/ SaveRaises(w, copy) /\ told' = told
  BY <1>4
<1> QED  BY <1>1, <1>3, <1>4, <1>6, <1>7, SaveInv DEF Step

LEMMA CommandResumesInv ==
  ASSUME StoreInv, NEW t \in Waiters, CommandResumes(t)
  PROVE  Step
<1> DEFINE w == request[t].by
           c == request[t].cmd
           copy == WithRecord(cache[w], c)
<1>1. StoreTypeOK /\ Served  BY DEF StoreInv
<1>2. request[t] \in Requests
  BY <1>1 DEF StoreTypeOK, CommandResumes, NoRequest, Requests
<1>3. w \in Workers /\ c \in Commands  BY <1>2 DEF Requests
<1>4. cache[w] # NoRun  BY <1>1 DEF Served, CommandResumes
<1>5. GoesOn(w, copy) /\ copy.recorded = cache[w].recorded \cup {c}
  BY <1>1, <1>3, <1>4, RecordedChange
<1>6. /\ \/ SaveAccepted(w, copy) /\ told' = told \cup {c}
         \/ SaveRaises(w, copy) /\ UNCHANGED told
      /\ request' = [request EXCEPT ![t] = NoRequest]
      /\ UNCHANGED <<loading, torn>>
  BY DEF CommandResumes
<1> HIDE DEF copy, w, c
<1>7. /\ request' \in [Waiters -> Requests \cup {NoRequest}]
      /\ \A u \in Waiters : request'[u].at = "waiting" =>
             request[u] = request'[u] \/ request'[u].by = w
  BY <1>1, <1>6 DEF StoreTypeOK, Requests, NoRequest
<1>8. \/ SaveAccepted(w, copy) /\ told' \subseteq told \cup copy.recorded
      \/ SaveRaises(w, copy) /\ told' = told
  BY <1>5, <1>6
<1> QED  BY <1>3, <1>4, <1>5, <1>6, <1>7, <1>8, SaveInv DEF Step

LEMMA NextInv == StoreInv /\ [StoreNext]_storeVars => Step
<1> SUFFICES ASSUME StoreInv, [StoreNext]_storeVars
             PROVE  Step
  OBVIOUS
<1>1. ASSUME NEW w \in Workers, LoadRows(w) PROVE Step  BY <1>1, LoadRowsInv
<1>2. ASSUME NEW w \in Workers, LoadRevision(w) PROVE Step  BY <1>2, LoadRevisionInv
<1>3. ASSUME NEW w \in Workers, WorkerRestarts(w) PROVE Step  BY <1>3, WorkerRestartsInv
<1>4. ASSUME NEW w \in Workers, NEW c \in Commands, AnswerAgain(w, c) PROVE Step
  BY <1>4, AnswerAgainInv
<1>5. ASSUME NEW w \in Workers, NEW c \in Commands, Execute(w, c) PROVE Step
  BY <1>5, ExecuteInv
<1>6. ASSUME NEW w \in Workers, NEW c \in Commands, NEW t \in Waiters, Wait(t, w, c)
      PROVE Step
  BY <1>6, WaitInv
<1>7. ASSUME NEW t \in Waiters, CommandResumes(t) PROVE Step  BY <1>7, CommandResumesInv
<1>8. ASSUME NEW t \in Waiters, CommandRaises(t) PROVE Step  BY <1>8, CommandRaisesInv
<1>9. CASE UNCHANGED storeVars
  <2>1. /\ loading' \in [Workers -> Aggregates \cup {NoRun}]
        /\ request' \in [Waiters -> Requests \cup {NoRequest}]
        /\ \A t \in Waiters : request'[t].at = "waiting" => request[t] = request'[t]
        /\ told' \subseteq Commands /\ faults' \in 0..MaxFaults
        /\ UNCHANGED <<db, cache, torn, failed>> /\ told' = told
    BY <1>9 DEF storeVars, StoreInv, StoreTypeOK, Requests
  <2>2. ~torn /\ ~failed => told' \subseteq db.recorded
    BY <2>1 DEF StoreInv, Durable
  <2> QED  BY <2>1, <2>2, QuietStep
<1> QED
  BY <1>1, <1>2, <1>3, <1>4, <1>5, <1>6, <1>7, <1>8, <1>9 DEF StoreNext

-----------------------------------------------------------------------------
(* Theorems *)

LEMMA InvHolds == StoreSpec => []StoreInv
<1>1. StoreInv /\ [StoreNext]_storeVars => StoreInv'
  BY NextInv DEF Step
<1> QED  BY InitInv, <1>1, PTL DEF StoreSpec

\* The rows, the aggregates in memory and the waiting requests are what their
\* tables and classes say (codec.py, sqlalchemy_repository.py).
THEOREM StoreTypeCorrect == StoreSpec => []StoreTypeOK
<1>1. StoreInv => StoreTypeOK  BY DEF StoreInv
<1> QED  BY InvHolds, <1>1, PTL

\* Unless a load mixed two saves, the effect of a command that waits for no model is
\* stored at most once over retries, failed saves, lost acknowledgements and
\* restarts, the event table tells the stored history, and what a client was
\* told is stored while no save has raised (_existing_command, save).
THEOREM EffectsAreStoredOnce == StoreSpec => []StoredOnce
<1>1. StoreInv => StoredOnce
  BY DEF StoreInv, Sound, Known, Durable, StoredOnce
<1> QED  BY InvHolds, <1>1, PTL

\* No save takes back an effect that is stored, whichever worker makes it
\* (RepositoryConflictError).
THEOREM SavesOverwriteNothing == StoreSpec => NothingOverwritten
<1>1. StoreInv /\ [StoreNext]_storeVars =>
          [~torn => Extends(db.effects, db'.effects)]_storeVars
  BY NextInv DEF Step
<1> QED  BY InvHolds, <1>1, PTL DEF StoreSpec, NothingOverwritten

-----------------------------------------------------------------------------
(* RunTables.  The references between the tables, by what they refer to.    *)

ScenarioTables == {"actors", "npc_profiles", "topics", "goal_definitions", "agendas"}

\* The tables whose rows refer to the row of the run, and those whose rows are parts of these.
DirectTables ==
    {"run_actor_states", "run_daily_schedules", "run_events", "command_records", "world_events",
     "topic_candidates", "conversations", "invitations", "join_requests", "goals", "relationships",
     "memories", "chapter_actor_stances", "chapter_authorizations", "chapter_agenda_stances",
     "chapter_resolutions", "run_state_items", "run_storage_revisions"}

PartTables ==
    {"world_event_observers", "conversation_participants", "conversation_segments",
     "conversation_idle_states", "messages", "join_request_approvers", "conversation_drafts",
     "consolidations", "memory_evidence_messages", "memory_actor_links", "memory_topic_links",
     "memory_goal_links", "memory_edges"}

Cascades(a, b) ==
    \/ b = "actors" /\ a = "npc_profiles"
    \/ b = "chapter_runs" /\ a \in DirectTables
    \/ b = "world_events" /\ a = "world_event_observers"
    \/ b = "conversations" /\ a \in {"conversation_participants", "conversation_segments", "messages",
                                     "conversation_idle_states", "join_requests",
                                     "conversation_drafts", "consolidations"}
    \/ b = "conversation_segments" /\ a \in {"segment_participants", "messages"}
    \/ b = "join_requests" /\ a = "join_request_approvers"
    \/ b = "memories" /\ a \in {"memory_evidence_messages", "memory_actor_links",
                                "memory_topic_links", "memory_goal_links", "memory_edges"}
    \/ b = "messages" /\ a = "memory_evidence_messages"
    \/ b = "goals" /\ a = "memory_goal_links"

Restricts(a, b) ==
    \/ b = "actors" /\ a \in {"goal_definitions", "agendas", "run_actor_states", "run_daily_schedules",
                              "world_event_observers", "conversation_participants",
                              "segment_participants", "messages", "invitations", "join_requests",
                              "join_request_approvers", "conversation_drafts", "consolidations",
                              "goals", "relationships", "memories", "memory_actor_links",
                              "chapter_actor_stances", "chapter_agenda_stances"}
    \/ b = "goal_definitions" /\ a \in {"agendas", "goals"}
    \/ b = "agendas" /\ a \in {"chapter_runs", "chapter_agenda_stances"}
    \/ b = "topics" /\ a = "memory_topic_links"
    \/ b = "goals" /\ a \in {"goals", "invitations"}
    \/ b = "conversations" /\ a \in {"invitations", "memories"}
    \/ b \in {"world_events", "conversation_segments"} /\ a = "memories"
    \/ b \in {"messages", "memories"} /\ a \in {"chapter_actor_stances", "chapter_authorizations",
                                                "chapter_agenda_stances"}

LEMMA ReferencesAre ==
  ASSUME NEW a, NEW b
  PROVE  /\ <<a, b, "CASCADE">> \in References <=> Cascades(a, b)
         /\ <<a, b, "RESTRICT">> \in References <=> Restricts(a, b)
<1>1. \A x : x \in References <=>
        \/ x \in ScenarioReferences \/ x \in StateReferences \/ x \in HistoryReferences
        \/ x \in ConversationReferences \/ x \in MessageReferences \/ x \in RequestReferences
        \/ x \in DraftReferences \/ x \in GoalReferences \/ x \in MemoryReferences
        \/ x \in LinkReferences \/ x \in StanceReferences \/ x \in StorageReferences
  BY DEF References
<1>2. ASSUME NEW rule, rule \in {"CASCADE", "RESTRICT"}
      PROVE  <<a, b, rule>> \in References => IF rule = "CASCADE" THEN Cascades(a, b) ELSE Restricts(a, b)
  <2>1. CASE <<a, b, rule>> \in ScenarioReferences
    BY <1>2, <2>1 DEF ScenarioReferences, Cascades, Restricts, DirectTables
  <2>2. CASE <<a, b, rule>> \in StateReferences
    BY <1>2, <2>2 DEF StateReferences, Cascades, Restricts, DirectTables
  <2>3. CASE <<a, b, rule>> \in HistoryReferences
    BY <1>2, <2>3 DEF HistoryReferences, Cascades, Restricts, DirectTables
  <2>4. CASE <<a, b, rule>> \in ConversationReferences
    BY <1>2, <2>4 DEF ConversationReferences, Cascades, Restricts, DirectTables
  <2>5. CASE <<a, b, rule>> \in MessageReferences
    BY <1>2, <2>5 DEF MessageReferences, Cascades, Restricts, DirectTables
  <2>6. CASE <<a, b, rule>> \in RequestReferences
    BY <1>2, <2>6 DEF RequestReferences, Cascades, Restricts, DirectTables
  <2>7. CASE <<a, b, rule>> \in DraftReferences
    BY <1>2, <2>7 DEF DraftReferences, Cascades, Restricts, DirectTables
  <2>8. CASE <<a, b, rule>> \in GoalReferences
    BY <1>2, <2>8 DEF GoalReferences, Cascades, Restricts, DirectTables
  <2>9. CASE <<a, b, rule>> \in MemoryReferences
    BY <1>2, <2>9 DEF MemoryReferences, Cascades, Restricts, DirectTables
  <2>10. CASE <<a, b, rule>> \in LinkReferences
    BY <1>2, <2>10 DEF LinkReferences, Cascades, Restricts, DirectTables
  <2>11. CASE <<a, b, rule>> \in StanceReferences
    BY <1>2, <2>11 DEF StanceReferences, Cascades, Restricts, DirectTables
  <2>12. CASE <<a, b, rule>> \in StorageReferences
    BY <1>2, <2>12 DEF StorageReferences, Cascades, Restricts, DirectTables
  <2> QED  BY <1>1, <2>1, <2>2, <2>3, <2>4, <2>5, <2>6, <2>7, <2>8, <2>9, <2>10, <2>11, <2>12
<1>3. ASSUME b = "actors" PROVE Restricts(a, b) => <<a, b, "RESTRICT">> \in References
  <2>1. CASE a \in {"chapter_actor_stances", "chapter_agenda_stances"}
    BY <1>1, <1>3, <2>1 DEF StanceReferences
  <2>2. CASE a \notin {"chapter_actor_stances", "chapter_agenda_stances"}
    BY <1>1, <1>3, <2>2 DEF Restricts, ScenarioReferences, StateReferences, HistoryReferences,
       ConversationReferences, MessageReferences, RequestReferences, DraftReferences,
       GoalReferences, MemoryReferences, LinkReferences
  <2> QED  BY <2>1, <2>2
<1>4. ASSUME b # "actors", b \notin {"messages", "memories"}
      PROVE  Restricts(a, b) => <<a, b, "RESTRICT">> \in References
  BY <1>1, <1>4 DEF Restricts, ScenarioReferences, StateReferences, RequestReferences, GoalReferences,
     MemoryReferences, LinkReferences, StanceReferences
<1>5. ASSUME b \in {"messages", "memories"}
      PROVE  Restricts(a, b) => <<a, b, "RESTRICT">> \in References
  BY <1>1, <1>5 DEF Restricts, StanceReferences
<1>6. ASSUME b = "chapter_runs" PROVE Cascades(a, b) => <<a, b, "CASCADE">> \in References
  <2>1. CASE a \in {"chapter_actor_stances", "chapter_authorizations", "chapter_agenda_stances"}
    BY <1>1, <1>6, <2>1 DEF StanceReferences
  <2>2. CASE a \in {"chapter_resolutions", "run_state_items", "run_storage_revisions"}
    BY <1>1, <1>6, <2>2 DEF StorageReferences
  <2>3. CASE a \notin {"chapter_actor_stances", "chapter_authorizations", "chapter_agenda_stances",
                      "chapter_resolutions", "run_state_items", "run_storage_revisions"}
    BY <1>1, <1>6, <2>3 DEF Cascades, DirectTables, StateReferences, HistoryReferences,
       ConversationReferences, RequestReferences, GoalReferences, MemoryReferences
  <2> QED  BY <2>1, <2>2, <2>3
<1>7. ASSUME b # "chapter_runs" PROVE Cascades(a, b) => <<a, b, "CASCADE">> \in References
  BY <1>1, <1>7 DEF Cascades, ScenarioReferences, HistoryReferences, ConversationReferences,
     MessageReferences, RequestReferences, DraftReferences, LinkReferences
<1> QED  BY <1>2, <1>3, <1>4, <1>5, <1>6, <1>7

-----------------------------------------------------------------------------
(* The rows a run has                                                        *)

\* What the rows of a table may refer to, and what makes them rows of the run.
Typed(table, refs) == \A n \in refs : Cascades(table, n[1]) \/ Restricts(table, n[1])

Rooted(table, refs) ==
    \/ table \in DirectTables /\ Chapter \in refs
    \/ table \in PartTables /\ \E n \in refs : n[1] \in DirectTables /\ Cascades(table, n[1])
    \/ table = "segment_participants" /\ \E n \in refs : n[1] = "conversation_segments"

OfScenario(t) == TableOf(t) \in ScenarioTables /\ t \in ScenarioRows
OfRun(t) ==
    \/ TableOf(t) = "chapter_runs" /\ t.name = Chapter
    \/ Rooted(TableOf(t), t.refs)

RowOK(t) ==
    /\ t = [name |-> t.name, refs |-> t.refs, status |-> t.status]
    /\ t.name = <<t.name[1], t.name[2]>>
    /\ Typed(TableOf(t), t.refs)
    /\ OfScenario(t) \/ OfRun(t)
    /\ TableOf(t) \in {"goals", "memories"} \/ t.status = "none"

EntryOK(table, e) ==
    /\ e = <<e[1], e[2]>>
    /\ Typed(table, e[2])
    /\ Rooted(table, e[2]) \/ (table = "chapter_runs" /\ e[1] = "run")

LEMMA EntryIs ==
  ASSUME NEW table, NEW key, NEW refs, NEW e, e = <<key, refs>>, Typed(table, refs),
         Rooted(table, refs) \/ (table = "chapter_runs" /\ key = "run")
  PROVE  EntryOK(table, e)
<1>1. e[1] = key /\ e[2] = refs /\ e = <<e[1], e[2]>>  OBVIOUS
<1>2. Typed(table, e[2]) /\ (Rooted(table, e[2]) \/ (table = "chapter_runs" /\ e[1] = "run"))
  BY <1>1, Zenon
<1> QED  BY <1>1, <1>2, Zenon DEF EntryOK

LEMMA StateEntryOK ==
  ASSUME NEW table, NEW r, NEW e \in StateEntries(table, r)
  PROVE  EntryOK(table, e)
<1>1. CASE table = "chapter_runs"
  BY <1>1 DEF StateEntries, EntryOK, Typed, Cascades, Restricts, DirectTables, Board
<1>2. CASE table \in {"run_actor_states", "run_daily_schedules"}
  BY <1>2 DEF StateEntries, EntryOK, Typed, Cascades, Restricts, DirectTables, Chapter, Npc, Rooted, PartTables
<1>3. CASE table \in {"run_state_items", "run_storage_revisions"}
  BY <1>3 DEF StateEntries, EntryOK, Typed, Cascades, DirectTables, Chapter, Rooted, PartTables
<1> QED  BY <1>1, <1>2, <1>3 DEF StateEntries

LEMMA HistoryEntryOK ==
  ASSUME NEW table, NEW r, NEW e \in HistoryEntries(table, r)
  PROVE  EntryOK(table, e)
<1>1. CASE table = "run_events"
  BY <1>1 DEF HistoryEntries, EntryOK, Typed, Cascades, DirectTables, Chapter, Rooted, PartTables
<1>2. CASE table = "command_records"
  <2>1. PICK n \in r.commands : e = <<n, {Chapter}>>
    BY <1>2 DEF HistoryEntries
  <2> DEFINE refs == {Chapter}
  <2>2. e = <<n, refs>>  BY <1>2, <2>1 DEF HistoryEntries
  <2>3. Typed(table, refs) /\ Rooted(table, refs)
    BY <1>2 DEF Typed, Rooted, Cascades, DirectTables, Chapter, PartTables
  <2> HIDE DEF refs
  <2> QED  BY <2>2, <2>3, EntryIs
<1>3. CASE table = "world_events"
  BY <1>3 DEF HistoryEntries, EntryOK, Typed, Cascades, DirectTables, Chapter, Rooted, PartTables
<1>4. CASE table = "world_event_observers"
  <2> DEFINE refs == {<<"world_events", "event">>, Npc}
  <2>1. e = <<"event", refs>>  BY <1>4 DEF HistoryEntries
  <2>2. Typed(table, refs) /\ Rooted(table, refs)
    BY <1>4 DEF Typed, Rooted, Cascades, Restricts, DirectTables, Npc, PartTables
  <2> HIDE DEF refs
  <2> QED  BY <2>1, <2>2, EntryIs
<1> QED  BY <1>1, <1>2, <1>3, <1>4 DEF HistoryEntries

LEMMA TalkEntryOK ==
  ASSUME NEW table, NEW r, NEW e \in TalkEntries(table, r)
  PROVE  EntryOK(table, e)
<1>1. CASE table = "conversations"
  <2>1. PICK c \in Opened(r) : e = <<c, {Chapter}>>
    BY <1>1 DEF TalkEntries
  <2> DEFINE refs == {Chapter}
  <2>2. e = <<c, refs>>  BY <1>1, <2>1 DEF TalkEntries
  <2>3. Typed(table, refs) /\ Rooted(table, refs)
    BY <1>1 DEF Typed, Rooted, Cascades, DirectTables, Chapter, PartTables
  <2> HIDE DEF refs
  <2> QED  BY <2>2, <2>3, EntryIs
<1>2. CASE table = "conversation_idle_states"
  <2>1. PICK c \in Opened(r) : e = <<c, {<<"conversations", c>>}>>
    BY <1>2 DEF TalkEntries
  <2> DEFINE refs == {<<"conversations", c>>}
  <2>2. e = <<c, refs>>  BY <1>2, <2>1 DEF TalkEntries
  <2>3. Typed(table, refs) /\ Rooted(table, refs)
    BY <1>2 DEF Typed, Rooted, Cascades, DirectTables, PartTables
  <2> HIDE DEF refs
  <2> QED  BY <2>2, <2>3, EntryIs
<1>3. CASE table \in {"conversation_participants", "conversation_drafts", "consolidations"}
  <2>1. PICK c \in Opened(r) : e = <<c, {<<"conversations", c>>, Npc}>>
    BY <1>3 DEF TalkEntries
  <2> DEFINE refs == {<<"conversations", c>>, Npc}
  <2>2. e = <<c, refs>>  BY <1>3, <2>1 DEF TalkEntries
  <2>3. Typed(table, refs) /\ Rooted(table, refs)
    BY <1>3 DEF Typed, Rooted, Cascades, Restricts, DirectTables, Npc, PartTables
  <2> HIDE DEF refs
  <2> QED  BY <2>2, <2>3, EntryIs
<1>4. CASE table = "conversation_segments"
  <2>1. PICK s \in Segments(r) : e = <<s, {<<"conversations", s[1]>>}>>
    BY <1>4 DEF TalkEntries
  <2> DEFINE refs == {<<"conversations", s[1]>>}
  <2>2. e = <<s, refs>>  BY <1>4, <2>1 DEF TalkEntries
  <2>3. Typed(table, refs) /\ Rooted(table, refs)
    BY <1>4 DEF Typed, Rooted, Cascades, DirectTables, PartTables
  <2> HIDE DEF refs
  <2> QED  BY <2>2, <2>3, EntryIs
<1>5. CASE table = "segment_participants"
  <2>1. PICK s \in Segments(r) : e = <<s, {<<"conversation_segments", s>>, Npc}>>
    BY <1>5 DEF TalkEntries
  <2> DEFINE refs == {<<"conversation_segments", s>>, Npc}
  <2>2. e = <<s, refs>>  BY <1>5, <2>1 DEF TalkEntries
  <2>3. Typed(table, refs) /\ Rooted(table, refs)
    BY <1>5 DEF Typed, Rooted, Cascades, Restricts, DirectTables, Npc, PartTables
  <2> HIDE DEF refs
  <2> QED  BY <2>2, <2>3, EntryIs
<1>6. CASE table = "messages"
  <2>1. PICK s \in r.messages : e = <<s, {<<"conversations", s[1]>>, <<"conversation_segments", s>>, Npc}>>
    BY <1>6 DEF TalkEntries
  <2> DEFINE refs == {<<"conversations", s[1]>>, <<"conversation_segments", s>>, Npc}
  <2>2. e = <<s, refs>>  BY <1>6, <2>1 DEF TalkEntries
  <2>3. Typed(table, refs) /\ Rooted(table, refs)
    BY <1>6 DEF Typed, Rooted, Cascades, Restricts, DirectTables, Npc, PartTables
  <2> HIDE DEF refs
  <2> QED  BY <2>2, <2>3, EntryIs
<1> QED  BY <1>1, <1>2, <1>3, <1>4, <1>5, <1>6 DEF TalkEntries

LEMMA MemoryRefsOK ==
  ASSUME NEW m
  PROVE  LET refs == {Chapter, Npc} \cup (IF m.said = {} THEN {<<"world_events", "event">>}
                                          ELSE {<<"conversations", s[1]>> : s \in m.said})
         IN Typed("memories", refs) /\ Rooted("memories", refs)
<1> DEFINE refs == {Chapter, Npc} \cup (IF m.said = {} THEN {<<"world_events", "event">>}
                                          ELSE {<<"conversations", s[1]>> : s \in m.said})
<1>1. \A n \in refs : n[1] \in {"chapter_runs", "actors", "world_events", "conversations"}
  BY DEF Chapter, Npc
<1>2. Chapter \in refs  OBVIOUS
<1> HIDE DEF refs
<1>3. Typed("memories", refs)  BY <1>1 DEF Typed, Cascades, Restricts, DirectTables
<1>4. Rooted("memories", refs)  BY <1>2 DEF Rooted, DirectTables
<1> QED  BY <1>3, <1>4 DEF refs

LEMMA MemoryEntryOK ==
  ASSUME NEW table, NEW r, NEW e \in MemoryEntries(table, r)
  PROVE  EntryOK(table, e)
<1>1. CASE table = "memories"
  <2>1. PICK m \in r.memories :
          e = <<m.memory, {Chapter, Npc} \cup (IF m.said = {} THEN {<<"world_events", "event">>}
                                               ELSE {<<"conversations", s[1]>> : s \in m.said})>>
    BY <1>1 DEF MemoryEntries
  <2> DEFINE refs == {Chapter, Npc} \cup (IF m.said = {} THEN {<<"world_events", "event">>}
                                            ELSE {<<"conversations", s[1]>> : s \in m.said})
  <2>2. e = <<m.memory, refs>>  BY <2>1
  <2>3. Typed("memories", refs) /\ Rooted("memories", refs)  BY MemoryRefsOK
  <2> HIDE DEF refs
  <2> QED  BY <1>1, <2>2, <2>3, EntryIs
<1>2. CASE table = "relationships"
  <2> DEFINE refs == {Chapter, Npc}
  <2>1. e = <<"npc", refs>>  BY <1>2 DEF MemoryEntries
  <2>2. Typed(table, refs)
    BY <1>2 DEF Typed, Cascades, Restricts, DirectTables, Chapter, Npc
  <2>3. Rooted(table, refs)  BY <1>2 DEF Rooted, DirectTables, Chapter, Npc
  <2> HIDE DEF refs
  <2> QED  BY <2>1, <2>2, <2>3, EntryIs
<1> QED  BY <1>1, <1>2 DEF MemoryEntries

LEMMA LinkEntryOK ==
  ASSUME NEW table, NEW r, NEW e \in LinkEntries(table, r)
  PROVE  EntryOK(table, e)
<1>1. CASE table = "memory_evidence_messages"
  <2>1. PICK m \in r.memories : \E s \in m.said : e = <<<<m.memory, s>>, {<<"memories", m.memory>>, <<"messages", s>>}>>
    BY <1>1 DEF LinkEntries
  <2>2. PICK s \in m.said : e = <<<<m.memory, s>>, {<<"memories", m.memory>>, <<"messages", s>>}>>  BY <2>1
  <2> DEFINE refs == {<<"memories", m.memory>>, <<"messages", s>>}
  <2>3. e = <<<<m.memory, s>>, refs>>  BY <1>1, <2>2 DEF LinkEntries
  <2>4. Typed(table, refs) /\ Rooted(table, refs)
    BY <1>1 DEF Typed, Rooted, Cascades, DirectTables, PartTables
  <2> HIDE DEF refs
  <2> QED  BY <2>3, <2>4, EntryIs
<1>2. CASE table = "memory_goal_links"
  <2>1. PICK m \in r.memories : \E g \in m.about : e = <<<<m.memory, g>>, {<<"memories", m.memory>>, <<"goals", g>>}>>
    BY <1>2 DEF LinkEntries
  <2>2. PICK g \in m.about : e = <<<<m.memory, g>>, {<<"memories", m.memory>>, <<"goals", g>>}>>  BY <2>1
  <2> DEFINE refs == {<<"memories", m.memory>>, <<"goals", g>>}
  <2>3. e = <<<<m.memory, g>>, refs>>  BY <1>2, <2>2 DEF LinkEntries
  <2>4. Typed(table, refs) /\ Rooted(table, refs)
    BY <1>2 DEF Typed, Rooted, Cascades, DirectTables, PartTables
  <2> HIDE DEF refs
  <2> QED  BY <2>3, <2>4, EntryIs
<1>3. CASE table = "memory_actor_links"
  <2>1. PICK m \in r.memories : e = <<m.memory, {<<"memories", m.memory>>, Npc}>>
    BY <1>3 DEF LinkEntries
  <2> DEFINE refs == {<<"memories", m.memory>>, Npc}
  <2>2. e = <<m.memory, refs>>  BY <1>3, <2>1 DEF LinkEntries
  <2>3. Typed(table, refs) /\ Rooted(table, refs)
    BY <1>3 DEF Typed, Rooted, Cascades, Restricts, DirectTables, Npc, PartTables
  <2> HIDE DEF refs
  <2> QED  BY <2>2, <2>3, EntryIs
<1>4. CASE table = "memory_topic_links"
  <2>1. PICK m \in r.memories : e = <<m.memory, {<<"memories", m.memory>>, Topic}>>
    BY <1>4 DEF LinkEntries
  <2> DEFINE refs == {<<"memories", m.memory>>, Topic}
  <2>2. e = <<m.memory, refs>>  BY <1>4, <2>1 DEF LinkEntries
  <2>3. Typed(table, refs) /\ Rooted(table, refs)
    BY <1>4 DEF Typed, Rooted, Cascades, Restricts, DirectTables, Topic, PartTables
  <2> HIDE DEF refs
  <2> QED  BY <2>2, <2>3, EntryIs
<1> QED  BY <1>1, <1>2, <1>3, <1>4 DEF LinkEntries

LEMMA RequestEntryOK ==
  ASSUME NEW table, NEW r, NEW e \in RequestEntries(table, r)
  PROVE  EntryOK(table, e)
<1>1. CASE table = "invitations"
  <2>1. PICK i \in r.invited : e = <<i, {Chapter, Npc, <<"conversations", i[1]>>, <<"goals", i[2]>>}>>
    BY <1>1 DEF RequestEntries
  <2> DEFINE refs == {Chapter, Npc, <<"conversations", i[1]>>, <<"goals", i[2]>>}
  <2>2. e = <<i, refs>>  BY <1>1, <2>1 DEF RequestEntries
  <2>3. Typed(table, refs) /\ Rooted(table, refs)
    BY <1>1 DEF Typed, Rooted, Cascades, Restricts, DirectTables, Chapter, Npc, PartTables
  <2> HIDE DEF refs
  <2> QED  BY <2>2, <2>3, EntryIs
<1>2. CASE table = "join_requests"
  <2>1. PICK s \in Segments(r) : e = <<s, {Chapter, Npc, <<"conversations", s[1]>>}>>
    BY <1>2 DEF RequestEntries
  <2> DEFINE refs == {Chapter, Npc, <<"conversations", s[1]>>}
  <2>2. e = <<s, refs>>  BY <1>2, <2>1 DEF RequestEntries
  <2>3. Typed(table, refs) /\ Rooted(table, refs)
    BY <1>2 DEF Typed, Rooted, Cascades, Restricts, DirectTables, Chapter, Npc, PartTables
  <2> HIDE DEF refs
  <2> QED  BY <2>2, <2>3, EntryIs
<1>3. CASE table = "join_request_approvers"
  <2>1. PICK s \in Segments(r) : e = <<s, {<<"join_requests", s>>, Npc}>>
    BY <1>3 DEF RequestEntries
  <2> DEFINE refs == {<<"join_requests", s>>, Npc}
  <2>2. e = <<s, refs>>  BY <1>3, <2>1 DEF RequestEntries
  <2>3. Typed(table, refs) /\ Rooted(table, refs)
    BY <1>3 DEF Typed, Rooted, Cascades, Restricts, DirectTables, Npc, PartTables
  <2> HIDE DEF refs
  <2> QED  BY <2>2, <2>3, EntryIs
<1> QED  BY <1>1, <1>2, <1>3 DEF RequestEntries

LEMMA ChapterEntryOK ==
  ASSUME NEW table, NEW r, NEW e \in ChapterEntries(table, r)
  PROVE  EntryOK(table, e)
<1>1. CASE table = "chapter_actor_stances"
  BY <1>1 DEF ChapterEntries, EntryOK, Typed, Cascades, Restricts, DirectTables, Chapter, Npc, Rooted, PartTables
<1>2. CASE table = "chapter_agenda_stances"
  BY <1>2 DEF ChapterEntries, EntryOK, Typed, Cascades, Restricts, DirectTables, Chapter, Npc, Board, Rooted, PartTables
<1>3. CASE table \in {"chapter_authorizations", "chapter_resolutions"}
  BY <1>3 DEF ChapterEntries, EntryOK, Typed, Cascades, DirectTables, Chapter, Rooted, PartTables
<1> QED  BY <1>1, <1>2, <1>3 DEF ChapterEntries

LEMMA RowsOfOK ==
  ASSUME NEW table, NEW r, NEW stored, NEW t \in RowsOf(table, r, stored)
  PROVE  RowOK(t) /\ TableOf(t) = table
<1>1. ASSUME NEW e \in EntriesOf(table, r) PROVE EntryOK(table, e)
  BY StateEntryOK, HistoryEntryOK, TalkEntryOK, MemoryEntryOK, LinkEntryOK, RequestEntryOK,
     ChapterEntryOK DEF EntriesOf
<1>2. CASE table = "goals"
  <2>1. PICK i \in DOMAIN r.goals : t = GoalRows(r)[i]
    BY <1>2 DEF RowsOf, ToSet, GoalRows
  <2>2. t = [name |-> <<"goals", r.goals[i].goal>>, status |-> r.goals[i].status,
             refs |-> {Chapter, Npc} \cup {<<"goals", p>> : p \in r.goals[i].parents}
                        \cup (IF r.goals[i].goal = 0 THEN {Definition} ELSE {})]
    BY <2>1 DEF GoalRows, Row
  <2>3. Chapter \in t.refs  BY <2>2
  <2>4. \A n \in t.refs : n[1] \in {"chapter_runs", "actors", "goals", "goal_definitions"}
    BY <2>2 DEF Chapter, Npc, Definition
  <2>5. t.name = <<"goals", t.name[2]>> /\ t.name[1] = "goals" /\ TableOf(t) = "goals"
    BY <2>2 DEF TableOf
  <2>6. Typed("goals", t.refs)  BY <2>4 DEF Typed, Cascades, Restricts, DirectTables
  <2>7. t = [name |-> t.name, refs |-> t.refs, status |-> t.status]  BY <2>2
  <2> QED  BY <1>2, <2>3, <2>5, <2>6, <2>7 DEF RowOK, OfRun, Rooted, DirectTables
<1>3. CASE table # "goals"
  <2>1. PICK e \in EntriesOf(table, r) :
          \/ table = "memories" /\ t = [Row(table, e[1], e[2]) EXCEPT !.status = VectorOf(e[1], stored)]
          \/ table # "memories" /\ t = Row(table, e[1], e[2])
    BY <1>3 DEF RowsOf
  <2>2. /\ t.name = <<table, e[1]>> /\ t.refs = e[2]
        /\ t = [name |-> t.name, refs |-> t.refs, status |-> t.status]
        /\ table = "memories" \/ t.status = "none"
    BY <2>1 DEF Row
  <2>3. EntryOK(table, e)  BY <1>1
  <2>4. TableOf(t) = table /\ t.name = <<t.name[1], t.name[2]>>  BY <2>2 DEF TableOf
  <2> QED  BY <2>2, <2>3, <2>4 DEF EntryOK, RowOK, OfRun, Chapter
<1> QED  BY <1>2, <1>3

LEMMA ScenarioRowsOK ==
  ASSUME NEW t \in ScenarioRows
  PROVE  /\ RowOK(t) /\ OfScenario(t) /\ t.status = "none"
         /\ t.refs \subseteq Names(ScenarioRows)
  BY DEF ScenarioRows, RowOK, OfScenario, Row, Npc, Topic, Definition, Board, Typed, Cascades,
         Restricts, TableOf, ScenarioTables, Names

-----------------------------------------------------------------------------
(* Transactions                                                              *)

\* Every row is one of the schema, and what it refers to is there.
RowsOK(rs, n) ==
    /\ \A t \in rs : RowOK(t) /\ TableOf(t) \in TablesAt(n) /\ Lawful(t, n)
    /\ \A t \in rs : t.refs \subseteq Names(rs)

\* A list of tables is Closed when it has the tables its rows' deletion would cascade to.
Closed(deletes) == \A a, b : b \in ToSet(deletes) /\ Cascades(a, b) => a \in ToSet(deletes)

LEMMA NextLevelOf ==
  ASSUME NEW rs, NEW a
  PROVE  LET next == {t \in rs \ a.gone : \E p \in a.level : Refers(t, p, "CASCADE")}
         IN /\ NextLevel(rs, a).gone = a.gone \cup next
            /\ NextLevel(rs, a).level = next
            /\ NextLevel(rs, a).ok <=>
                 a.ok /\ ~ \E t \in rs \ a.gone, p \in a.level : Refers(t, p, "RESTRICT")
  BY DEF NextLevel

LEMMA DeletedTables ==
  ASSUME NEW done, NEW deletes, NEW dead, Closed(deletes),
         dead = {t \in done.rows : TableOf(t) \in ToSet(deletes)}
  PROVE  DeletedRows(done, dead).rows = {t \in done.rows : TableOf(t) \notin ToSet(deletes)}
<1> DEFINE rs == done.rows
           a0 == [gone |-> dead, level |-> dead, ok |-> TRUE]
           a1 == NextLevel(rs, a0)
           a2 == NextLevel(rs, a1)
           a3 == NextLevel(rs, a2)
           a4 == NextLevel(rs, a3)
           a5 == NextLevel(rs, a4)
<1>1. ASSUME NEW t \in rs \ dead, NEW p \in dead, Refers(t, p, "CASCADE") PROVE FALSE
  <2>1. Cascades(TableOf(t), TableOf(p))  BY <1>1, ReferencesAre DEF Refers
  <2> QED  BY <1>1, <2>1 DEF Closed
<1>2. ASSUME NEW a, a.gone = dead, a.level \subseteq dead
      PROVE  NextLevel(rs, a).gone = dead /\ NextLevel(rs, a).level \subseteq dead
  <2> DEFINE next == {t \in rs \ a.gone : \E p \in a.level : Refers(t, p, "CASCADE")}
  <2>1. next = {}  BY <1>1, <1>2
  <2>2. NextLevel(rs, a).gone = a.gone \cup next /\ NextLevel(rs, a).level = next
    BY NextLevelOf
  <2> HIDE DEF next
  <2> QED  BY <1>2, <2>1, <2>2
<1>3. a0.gone = dead /\ a0.level \subseteq dead  OBVIOUS
<1>4. DeletedRows(done, dead).rows = rs \ a5.gone  BY DEF DeletedRows
<1> HIDE DEF a0, rs
<1>5. a1.gone = dead /\ a1.level \subseteq dead  BY <1>2, <1>3
<1> HIDE DEF a1
<1>6. a2.gone = dead /\ a2.level \subseteq dead  BY <1>2, <1>5
<1> HIDE DEF a2
<1>7. a3.gone = dead /\ a3.level \subseteq dead  BY <1>2, <1>6
<1> HIDE DEF a3
<1>8. a4.gone = dead /\ a4.level \subseteq dead  BY <1>2, <1>7
<1> HIDE DEF a4
<1>9. a5.gone = dead  BY <1>2, <1>8
<1> HIDE DEF a5
<1> QED  BY <1>4, <1>9 DEF rs

LEMMA NewRowsOK ==
  ASSUME NEW inserts, NEW r, NEW stored, NEW t \in NewRows(inserts, r, stored)
  PROVE  RowOK(t) /\ TableOf(t) \in ToSet(inserts) /\ t \in RowsOf(TableOf(t), r, stored)
<1>1. PICK table \in ToSet(inserts) : t \in RowsOf(table, r, stored)  BY DEF NewRows
<1> QED  BY <1>1, RowsOfOK

\* What an insert refers to was there or is inserted too.
LEMMA InsertsRefer ==
  ASSUME NEW rs, NEW new, NEW inserts, NEW r, NEW stored, InsertsInOrder(rs, new, inserts, r),
         new \subseteq NewRows(inserts, r, stored),
         Names(NewRows(inserts, r, stored)) \subseteq Names(rs) \cup Names(new), NEW t \in new
  PROVE  Lawful(t, 6) /\ t.name \notin Names(rs) /\ t.refs \subseteq Names(rs) \cup Names(new)
<1>1. TableOf(t) \in ToSet(inserts)  BY NewRowsOK
<1>2. PICK i \in DOMAIN inserts : inserts[i] = TableOf(t)  BY <1>1 DEF ToSet
<1> DEFINE earlier == {inserts[j] : j \in 1..(i - 1)}
           before  == Names(rs) \cup Names({u \in new : TableOf(u) \in earlier})
<1>3. t.refs \subseteq before \cup GoalsBefore(t, r) /\ Lawful(t, 6) /\ t.name \notin Names(rs)
  BY <1>2 DEF InsertsInOrder
<1>4. before \subseteq Names(rs) \cup Names(new)  BY DEF Names
<1>5. ASSUME NEW n \in GoalsBefore(t, r) PROVE n \in Names(rs) \cup Names(new)
  <2>1. PICK j \in DOMAIN r.goals : /\ n = <<"goals", r.goals[j].goal>>
                                    /\ \E k \in DOMAIN r.goals : t.name = <<"goals", r.goals[k].goal>>
    BY <1>5 DEF GoalsBefore
  <2>2. "goals" \in ToSet(inserts)  BY <1>1, <2>1 DEF TableOf
  <2>3. GoalRows(r)[j] \in RowsOf("goals", r, stored) /\ GoalRows(r)[j].name = n
    BY <2>1 DEF RowsOf, ToSet, GoalRows, Row
  <2>4. GoalRows(r)[j] \in NewRows(inserts, r, stored)  BY <2>2, <2>3 DEF NewRows
  <2> QED  BY <2>3, <2>4 DEF Names
<1> HIDE DEF before
<1> QED  BY <1>3, <1>4, <1>5

LEMMA NamesOfUnion == ASSUME NEW a, NEW b PROVE Names(a \cup b) = Names(a) \cup Names(b)
  BY DEF Names

\* Rows that refer to a row which is not among the deleted ones are kept whole.
LEMMA KeptWhole ==
  ASSUME NEW rs, NEW n, NEW deletes, RowsOK(rs, n), DeletesInOrder(rs, deletes), Closed(deletes)
  PROVE  RowsOK({t \in rs : TableOf(t) \notin ToSet(deletes)}, n)
<1> DEFINE kept == {t \in rs : TableOf(t) \notin ToSet(deletes)}
<1>1. ASSUME NEW t \in kept, NEW x \in t.refs PROVE x \in Names(kept)
  <2>1. PICK p \in rs : p.name = x  BY <1>1 DEF RowsOK, Names
  <2>2. CASE TableOf(p) \notin ToSet(deletes)  BY <2>1, <2>2 DEF Names
  <2>3. CASE TableOf(p) \in ToSet(deletes)
    <3>1. Cascades(TableOf(t), TableOf(p)) \/ Restricts(TableOf(t), TableOf(p))
      BY <1>1, <2>1 DEF RowsOK, RowOK, Typed, TableOf
    <3>2. CASE Cascades(TableOf(t), TableOf(p))  BY <1>1, <2>3, <3>2 DEF Closed
    <3>3. CASE Restricts(TableOf(t), TableOf(p))
      <4>1. Refers(t, p, "RESTRICT")  BY <1>1, <2>1, <3>3, ReferencesAre DEF Refers
      <4>2. \E i \in DOMAIN deletes : deletes[i] = TableOf(t)
        BY <1>1, <2>1, <2>3, <4>1 DEF DeletesInOrder
      <4> QED  BY <1>1, <4>2 DEF ToSet
    <3> QED  BY <3>1, <3>2, <3>3
  <2> QED  BY <2>2, <2>3
<1> QED  BY <1>1 DEF RowsOK

LEMMA ReplacedOK ==
  ASSUME NEW done, NEW deletes, NEW inserts, NEW r, NEW stored, RowsOK(done.rows, 6),
         Replaced(done, deletes, inserts, r, stored).ok, Closed(deletes),
         ToSet(inserts) \subseteq TablesAt(6)
  PROVE  RowsOK(Replaced(done, deletes, inserts, r, stored).rows, 6)
<1> DEFINE kept == {t \in done.rows : TableOf(t) \notin ToSet(deletes)}
           new  == NewRows(inserts, r, stored)
<1>1. /\ Replaced(done, deletes, inserts, r, stored).rows = kept \cup new
      /\ DeletesInOrder(done.rows, deletes) /\ InsertsInOrder(kept, new, inserts, r)
  BY DeletedTables DEF Replaced
<1>2. RowsOK(kept, 6)  BY <1>1, KeptWhole
<1>3. \A t \in new : Lawful(t, 6) /\ t.refs \subseteq Names(kept) \cup Names(new)
  BY <1>1, InsertsRefer
<1>4. \A t \in new : RowOK(t) /\ TableOf(t) \in TablesAt(6)  BY NewRowsOK
<1>5. Names(kept \cup new) = Names(kept) \cup Names(new)  BY NamesOfUnion
<1> HIDE DEF kept, new
<1> QED  BY <1>1, <1>2, <1>3, <1>4, <1>5 DEF RowsOK

LEMMA MergedOK ==
  ASSUME NEW done, NEW inserts, NEW r, NEW stored, RowsOK(done.rows, 6),
         Merged(done, inserts, r, stored).ok, ToSet(inserts) \subseteq TablesAt(6)
  PROVE  RowsOK(Merged(done, inserts, r, stored).rows, 6)
<1> DEFINE all == NewRows(inserts, r, stored)
           new == {t \in all : t.name \notin Names(done.rows)}
<1>1. /\ Merged(done, inserts, r, stored).rows = done.rows \cup new
      /\ InsertsInOrder(done.rows, new, inserts, r)
  BY DEF Merged
<1>2. Names(all) \subseteq Names(done.rows) \cup Names(new)  BY DEF Names
<1>3. \A t \in new : Lawful(t, 6) /\ t.refs \subseteq Names(done.rows) \cup Names(new)
  BY <1>1, <1>2, InsertsRefer
<1>4. \A t \in new : RowOK(t) /\ TableOf(t) \in TablesAt(6)  BY NewRowsOK
<1>5. Names(done.rows \cup new) = Names(done.rows) \cup Names(new)  BY NamesOfUnion
<1> HIDE DEF new
<1> QED  BY <1>1, <1>3, <1>4, <1>5 DEF RowsOK

-----------------------------------------------------------------------------
(* The lists of tables of a save                                             *)

LEMMA DeleteOrderHas ==
  ASSUME NEW table
  PROVE  table \in ToSet(DeleteOrder) <=>
           table \in {"chapter_resolutions", "chapter_agenda_stances", "chapter_authorizations",
                      "chapter_actor_stances", "memory_edges", "memory_goal_links",
                      "memory_topic_links", "memory_actor_links", "memory_evidence_messages",
                      "consolidations", "conversation_drafts", "join_request_approvers",
                      "join_requests", "invitations", "memories", "relationships", "goals",
                      "conversation_idle_states", "messages", "segment_participants",
                      "conversation_segments", "conversation_participants", "conversations"}
  BY DEF ToSet, DeleteOrder

LEMMA InsertOrderHas ==
  ASSUME NEW table
  PROVE  table \in ToSet(InsertOrder) <=> table \in ToSet(DeleteOrder)
  BY DEF ToSet, DeleteOrder, InsertOrder

\* The tables of the first migration, and those the second one adds.
FirstTables ==
    ScenarioTables \cup
    {"chapter_runs", "run_actor_states", "run_daily_schedules", "run_events", "command_records",
     "world_events", "world_event_observers", "topic_candidates", "conversations",
     "conversation_participants", "conversation_segments", "segment_participants", "messages",
     "conversation_idle_states", "goals", "relationships", "invitations", "join_requests",
     "join_request_approvers", "conversation_drafts", "consolidations"}
SecondTables ==
    {"chapter_resolutions", "run_state_items", "run_storage_revisions", "memories",
     "chapter_actor_stances", "chapter_agenda_stances", "chapter_authorizations",
     "memory_actor_links", "memory_edges", "memory_evidence_messages", "memory_goal_links",
     "memory_topic_links"}

AllTables == FirstTables \cup SecondTables

LEMMA ToSetConcat ==
  ASSUME NEW s \in Seq(AllTables), NEW t \in Seq(AllTables)
  PROVE  s \o t \in Seq(AllTables) /\ ToSet(s \o t) = ToSet(s) \cup ToSet(t)
<1>1. /\ s \o t \in Seq(AllTables) /\ Len(s \o t) = Len(s) + Len(t)
      /\ \A i \in 1..Len(s) + Len(t) : (s \o t)[i] = IF i <= Len(s) THEN s[i] ELSE t[i - Len(s)]
  BY ConcatProperties
<1>2. Len(s) \in Nat /\ Len(t) \in Nat /\ DOMAIN s = 1..Len(s) /\ DOMAIN t = 1..Len(t)
      /\ DOMAIN (s \o t) = 1..Len(s \o t)
  BY <1>1, LenProperties
<1>3. ASSUME NEW x \in ToSet(s \o t) PROVE x \in ToSet(s) \cup ToSet(t)
  <2>1. PICK i \in 1..Len(s) + Len(t) : x = (s \o t)[i]  BY <1>1, <1>2 DEF ToSet
  <2>2. CASE i <= Len(s)
    <3>1. i \in 1..Len(s) /\ x = s[i]  BY <1>1, <1>2, <2>1, <2>2
    <3> QED  BY <1>2, <3>1 DEF ToSet
  <2>3. CASE ~(i <= Len(s))
    <3>1. i - Len(s) \in 1..Len(t) /\ x = t[i - Len(s)]  BY <1>1, <1>2, <2>1, <2>3
    <3> QED  BY <1>2, <3>1 DEF ToSet
  <2> QED  BY <2>2, <2>3
<1>4. ASSUME NEW x \in ToSet(s) PROVE x \in ToSet(s \o t)
  <2>1. PICK i \in 1..Len(s) : x = s[i]  BY <1>2 DEF ToSet
  <2>2. i \in 1..Len(s \o t) /\ x = (s \o t)[i]  BY <1>1, <1>2, <2>1
  <2> QED  BY <1>2, <2>2 DEF ToSet
<1>5. ASSUME NEW x \in ToSet(t) PROVE x \in ToSet(s \o t)
  <2>1. PICK i \in 1..Len(t) : x = t[i]  BY <1>2 DEF ToSet
  <2>2. Len(s) + i \in 1..Len(s \o t) /\ x = (s \o t)[Len(s) + i]  BY <1>1, <1>2, <2>1
  <2> QED  BY <1>2, <2>2 DEF ToSet
<1> QED  BY <1>1, <1>3, <1>4, <1>5

LEMMA IsSequence == ASSUME NEW n \in Nat, NEW s \in [1..n -> AllTables] PROVE s \in Seq(AllTables)
  OBVIOUS

LEMMA ListsAreSequences ==
  /\ WorldTables \in Seq(AllTables) /\ HistoryTables \in Seq(AllTables) /\ TalkTables \in Seq(AllTables)
  /\ RequestTables \in Seq(AllTables) /\ ChapterTables \in Seq(AllTables) /\ LinkTables \in Seq(AllTables)
  /\ InsertOrder \in Seq(AllTables)
<1>1. WorldTables \in Seq(AllTables)
  BY DEF WorldTables, AllTables, FirstTables, SecondTables, ScenarioTables
<1>2. HistoryTables \in Seq(AllTables)
  BY DEF HistoryTables, AllTables, FirstTables, SecondTables, ScenarioTables
<1>3. TalkTables \in Seq(AllTables)
  BY DEF TalkTables, AllTables, FirstTables, SecondTables, ScenarioTables
<1>4. RequestTables \in Seq(AllTables)
  BY DEF RequestTables, AllTables, FirstTables, SecondTables, ScenarioTables
<1>5. ChapterTables \in Seq(AllTables)
  BY DEF ChapterTables, AllTables, FirstTables, SecondTables, ScenarioTables
<1>6. LinkTables \in Seq(AllTables)
  BY DEF LinkTables, AllTables, FirstTables, SecondTables, ScenarioTables
<1>7. InsertOrder \in Seq(AllTables)
  <2>1. DOMAIN InsertOrder = 1..23 /\ InsertOrder = [i \in 1..23 |-> InsertOrder[i]]
    BY DEF InsertOrder
  <2>2. \A i \in 1..23 : InsertOrder[i] \in ToSet(InsertOrder)  BY <2>1 DEF ToSet
  <2>3. ToSet(InsertOrder) \subseteq AllTables
    BY InsertOrderHas, DeleteOrderHas DEF AllTables, FirstTables, SecondTables
  <2>4. InsertOrder \in [1..23 -> AllTables]  BY <2>1, <2>2, <2>3
  <2> QED  BY <2>4, IsSequence
<1> QED  BY <1>1, <1>2, <1>3, <1>4, <1>5, <1>6, <1>7

LEMMA CreateOrderHas ==
  ASSUME NEW table
  PROVE  /\ table \in ToSet(CreateOrder(1)) <=>
              table \in ToSet(WorldTables) \cup ToSet(HistoryTables) \cup ToSet(TalkTables)
                        \cup ToSet(RequestTables)
         /\ table \in ToSet(CreateOrder(2)) <=> table \in ToSet(ChapterTables) \cup ToSet(LinkTables)
         /\ \A n \in 3..6 : CreateOrder(n) = <<>>
<1>1. CreateOrder(1) = WorldTables \o HistoryTables \o TalkTables \o RequestTables
  BY DEF CreateOrder
<1>2. CreateOrder(2) = ChapterTables \o LinkTables  BY DEF CreateOrder
<1>3. \A n \in 3..6 : CreateOrder(n) = <<>>  BY DEF CreateOrder
<1>4. /\ WorldTables \o HistoryTables \in Seq(AllTables)
      /\ ToSet(WorldTables \o HistoryTables) = ToSet(WorldTables) \cup ToSet(HistoryTables)
  BY ListsAreSequences, ToSetConcat
<1>5. /\ (WorldTables \o HistoryTables) \o TalkTables \in Seq(AllTables)
      /\ ToSet((WorldTables \o HistoryTables) \o TalkTables) =
           ToSet(WorldTables) \cup ToSet(HistoryTables) \cup ToSet(TalkTables)
  BY <1>4, ListsAreSequences, ToSetConcat
<1>6. ToSet(((WorldTables \o HistoryTables) \o TalkTables) \o RequestTables) =
           ToSet(WorldTables) \cup ToSet(HistoryTables) \cup ToSet(TalkTables) \cup ToSet(RequestTables)
  BY <1>5, ListsAreSequences, ToSetConcat
<1>7. ToSet(ChapterTables \o LinkTables) = ToSet(ChapterTables) \cup ToSet(LinkTables)
  BY ListsAreSequences, ToSetConcat
<1> QED  BY <1>1, <1>2, <1>3, <1>6, <1>7

LEMMA TablesAtAre ==
  /\ TablesAt(0) = {} /\ TablesAt(1) = FirstTables
  /\ \A n \in 2..6 : TablesAt(n) = FirstTables \cup SecondTables
<1>1. \A x : x \in ToSet(WorldTables) <=>
        x \in {"actors", "npc_profiles", "topics", "goal_definitions", "agendas", "chapter_runs",
               "run_actor_states"}
  BY DEF ToSet, WorldTables
<1>2. \A x : x \in ToSet(HistoryTables) <=>
        x \in {"run_daily_schedules", "run_events", "command_records", "world_events",
               "world_event_observers", "topic_candidates"}
  BY DEF ToSet, HistoryTables
<1>3. \A x : x \in ToSet(TalkTables) <=>
        x \in {"conversations", "conversation_participants", "conversation_segments",
               "segment_participants", "messages", "conversation_idle_states"}
  BY DEF ToSet, TalkTables
<1>4. \A x : x \in ToSet(RequestTables) <=>
        x \in {"goals", "relationships", "invitations", "join_requests", "join_request_approvers",
               "conversation_drafts", "consolidations"}
  BY DEF ToSet, RequestTables
<1>5. \A x : x \in ToSet(ChapterTables) <=>
        x \in {"chapter_resolutions", "run_state_items", "run_storage_revisions", "memories",
               "chapter_actor_stances", "chapter_agenda_stances", "chapter_authorizations"}
  BY DEF ToSet, ChapterTables
<1>6. \A x : x \in ToSet(LinkTables) <=>
        x \in {"memory_actor_links", "memory_edges", "memory_evidence_messages",
               "memory_goal_links", "memory_topic_links"}
  BY DEF ToSet, LinkTables
<1>7. ToSet(CreateOrder(1)) = FirstTables
  BY <1>1, <1>2, <1>3, <1>4, CreateOrderHas DEF FirstTables, ScenarioTables
<1>8. ToSet(CreateOrder(2)) = SecondTables
  BY <1>5, <1>6, CreateOrderHas DEF SecondTables
<1>9. \A n \in 3..6 : ToSet(CreateOrder(n)) = {}  BY CreateOrderHas DEF ToSet
<1>10. TablesAt(0) = {}  BY DEF TablesAt
<1>11. TablesAt(1) = FirstTables
  <2>1. \A k \in 1..1 : k = 1  OBVIOUS
  <2>2. \A x : x \in TablesAt(1) <=> \E k \in 1..1 : x \in ToSet(CreateOrder(k))  BY DEF TablesAt
  <2> QED  BY <1>7, <2>1, <2>2
<1>12. ASSUME NEW n \in 2..6 PROVE TablesAt(n) = FirstTables \cup SecondTables
  <2>1. \A x : x \in TablesAt(n) <=> \E k \in 1..n : x \in ToSet(CreateOrder(k))  BY DEF TablesAt
  <2>2. \A k \in 1..n : k \in {1, 2} \cup (3..6)  BY <1>12
  <2>3. 1 \in 1..n /\ 2 \in 1..n  BY <1>12
  <2> QED  BY <1>7, <1>8, <1>9, <2>1, <2>2, <2>3
<1> QED  BY <1>10, <1>11, <1>12

\* No row of the first migration's tables refers to one of the second's.
LEMMA FirstTablesClosed ==
  ASSUME NEW a, NEW b, a \in FirstTables, Cascades(a, b) \/ Restricts(a, b)
  PROVE  b \in FirstTables
  BY DEF FirstTables, ScenarioTables, Cascades, Restricts, DirectTables

LEMMA TablesAtSix == TablesAt(6) = AllTables
  BY TablesAtAre DEF AllTables

AddedTables ==
    {"chapter_runs", "run_actor_states", "run_daily_schedules", "run_events", "command_records",
     "world_events", "world_event_observers", "run_state_items", "run_storage_revisions"}

\* The tables a run that is added has rows in.
LEMMA AddedRowsAre ==
  ASSUME NEW r, NEW stored
  PROVE  \E inserts \in Seq(AllTables) :
           /\ ToSet(inserts) = AddedTables \cup ToSet(InsertOrder)
           /\ AddedRows(r, stored) = Replaced([rows |-> stored, ok |-> TRUE], <<>>, inserts, r, stored)
<1> DEFINE s == <<"chapter_runs", "run_actor_states", "run_daily_schedules", "run_events",
                  "command_records", "world_events", "world_event_observers", "run_state_items">>
           t == <<"run_storage_revisions">>
<1>1. s \in Seq(AllTables) /\ \A x : x \in ToSet(s) <=> x \in AddedTables \ {"run_storage_revisions"}
  BY DEF AllTables, FirstTables, SecondTables, AddedTables, ToSet
<1>2. t \in Seq(AllTables) /\ \A x : x \in ToSet(t) <=> x = "run_storage_revisions"
  BY DEF AllTables, FirstTables, SecondTables, ToSet
<1>3. AddedRows(r, stored)
        = Replaced([rows |-> stored, ok |-> TRUE], <<>>, (s \o InsertOrder) \o t, r, stored)
  BY DEF AddedRows
<1> HIDE DEF s, t
<1>4. s \o InsertOrder \in Seq(AllTables) /\ ToSet(s \o InsertOrder) = ToSet(s) \cup ToSet(InsertOrder)
  BY <1>1, ListsAreSequences, ToSetConcat
<1>5. /\ (s \o InsertOrder) \o t \in Seq(AllTables)
      /\ ToSet((s \o InsertOrder) \o t) = ToSet(s) \cup ToSet(InsertOrder) \cup ToSet(t)
  BY <1>2, <1>4, ToSetConcat
<1>6. ToSet((s \o InsertOrder) \o t) = AddedTables \cup ToSet(InsertOrder)
  BY <1>1, <1>2, <1>5 DEF AddedTables
<1> QED  BY <1>3, <1>5, <1>6

LEMMA InsertedTables == AddedTables \cup ToSet(InsertOrder) \subseteq AllTables
  BY InsertOrderHas, DeleteOrderHas DEF AddedTables, AllTables, FirstTables, SecondTables

LEMMA NothingClosed == Closed(<<>>)
  BY DEF Closed, ToSet

LEMMA AddedRowsOK ==
  ASSUME NEW r, NEW stored, RowsOK(stored, 6), AddedRows(r, stored).ok
  PROVE  RowsOK(AddedRows(r, stored).rows, 6)
<1>1. PICK inserts \in Seq(AllTables) :
           /\ ToSet(inserts) = AddedTables \cup ToSet(InsertOrder)
           /\ AddedRows(r, stored) = Replaced([rows |-> stored, ok |-> TRUE], <<>>, inserts, r, stored)
  BY AddedRowsAre
<1> DEFINE done == [rows |-> stored, ok |-> TRUE]
<1>2. RowsOK(done.rows, 6)  OBVIOUS
<1> HIDE DEF done
<1>3. Replaced(done, <<>>, inserts, r, stored).ok  BY <1>1 DEF done
<1>4. ToSet(inserts) \subseteq TablesAt(6)  BY <1>1, InsertedTables, TablesAtSix
<1>5. RowsOK(Replaced(done, <<>>, inserts, r, stored).rows, 6)
  BY <1>2, <1>3, <1>4, NothingClosed, ReplacedOK
<1> QED  BY <1>1, <1>5 DEF done

-----------------------------------------------------------------------------
(* A save                                                                    *)

Direct == <<"run_actor_states", "run_daily_schedules", "run_state_items">>

LEMMA SaveListsClosed ==
  /\ Closed(Direct) /\ Closed(<<"world_event_observers">>) /\ Closed(DeleteOrder)
  /\ Closed(<<"command_records">>)
<1>1. Closed(Direct)  BY DEF Closed, Direct, ToSet, Cascades, DirectTables
<1>2. Closed(<<"world_event_observers">>)  BY DEF Closed, ToSet, Cascades, DirectTables
<1>3. Closed(DeleteOrder)
  <2>1. SUFFICES ASSUME NEW a, NEW b, b \in ToSet(DeleteOrder), Cascades(a, b)
                 PROVE  a \in ToSet(DeleteOrder)
    BY DEF Closed
  <2> QED  BY <2>1, DeleteOrderHas DEF Cascades
<1>4. Closed(<<"command_records">>)  BY DEF Closed, ToSet, Cascades, DirectTables
<1> QED  BY <1>1, <1>2, <1>3, <1>4

\* The six parts of a save.
SaveFirst(r, stored) == Replaced([rows |-> stored, ok |-> TRUE], Direct, Direct, r, stored)
SaveUnseen(r, stored) == Replaced(SaveFirst(r, stored), <<"world_event_observers">>, <<>>, r, stored)
SaveTold(r, stored) ==
    Merged(SaveUnseen(r, stored), <<"world_events", "world_event_observers">>, r, stored)
SaveWhole(r, stored) == Replaced(SaveTold(r, stored), DeleteOrder, InsertOrder, r, stored)
SaveEvents(r, stored) == Merged(SaveWhole(r, stored), <<"run_events">>, r, stored)

LEMMA SavedRowsAre ==
  ASSUME NEW r, NEW stored
  PROVE  SavedRows(r, stored)
           = Replaced(SaveEvents(r, stored), <<"command_records">>, <<"command_records">>, r, stored)
  BY DEF SavedRows, SaveFirst, SaveUnseen, SaveTold, SaveWhole, SaveEvents, Direct

LEMMA PartsOK ==
  ASSUME NEW r, NEW stored, SavedRows(r, stored).ok
  PROVE  /\ SaveEvents(r, stored).ok /\ SaveWhole(r, stored).ok /\ SaveTold(r, stored).ok
         /\ SaveUnseen(r, stored).ok /\ SaveFirst(r, stored).ok
<1>1. SaveEvents(r, stored).ok
  BY SavedRowsAre DEF Replaced
<1>2. SaveWhole(r, stored).ok  BY <1>1 DEF SaveEvents, Merged
<1>3. SaveTold(r, stored).ok  BY <1>2 DEF SaveWhole, Replaced
<1>4. SaveUnseen(r, stored).ok  BY <1>3 DEF SaveTold, Merged
<1>5. SaveFirst(r, stored).ok  BY <1>4 DEF SaveUnseen, Replaced
<1> QED  BY <1>1, <1>2, <1>3, <1>4, <1>5

LEMMA SavedRowsOK ==
  ASSUME NEW r, NEW stored, RowsOK(stored, 6), SavedRows(r, stored).ok
  PROVE  RowsOK(SavedRows(r, stored).rows, 6)
<1> DEFINE first == SaveFirst(r, stored)
           unseen == SaveUnseen(r, stored)
           heard == SaveTold(r, stored)
           whole == SaveWhole(r, stored)
           events == SaveEvents(r, stored)
           start == [rows |-> stored, ok |-> TRUE]
<1>1. /\ first = Replaced(start, Direct, Direct, r, stored)
      /\ unseen = Replaced(first, <<"world_event_observers">>, <<>>, r, stored)
      /\ heard = Merged(unseen, <<"world_events", "world_event_observers">>, r, stored)
      /\ whole = Replaced(heard, DeleteOrder, InsertOrder, r, stored)
      /\ events = Merged(whole, <<"run_events">>, r, stored)
      /\ SavedRows(r, stored)
           = Replaced(events, <<"command_records">>, <<"command_records">>, r, stored)
  BY SavedRowsAre DEF SaveFirst, SaveUnseen, SaveTold, SaveWhole, SaveEvents
<1>2. events.ok /\ whole.ok /\ heard.ok /\ unseen.ok /\ first.ok  BY PartsOK
<1>3. RowsOK(start.rows, 6)  OBVIOUS
<1>4. /\ ToSet(Direct) \subseteq AllTables /\ ToSet(<<>>) \subseteq AllTables
      /\ ToSet(<<"world_events", "world_event_observers">>) \subseteq AllTables
      /\ ToSet(<<"run_events">>) \subseteq AllTables /\ ToSet(<<"command_records">>) \subseteq AllTables
  BY DEF ToSet, Direct, AllTables, FirstTables, SecondTables
<1>5. ToSet(InsertOrder) \subseteq AllTables  BY InsertedTables
<1> HIDE DEF first, unseen, heard, whole, events, start
<1>6. RowsOK(first.rows, 6)  BY <1>1, <1>2, <1>3, <1>4, SaveListsClosed, TablesAtSix, ReplacedOK
<1>7. RowsOK(unseen.rows, 6)  BY <1>1, <1>2, <1>4, <1>6, SaveListsClosed, TablesAtSix, ReplacedOK
<1>8. RowsOK(heard.rows, 6)  BY <1>1, <1>2, <1>4, <1>7, TablesAtSix, MergedOK
<1>9. RowsOK(whole.rows, 6)  BY <1>1, <1>2, <1>5, <1>8, SaveListsClosed, TablesAtSix, ReplacedOK
<1>10. RowsOK(events.rows, 6)  BY <1>1, <1>2, <1>4, <1>9, TablesAtSix, MergedOK
<1> QED  BY <1>1, <1>4, <1>10, SaveListsClosed, TablesAtSix, ReplacedOK

-----------------------------------------------------------------------------
(* The run of an earlier release                                             *)

FirstRun(status) == [FreshRun EXCEPT !.goals[1].status = status]

LEMMA FirstRunHas ==
  ASSUME NEW status
  PROVE  LET r == FirstRun(status) IN
         /\ r.present = TRUE /\ r.messages = {} /\ r.memories = {} /\ r.invited = {}
         /\ r.event = FALSE /\ r.ended = FALSE /\ r.commands = {} /\ Opened(r) = {} /\ Segments(r) = {}
         /\ DOMAIN r.goals = {1} /\ r.goals[1].goal = 0 /\ r.goals[1].parents = {}
         /\ r.goals[1].status = status
<1> DEFINE r == FirstRun(status)
           g == <<[goal |-> 0, parents |-> {}, status |-> "active"]>>
           h == [g EXCEPT ![1].status = status]
<1>1. r = [FreshRun EXCEPT !.goals = h]  BY DEF FirstRun, FreshRun
<1>2. /\ DOMAIN h = {1} /\ h[1].goal = 0 /\ h[1].parents = {} /\ h[1].status = status
  OBVIOUS
<1> HIDE DEF h
<1>3. /\ r.present = TRUE /\ r.messages = {} /\ r.memories = {} /\ r.invited = {}
      /\ r.event = FALSE /\ r.ended = FALSE /\ r.commands = {} /\ r.goals = h
      /\ r.segments = [c \in Talks |-> 0]
  BY <1>1 DEF FreshRun
<1> HIDE DEF r
<1>4. Opened(r) = {}  BY <1>3 DEF Opened
<1>5. Segments(r) = {}
  <2>1. ASSUME NEW s \in Segments(r) PROVE FALSE
    <3>1. s[1] \in Talks /\ s[2] \in {1, 2} /\ s[2] <= r.segments[s[1]]  BY DEF Segments
    <3> QED  BY <1>3, <3>1
  <2> QED  BY <2>1
<1> QED  BY <1>2, <1>3, <1>4, <1>5 DEF r

LEMMA FirstRowsOf ==
  ASSUME NEW status, NEW table, NEW stored, NEW t \in RowsOf(table, FirstRun(status), stored)
  PROVE  /\ t.refs \subseteq {Chapter, Npc, Board, Definition} /\ table # "memories"
         /\ table \notin {"conversations", "command_records"}
         /\ IF table = "goals" THEN t.status = status ELSE t.status = "none"
<1> DEFINE r == FirstRun(status)
<1>1. /\ r.messages = {} /\ r.memories = {} /\ r.invited = {} /\ r.event = FALSE
      /\ r.commands = {} /\ Opened(r) = {} /\ Segments(r) = {}
      /\ DOMAIN r.goals = {1} /\ r.goals[1].goal = 0 /\ r.goals[1].parents = {}
      /\ r.goals[1].status = status
  BY FirstRunHas
<1> HIDE DEF r
<1>2. ASSUME NEW e \in EntriesOf(table, r)
      PROVE  /\ e[2] \subseteq {Chapter, Npc, Board}
             /\ table \notin {"memories", "conversations", "command_records"}
  <2>1. CASE e \in StateEntries(table, r)  BY <1>1, <2>1 DEF StateEntries
  <2>2. CASE e \in HistoryEntries(table, r)  BY <1>1, <2>2 DEF HistoryEntries
  <2>3. CASE e \in TalkEntries(table, r)  BY <1>1, <2>3 DEF TalkEntries
  <2>4. CASE e \in MemoryEntries(table, r)  BY <1>1, <2>4 DEF MemoryEntries
  <2>5. CASE e \in LinkEntries(table, r)  BY <1>1, <2>5 DEF LinkEntries
  <2>6. CASE e \in RequestEntries(table, r)  BY <1>1, <2>6 DEF RequestEntries
  <2>7. CASE e \in ChapterEntries(table, r)  BY <1>1, <2>7 DEF ChapterEntries
  <2> QED  BY <2>1, <2>2, <2>3, <2>4, <2>5, <2>6, <2>7 DEF EntriesOf
<1>3. CASE table = "goals"
  <2>1. PICK i \in DOMAIN r.goals : t = GoalRows(r)[i]
    BY <1>3 DEF RowsOf, ToSet, GoalRows, r
  <2>2. i = 1  BY <1>1, <2>1
  <2>3. t = [Row("goals", r.goals[1].goal,
                 {Chapter, Npc} \cup {<<"goals", p>> : p \in r.goals[1].parents}
                   \cup (IF r.goals[1].goal = 0 THEN {Definition} ELSE {}))
               EXCEPT !.status = r.goals[1].status]
    BY <1>1, <2>1, <2>2 DEF GoalRows
  <2> QED  BY <1>1, <1>3, <2>3 DEF Row
<1>4. CASE table # "goals"
  <2>1. PICK e \in EntriesOf(table, r) : table = "memories" \/ t = Row(table, e[1], e[2])
    BY <1>4 DEF RowsOf, r
  <2>2. table \notin {"memories", "conversations", "command_records"} /\ e[2] \subseteq {Chapter, Npc, Board}
    BY <1>2
  <2> QED  BY <1>4, <2>1, <2>2 DEF Row
<1> QED  BY <1>3, <1>4

LEMMA FirstRowsOK ==
  ASSUME NEW status \in {"active", "completed", "departed"}
  PROVE  LET rs == AddedRows(FirstRun(status), ScenarioRows).rows IN
         /\ RowsOK(rs, 5) /\ ScenarioRows \subseteq rs /\ Chapter \in Names(rs)
         /\ \A t \in rs : TableOf(t) \notin {"memories", "conversations", "command_records"}
<1> DEFINE r == FirstRun(status)
           done == [rows |-> ScenarioRows, ok |-> TRUE]
<1>1. PICK inserts \in Seq(AllTables) :
           /\ ToSet(inserts) = AddedTables \cup ToSet(InsertOrder)
           /\ AddedRows(r, ScenarioRows) = Replaced(done, <<>>, inserts, r, ScenarioRows)
  BY AddedRowsAre
<1> DEFINE new == NewRows(inserts, r, ScenarioRows)
           rs == AddedRows(r, ScenarioRows).rows
<1>2. rs = ScenarioRows \cup new
  <2>1. rs = {t \in done.rows : TableOf(t) \notin ToSet(<<>>)} \cup new
    BY <1>1, DeletedTables, NothingClosed DEF Replaced
  <2>2. ToSet(<<>>) = {}  BY DEF ToSet
  <2> QED  BY <2>1, <2>2
<1>3. ASSUME NEW t \in new
      PROVE  /\ RowOK(t) /\ TableOf(t) \in AllTables /\ Lawful(t, 5)
             /\ TableOf(t) \notin {"memories", "conversations", "command_records"}
             /\ t.refs \subseteq {Chapter, Npc, Board, Definition}
  <2>1. RowOK(t) /\ TableOf(t) \in AllTables /\ t \in RowsOf(TableOf(t), r, ScenarioRows)
    BY <1>1, NewRowsOK, InsertedTables
  <2>2. /\ t.refs \subseteq {Chapter, Npc, Board, Definition} /\ TableOf(t) # "memories"
        /\ TableOf(t) \notin {"conversations", "command_records"}
        /\ IF TableOf(t) = "goals" THEN t.status = status ELSE t.status = "none"
    BY <2>1, FirstRowsOf
  <2>3. Lawful(t, 5)  BY <2>2 DEF Lawful, GoalStatuses
  <2> QED  BY <2>1, <2>2, <2>3
<1>4. Chapter \in Names(new)
  <2>1. Row("chapter_runs", "run", {Board}) \in RowsOf("chapter_runs", r, ScenarioRows)
    <3> DEFINE e == <<"run", {Board}>>
    <3>1. e \in StateEntries("chapter_runs", r)  BY DEF StateEntries
    <3>2. e[1] = "run" /\ e[2] = {Board}  OBVIOUS
    <3> HIDE DEF e
    <3>3. Row("chapter_runs", e[1], e[2]) \in RowsOf("chapter_runs", r, ScenarioRows)
      BY <3>1 DEF RowsOf, EntriesOf
    <3> QED  BY <3>2, <3>3, Zenon
  <2>2. "chapter_runs" \in ToSet(inserts)  BY <1>1 DEF AddedTables
  <2>3. Row("chapter_runs", "run", {Board}) \in new  BY <2>1, <2>2 DEF NewRows
  <2> QED  BY <2>3 DEF Names, Row, Chapter
<1>5. {Npc, Board, Definition} \subseteq Names(ScenarioRows)
  BY DEF Names, ScenarioRows, Row, Npc, Board, Definition
<1>6. Names(ScenarioRows \cup new) = Names(ScenarioRows) \cup Names(new)  BY NamesOfUnion
<1>7. \A t \in ScenarioRows : /\ RowOK(t) /\ t.refs \subseteq Names(ScenarioRows)
                              /\ TableOf(t) \in ScenarioTables /\ t.status = "none"
  BY ScenarioRowsOK DEF OfScenario
<1>8. \A t \in ScenarioRows : /\ TableOf(t) \in AllTables /\ Lawful(t, 5)
                              /\ TableOf(t) \notin {"memories", "conversations", "command_records"}
  BY <1>7 DEF AllTables, FirstTables, ScenarioTables, Lawful
<1>9. TablesAt(5) = AllTables  BY TablesAtAre DEF AllTables
<1> HIDE DEF new
<1>10. RowsOK(ScenarioRows \cup new, 5)
  BY <1>3, <1>4, <1>5, <1>6, <1>7, <1>8, <1>9 DEF RowsOK
<1>11. Chapter \in Names(ScenarioRows \cup new)  BY <1>4, <1>6
<1> QED  BY <1>2, <1>3, <1>8, <1>10, <1>11

-----------------------------------------------------------------------------
(* What becomes of the rows when the run is deleted or the schema changes    *)

LEMMA RunLeavesRows ==
  ASSUME NEW rs, NEW n, RowsOK(rs, n), Chapter \notin Names(rs)
  PROVE  rs \subseteq ScenarioRows
<1>1. ASSUME NEW t \in rs, TableOf(t) \in DirectTables PROVE FALSE
  <2>1. Chapter \in t.refs
    BY <1>1 DEF RowsOK, RowOK, OfScenario, OfRun, Rooted, DirectTables, PartTables, ScenarioTables
  <2> QED  BY <1>1, <2>1 DEF RowsOK
<1>2. ASSUME NEW t \in rs, TableOf(t) \in PartTables PROVE FALSE
  <2>1. PICK x \in t.refs : x[1] \in DirectTables
    BY <1>2 DEF RowsOK, RowOK, OfScenario, OfRun, Rooted, DirectTables, PartTables, ScenarioTables
  <2>2. PICK p \in rs : p.name = x  BY <1>2, <2>1 DEF RowsOK, Names
  <2> QED  BY <1>1, <2>1, <2>2 DEF TableOf
<1>3. ASSUME NEW t \in rs, TableOf(t) = "segment_participants" PROVE FALSE
  <2>1. PICK x \in t.refs : x[1] = "conversation_segments"
    BY <1>3 DEF RowsOK, RowOK, OfScenario, OfRun, Rooted, DirectTables, PartTables, ScenarioTables
  <2>2. PICK p \in rs : p.name = x  BY <1>3, <2>1 DEF RowsOK, Names
  <2> QED  BY <1>2, <2>1, <2>2 DEF TableOf, PartTables
<1>4. \A t \in rs : t.name # Chapter  BY DEF Names
<1> QED  BY <1>1, <1>2, <1>3, <1>4 DEF RowsOK, RowOK, OfScenario, OfRun, Rooted

\* A deletion under way: what is gone are rows of the run, and with every row but those of the
\* last level the rows that cascade from it.
Underway(rs, a) ==
    /\ a.gone \subseteq {t \in rs : TableOf(t) \notin ScenarioTables} /\ a.level \subseteq a.gone
    /\ \A p \in a.gone \ a.level, t \in rs : Refers(t, p, "CASCADE") => t \in a.gone

LEMMA LevelGoes ==
  ASSUME NEW rs, NEW n, RowsOK(rs, n), NEW a, Underway(rs, a)
  PROVE  LET b == NextLevel(rs, a) IN
         /\ Underway(rs, b) /\ a.gone \subseteq b.gone
         /\ \A p \in a.gone, t \in rs : Refers(t, p, "CASCADE") => t \in b.gone
<1> DEFINE b == NextLevel(rs, a)
           next == {t \in rs \ a.gone : \E p \in a.level : Refers(t, p, "CASCADE")}
<1>1. b.gone = a.gone \cup next /\ b.level = next  BY NextLevelOf
<1>2. ASSUME NEW t \in next PROVE TableOf(t) \notin ScenarioTables
  <2>1. PICK p \in a.level : Refers(t, p, "CASCADE")  BY <1>2
  <2>2. Cascades(TableOf(t), TableOf(p))  BY <2>1, ReferencesAre DEF Refers
  <2>3. TableOf(p) \notin ScenarioTables  BY <2>1 DEF Underway
  <2> QED  BY <2>2, <2>3 DEF Cascades, ScenarioTables, DirectTables
<1>3. \A p \in a.gone, t \in rs : Refers(t, p, "CASCADE") => t \in a.gone \cup next
  BY DEF Underway
<1>4. next \subseteq rs  OBVIOUS
<1> HIDE DEF b, next
<1>5. Underway(rs, b)
  <2>1. b.gone \subseteq {t \in rs : TableOf(t) \notin ScenarioTables} /\ b.level \subseteq b.gone
    BY <1>1, <1>2, <1>4 DEF Underway
  <2>2. \A p \in b.gone \ b.level, t \in rs : Refers(t, p, "CASCADE") => t \in b.gone
    BY <1>1, <1>3
  <2> QED  BY <2>1, <2>2 DEF Underway
<1> QED  BY <1>1, <1>3, <1>5 DEF b

\* What is left of the run when its rows of the DirectTables are gone restricts nothing.
LEMMA NothingRestricts ==
  ASSUME NEW rs, NEW a, Underway(rs, a), a.ok = TRUE,
         \/ \A p \in a.level : TableOf(p) = "chapter_runs"
         \/ \A t \in rs : TableOf(t) \in DirectTables => t \in a.gone
  PROVE  NextLevel(rs, a).ok = TRUE
<1>1. ASSUME NEW t \in rs \ a.gone, NEW p \in a.level, Refers(t, p, "RESTRICT") PROVE FALSE
  <2>1. Restricts(TableOf(t), TableOf(p))  BY <1>1, ReferencesAre DEF Refers
  <2>2. TableOf(p) \notin ScenarioTables  BY <1>1 DEF Underway
  <2>3. TableOf(t) \in DirectTables /\ TableOf(p) # "chapter_runs"
    BY <2>1, <2>2 DEF Restricts, ScenarioTables, DirectTables
  <2> QED  BY <1>1, <2>3
<1> QED  BY <1>1 DEF NextLevel

LEMMA DeletedRun ==
  ASSUME NEW rs, NEW n, RowsOK(rs, n)
  PROVE  LET done == DeletedRows([rows |-> rs, ok |-> TRUE], {t \in rs : t.name = Chapter}) IN
         done.rows = {t \in rs : TableOf(t) \in ScenarioTables} /\ done.ok = TRUE
<1> DEFINE dead == {t \in rs : t.name = Chapter}
           a0 == [gone |-> dead, level |-> dead, ok |-> TRUE]
           a1 == NextLevel(rs, a0)
           a2 == NextLevel(rs, a1)
           a3 == NextLevel(rs, a2)
           a4 == NextLevel(rs, a3)
           a5 == NextLevel(rs, a4)
           done == DeletedRows([rows |-> rs, ok |-> TRUE], dead)
<1>1. done.rows = rs \ a5.gone /\ (a5.ok = TRUE => done.ok = TRUE)  BY DEF DeletedRows
<1>2. a0.gone = dead /\ a0.level = dead /\ a0.ok = TRUE  OBVIOUS
<1> HIDE DEF a0, done
<1>3. \A t \in dead : TableOf(t) = "chapter_runs"  BY DEF TableOf, Chapter
<1>4. Underway(rs, a0)  BY <1>2, <1>3 DEF Underway, ScenarioTables
<1>5. /\ Underway(rs, a1) /\ a0.gone \subseteq a1.gone
      /\ \A p \in a0.gone, t \in rs : Refers(t, p, "CASCADE") => t \in a1.gone
  BY <1>4, LevelGoes
<1>6. a1.ok = TRUE  BY <1>2, <1>3, <1>4, NothingRestricts
<1> HIDE DEF a1
<1>7. ASSUME NEW t \in rs, NEW x \in t.refs PROVE \E p \in rs : p.name = x
  BY <1>7 DEF RowsOK, Names
<1>8. ASSUME NEW t \in rs, TableOf(t) \in DirectTables PROVE t \in a1.gone
  <2>1. Chapter \in t.refs
    BY <1>8 DEF RowsOK, RowOK, OfScenario, OfRun, Rooted, DirectTables, PartTables, ScenarioTables
  <2>2. PICK p \in rs : p.name = Chapter  BY <1>7, <2>1
  <2>3. Cascades(TableOf(t), TableOf(p))  BY <1>8, <2>2 DEF Cascades, TableOf, Chapter
  <2>4. Refers(t, p, "CASCADE")  BY <2>1, <2>2, <2>3, ReferencesAre DEF Refers
  <2> QED  BY <1>2, <1>5, <2>2, <2>4
<1>9. /\ Underway(rs, a2) /\ a1.gone \subseteq a2.gone
      /\ \A p \in a1.gone, t \in rs : Refers(t, p, "CASCADE") => t \in a2.gone
  BY <1>5, LevelGoes
<1>10. a2.ok = TRUE  BY <1>5, <1>6, <1>8, NothingRestricts
<1> HIDE DEF a2
<1>11. ASSUME NEW t \in rs, TableOf(t) \in PartTables PROVE t \in a2.gone
  <2>1. PICK x \in t.refs : x[1] \in DirectTables /\ Cascades(TableOf(t), x[1])
    BY <1>11 DEF RowsOK, RowOK, OfScenario, OfRun, Rooted, DirectTables, PartTables, ScenarioTables
  <2>2. PICK p \in rs : p.name = x  BY <1>7, <2>1
  <2>3. Refers(t, p, "CASCADE") /\ TableOf(p) \in DirectTables
    BY <2>1, <2>2, ReferencesAre DEF Refers, TableOf
  <2> QED  BY <1>8, <1>9, <2>2, <2>3
<1>12. /\ Underway(rs, a3) /\ a2.gone \subseteq a3.gone
       /\ \A p \in a2.gone, t \in rs : Refers(t, p, "CASCADE") => t \in a3.gone
  BY <1>9, LevelGoes
<1>13. a3.ok = TRUE  BY <1>8, <1>9, <1>10, NothingRestricts
<1> HIDE DEF a3
<1>14. ASSUME NEW t \in rs, TableOf(t) = "segment_participants" PROVE t \in a3.gone
  <2>1. PICK x \in t.refs : x[1] = "conversation_segments"
    BY <1>14 DEF RowsOK, RowOK, OfScenario, OfRun, Rooted, DirectTables, PartTables, ScenarioTables
  <2>2. PICK p \in rs : p.name = x  BY <1>7, <2>1
  <2>3. TableOf(p) = "conversation_segments" /\ TableOf(p) \in PartTables
    BY <2>1, <2>2 DEF TableOf, PartTables
  <2>4. Cascades(TableOf(t), TableOf(p))  BY <1>14, <2>3 DEF Cascades
  <2>5. Refers(t, p, "CASCADE")  BY <2>1, <2>2, <2>4, ReferencesAre DEF Refers
  <2> QED  BY <1>11, <1>12, <2>2, <2>3, <2>5
<1>15. Underway(rs, a4) /\ a3.gone \subseteq a4.gone  BY <1>12, LevelGoes
<1>16. a4.ok = TRUE  BY <1>8, <1>9, <1>12, <1>13, NothingRestricts
<1> HIDE DEF a4
<1>17. Underway(rs, a5) /\ a4.gone \subseteq a5.gone  BY <1>15, LevelGoes
<1>18. a5.ok = TRUE  BY <1>8, <1>9, <1>12, <1>15, <1>16, NothingRestricts
<1> HIDE DEF a5
<1>19. ASSUME NEW t \in rs, TableOf(t) \notin ScenarioTables PROVE t \in a5.gone
  <2>1. \/ t.name = Chapter \/ TableOf(t) \in DirectTables \/ TableOf(t) \in PartTables
        \/ TableOf(t) = "segment_participants"
    BY <1>19 DEF RowsOK, RowOK, OfScenario, OfRun, Rooted
  <2>2. t.name = Chapter => t \in a1.gone  BY <1>2, <1>5
  <2> QED  BY <1>8, <1>9, <1>11, <1>12, <1>14, <1>15, <1>17, <2>1, <2>2
<1>20. \A t \in a5.gone : TableOf(t) \notin ScenarioTables  BY <1>17 DEF Underway
<1>21. done.rows = {t \in rs : TableOf(t) \in ScenarioTables}  BY <1>1, <1>19, <1>20
<1> QED  BY <1>1, <1>18, <1>21 DEF done

\* The rows of the scenario refer to each other only.
LEMMA ScenarioWhole ==
  ASSUME NEW rs, NEW n, RowsOK(rs, n)
  PROVE  LET kept == {t \in rs : TableOf(t) \in ScenarioTables} IN
         RowsOK(kept, n) /\ kept \subseteq ScenarioRows
<1> DEFINE kept == {t \in rs : TableOf(t) \in ScenarioTables}
<1>1. ASSUME NEW t \in kept, NEW x \in t.refs PROVE x \in Names(kept)
  <2>1. PICK p \in rs : p.name = x  BY <1>1 DEF RowsOK, Names
  <2>2. Cascades(TableOf(t), TableOf(p)) \/ Restricts(TableOf(t), TableOf(p))
    BY <1>1, <2>1 DEF RowsOK, RowOK, Typed, TableOf
  <2>3. TableOf(p) \in ScenarioTables
    BY <1>1, <2>2 DEF Cascades, Restricts, ScenarioTables, DirectTables
  <2> QED  BY <2>1, <2>3 DEF Names
<1>2. kept \subseteq ScenarioRows
  BY DEF RowsOK, RowOK, OfScenario, OfRun, Rooted, DirectTables, PartTables, ScenarioTables
<1> QED  BY <1>1, <1>2 DEF RowsOK

\* A migration that gives the rows of one table a new status.
Restated(t, u) == t.name = u.name /\ t.refs = u.refs

LEMMA RestatedOK ==
  ASSUME NEW rs, NEW n, RowsOK(rs, n), NEW after, NEW m, AllTables = TablesAt(m) \/ TablesAt(n) = TablesAt(m),
         TablesAt(n) \subseteq AllTables,
         \A t \in after : /\ t = [name |-> t.name, refs |-> t.refs, status |-> t.status]
                          /\ \E u \in rs : Restated(t, u) /\ (TableOf(u) \in {"goals", "memories"} \/ t = u),
         \A u \in rs : \E t \in after : Restated(t, u),
         \A t \in after : Lawful(t, m)
  PROVE  RowsOK(after, m) /\ Names(after) = Names(rs)
<1>1. Names(after) = Names(rs)  BY DEF Names, Restated
<1>2. ASSUME NEW t \in after PROVE RowOK(t) /\ TableOf(t) \in TablesAt(m) /\ t.refs \subseteq Names(after)
  <2>1. PICK u \in rs : Restated(t, u) /\ (TableOf(u) \in {"goals", "memories"} \/ t = u)
    OBVIOUS
  <2>2. RowOK(u) /\ TableOf(u) \in TablesAt(n) /\ u.refs \subseteq Names(rs)  BY DEF RowsOK
  <2>3. TableOf(t) = TableOf(u)  BY <2>1 DEF TableOf, Restated
  <2>4. TableOf(t) \in TablesAt(m) /\ t.refs \subseteq Names(after)
    BY <1>1, <2>1, <2>2, <2>3 DEF Restated
  <2>5. CASE t = u  BY <2>2, <2>4, <2>5
  <2>6. CASE TableOf(u) \in {"goals", "memories"}
    <3>1. Typed(TableOf(t), t.refs) /\ (OfScenario(u) \/ OfRun(u)) /\ t.name = <<t.name[1], t.name[2]>>
      BY <2>1, <2>2, <2>3 DEF RowOK, Restated
    <3>2. OfRun(u)  BY <2>6, <3>1 DEF OfScenario, ScenarioTables
    <3>3. OfRun(t)  BY <2>1, <2>3, <3>2 DEF OfRun, Restated
    <3> QED  BY <2>3, <2>4, <2>6, <3>1, <3>3 DEF RowOK
  <2> QED  BY <2>1, <2>5, <2>6
<1> QED  BY <1>1, <1>2 DEF RowsOK

\* What a restatement of goals or of memories does to every row.
LEMMA RenamedRows ==
  ASSUME NEW rs, NEW n, RowsOK(rs, n), NEW names
  PROVE  LET after == Renamed(rs, names) IN
         /\ \A t \in after :
              /\ t = [name |-> t.name, refs |-> t.refs, status |-> t.status]
              /\ \E u \in rs : /\ Restated(t, u) /\ (TableOf(u) = "goals" \/ t = u)
                               /\ t.status = IF TableOf(u) = "goals" /\ u.status \in DOMAIN names
                                             THEN names[u.status] ELSE u.status
         /\ \A u \in rs : \E t \in after : Restated(t, u) /\ (TableOf(u) = "goals" \/ t = u)
<1> DEFINE f(u) == IF TableOf(u) = "goals" /\ u.status \in DOMAIN names
                   THEN [u EXCEPT !.status = names[u.status]] ELSE u
<1>1. Renamed(rs, names) = {f(u) : u \in rs}  BY DEF Renamed
<1>2. ASSUME NEW u \in rs
      PROVE  /\ f(u) = [name |-> f(u).name, refs |-> f(u).refs, status |-> f(u).status]
             /\ Restated(f(u), u) /\ (TableOf(u) = "goals" \/ f(u) = u)
             /\ f(u).status = IF TableOf(u) = "goals" /\ u.status \in DOMAIN names
                              THEN names[u.status] ELSE u.status
  <2>1. u = [name |-> u.name, refs |-> u.refs, status |-> u.status]  BY DEF RowsOK, RowOK
  <2>2. CASE TableOf(u) = "goals" /\ u.status \in DOMAIN names
    <3>1. f(u) = [name |-> u.name, refs |-> u.refs, status |-> names[u.status]]  BY <2>1, <2>2
    <3> HIDE DEF f
    <3> QED  BY <2>2, <3>1 DEF Restated
  <2>3. CASE ~(TableOf(u) = "goals" /\ u.status \in DOMAIN names)
    <3>1. f(u) = u  BY <2>3
    <3> HIDE DEF f
    <3> QED  BY <2>1, <2>3, <3>1 DEF Restated
  <2> QED  BY <2>2, <2>3
<1> HIDE DEF f
<1> QED  BY <1>1, <1>2

LEMMA WithoutVectorsRows ==
  ASSUME NEW rs, NEW n, RowsOK(rs, n)
  PROVE  LET after == WithoutVectors(rs) IN
         /\ \A t \in after :
              /\ t = [name |-> t.name, refs |-> t.refs, status |-> t.status]
              /\ \E u \in rs : /\ Restated(t, u) /\ (TableOf(u) = "memories" \/ t = u)
                               /\ TableOf(u) = "memories" => t.status = "none"
         /\ \A u \in rs : \E t \in after : Restated(t, u) /\ (TableOf(u) = "memories" \/ t = u)
<1> DEFINE f(u) == IF TableOf(u) = "memories" THEN [u EXCEPT !.status = "none"] ELSE u
<1>1. WithoutVectors(rs) = {f(u) : u \in rs}  BY DEF WithoutVectors
<1>2. ASSUME NEW u \in rs
      PROVE  /\ f(u) = [name |-> f(u).name, refs |-> f(u).refs, status |-> f(u).status]
             /\ Restated(f(u), u) /\ (TableOf(u) = "memories" \/ f(u) = u)
             /\ TableOf(u) = "memories" => f(u).status = "none"
  <2>1. u = [name |-> u.name, refs |-> u.refs, status |-> u.status]  BY DEF RowsOK, RowOK
  <2>2. CASE TableOf(u) = "memories"
    <3>1. f(u) = [name |-> u.name, refs |-> u.refs, status |-> "none"]  BY <2>1, <2>2
    <3> HIDE DEF f
    <3> QED  BY <2>2, <3>1 DEF Restated
  <2>3. CASE TableOf(u) # "memories"
    <3>1. f(u) = u  BY <2>3
    <3> HIDE DEF f
    <3> QED  BY <2>1, <2>3, <3>1 DEF Restated
  <2> QED  BY <2>2, <2>3
<1> HIDE DEF f
<1> QED  BY <1>1, <1>2

LEMMA IndexedRows ==
  ASSUME NEW rs, NEW n, RowsOK(rs, n), NEW memories
  PROVE  LET after == Indexed(rs, memories) IN
         /\ \A t \in after :
              /\ t = [name |-> t.name, refs |-> t.refs, status |-> t.status]
              /\ \E u \in rs : /\ Restated(t, u) /\ (TableOf(u) = "memories" \/ t = u)
                               /\ t.status = IF /\ TableOf(u) = "memories" /\ u.name[2] \in memories
                                                /\ u.status = "none"
                                             THEN Vector(6) ELSE u.status
         /\ \A u \in rs : \E t \in after : /\ Restated(t, u) /\ (TableOf(u) = "memories" \/ t = u)
                                           /\ u.status # "none" => t = u
<1> DEFINE f(u) == IF TableOf(u) = "memories" /\ u.name[2] \in memories /\ u.status = "none"
                   THEN [u EXCEPT !.status = Vector(6)] ELSE u
<1>1. Indexed(rs, memories) = {f(u) : u \in rs}  BY DEF Indexed
<1>2. ASSUME NEW u \in rs
      PROVE  /\ f(u) = [name |-> f(u).name, refs |-> f(u).refs, status |-> f(u).status]
             /\ Restated(f(u), u) /\ (TableOf(u) = "memories" \/ f(u) = u)
             /\ f(u).status = IF TableOf(u) = "memories" /\ u.name[2] \in memories /\ u.status = "none"
                              THEN Vector(6) ELSE u.status
             /\ u.status # "none" => f(u) = u
  <2>1. u = [name |-> u.name, refs |-> u.refs, status |-> u.status]  BY DEF RowsOK, RowOK
  <2>2. CASE TableOf(u) = "memories" /\ u.name[2] \in memories /\ u.status = "none"
    <3>1. f(u) = [name |-> u.name, refs |-> u.refs, status |-> Vector(6)]  BY <2>1, <2>2
    <3> HIDE DEF f
    <3> QED  BY <2>2, <3>1 DEF Restated
  <2>3. CASE ~(TableOf(u) = "memories" /\ u.name[2] \in memories /\ u.status = "none")
    <3>1. f(u) = u  BY <2>3
    <3> HIDE DEF f
    <3> QED  BY <2>1, <2>3, <3>1 DEF Restated
  <2> QED  BY <2>2, <2>3
<1> HIDE DEF f
<1> QED  BY <1>1, <1>2

-----------------------------------------------------------------------------
(* The migrations                                                            *)

\* What a migration keeps: the names but those of command records, the rows of the scenario,
\* and of no memory more vectors than one.
OneVector(rs) == \A t, u \in rs : TableOf(t) = "memories" /\ t.name = u.name => t.status = u.status

Migrates(rs, after) ==
    /\ Names(after) \subseteq Names(rs)
    /\ \A x \in Names(rs) : x[1] # "command_records" => x \in Names(after)
    /\ rs \cap ScenarioRows \subseteq after
    /\ OneVector(rs) => OneVector(after)

LEMMA ScenarioElsewhere == \A t \in ScenarioRows : TableOf(t) \notin {"goals", "memories", "command_records"}
  BY ScenarioRowsOK DEF OfScenario, ScenarioTables

LEMMA RenamedMigrates ==
  ASSUME NEW rs, NEW n, RowsOK(rs, n), NEW names, NEW m, TablesAt(n) = TablesAt(m),
         TablesAt(n) \subseteq AllTables, \A t \in Renamed(rs, names) : Lawful(t, m)
  PROVE  RowsOK(Renamed(rs, names), m) /\ Migrates(rs, Renamed(rs, names))
<1> DEFINE after == Renamed(rs, names)
<1>1. /\ \A t \in after :
              /\ t = [name |-> t.name, refs |-> t.refs, status |-> t.status]
              /\ \E u \in rs : Restated(t, u) /\ (TableOf(u) = "goals" \/ t = u)
      /\ \A u \in rs : \E t \in after : Restated(t, u) /\ (TableOf(u) = "goals" \/ t = u)
  BY RenamedRows
<1>2. \A t \in after : Lawful(t, m)  OBVIOUS
<1> HIDE DEF after
<1>3. RowsOK(after, m) /\ Names(after) = Names(rs)
  <2>1. \A t \in after : /\ t = [name |-> t.name, refs |-> t.refs, status |-> t.status]
                         /\ \E u \in rs : Restated(t, u) /\ (TableOf(u) \in {"goals", "memories"} \/ t = u)
    BY <1>1
  <2>2. \A u \in rs : \E t \in after : Restated(t, u)  BY <1>1
  <2> QED  BY <1>2, <2>1, <2>2, RestatedOK
<1>4. rs \cap ScenarioRows \subseteq after  BY <1>1, ScenarioElsewhere
<1>5. OneVector(rs) => OneVector(after)
  <2>1. \A t \in after : TableOf(t) = "memories" => t \in rs  BY <1>1 DEF Restated, TableOf
  <2>2. \A t, u \in after : t.name = u.name => TableOf(t) = TableOf(u)  BY DEF TableOf
  <2> QED  BY <2>1, <2>2 DEF OneVector
<1> QED  BY <1>3, <1>4, <1>5 DEF Migrates, after

LEMMA WithoutVectorsMigrates ==
  ASSUME NEW rs, NEW n, RowsOK(rs, n), NEW m, TablesAt(n) = TablesAt(m),
         TablesAt(n) \subseteq AllTables, \A t \in WithoutVectors(rs) : Lawful(t, m)
  PROVE  RowsOK(WithoutVectors(rs), m) /\ Migrates(rs, WithoutVectors(rs))
<1> DEFINE after == WithoutVectors(rs)
<1>1. /\ \A t \in after :
              /\ t = [name |-> t.name, refs |-> t.refs, status |-> t.status]
              /\ \E u \in rs : /\ Restated(t, u) /\ (TableOf(u) = "memories" \/ t = u)
                               /\ TableOf(u) = "memories" => t.status = "none"
      /\ \A u \in rs : \E t \in after : Restated(t, u) /\ (TableOf(u) = "memories" \/ t = u)
  BY WithoutVectorsRows
<1>2. \A t \in after : Lawful(t, m)  OBVIOUS
<1> HIDE DEF after
<1>3. RowsOK(after, m) /\ Names(after) = Names(rs)
  <2>1. \A t \in after : /\ t = [name |-> t.name, refs |-> t.refs, status |-> t.status]
                         /\ \E u \in rs : Restated(t, u) /\ (TableOf(u) \in {"goals", "memories"} \/ t = u)
    BY <1>1
  <2>2. \A u \in rs : \E t \in after : Restated(t, u)  BY <1>1
  <2> QED  BY <1>2, <2>1, <2>2, RestatedOK
<1>4. rs \cap ScenarioRows \subseteq after  BY <1>1, ScenarioElsewhere
<1>5. OneVector(after)
  <2>1. \A t \in after : TableOf(t) = "memories" => t.status = "none"  BY <1>1 DEF Restated, TableOf
  <2>2. \A t, u \in after : t.name = u.name => TableOf(t) = TableOf(u)  BY DEF TableOf
  <2> QED  BY <2>1, <2>2 DEF OneVector
<1> QED  BY <1>3, <1>4, <1>5 DEF Migrates, after

LEMMA IndexedMigrates ==
  ASSUME NEW rs, RowsOK(rs, 6), NEW memories
  PROVE  RowsOK(Indexed(rs, memories), 6) /\ Migrates(rs, Indexed(rs, memories))
         /\ Names(Indexed(rs, memories)) = Names(rs)
<1> DEFINE after == Indexed(rs, memories)
<1>1. /\ \A t \in after :
              /\ t = [name |-> t.name, refs |-> t.refs, status |-> t.status]
              /\ \E u \in rs : /\ Restated(t, u) /\ (TableOf(u) = "memories" \/ t = u)
                               /\ t.status = IF /\ TableOf(u) = "memories" /\ u.name[2] \in memories
                                                /\ u.status = "none"
                                             THEN Vector(6) ELSE u.status
      /\ \A u \in rs : \E t \in after : Restated(t, u) /\ (TableOf(u) = "memories" \/ t = u)
  BY IndexedRows
<1> HIDE DEF after
<1>2. ASSUME NEW t \in after PROVE Lawful(t, 6)
  <2>1. PICK u \in rs : /\ Restated(t, u) /\ (TableOf(u) = "memories" \/ t = u)
                        /\ t.status \in {u.status, Vector(6)}
    BY <1>1
  <2>2. Lawful(u, 6)  BY DEF RowsOK
  <2> QED  BY <2>1, <2>2 DEF Lawful, Restated, TableOf
<1>3. RowsOK(after, 6) /\ Names(after) = Names(rs)
  <2>1. \A t \in after : /\ t = [name |-> t.name, refs |-> t.refs, status |-> t.status]
                         /\ \E u \in rs : Restated(t, u) /\ (TableOf(u) \in {"goals", "memories"} \/ t = u)
    BY <1>1
  <2>2. \A u \in rs : \E t \in after : Restated(t, u)  BY <1>1
  <2>3. TablesAt(6) \subseteq AllTables  BY TablesAtSix
  <2> QED  BY <1>2, <2>1, <2>2, <2>3, RestatedOK
<1>4. rs \cap ScenarioRows \subseteq after  BY <1>1, ScenarioElsewhere
<1>5. ASSUME OneVector(rs) PROVE OneVector(after)
  <2>1. SUFFICES ASSUME NEW t \in after, NEW u \in after, TableOf(t) = "memories", t.name = u.name
                 PROVE  t.status = u.status
    BY DEF OneVector
  <2>2. PICK t0 \in rs : /\ Restated(t, t0)
                         /\ t.status = IF /\ TableOf(t0) = "memories" /\ t0.name[2] \in memories
                                          /\ t0.status = "none"
                                       THEN Vector(6) ELSE t0.status
    BY <1>1, <2>1
  <2>3. PICK u0 \in rs : /\ Restated(u, u0)
                         /\ u.status = IF /\ TableOf(u0) = "memories" /\ u0.name[2] \in memories
                                          /\ u0.status = "none"
                                       THEN Vector(6) ELSE u0.status
    BY <1>1, <2>1
  <2>4. t0.name = u0.name /\ TableOf(t0) = "memories" /\ TableOf(u0) = "memories"
    BY <2>1, <2>2, <2>3 DEF Restated, TableOf
  <2>5. t0.status = u0.status  BY <1>5, <2>4 DEF OneVector
  <2> QED  BY <2>2, <2>3, <2>4, <2>5
<1> QED  BY <1>3, <1>4, <1>5 DEF Migrates, after

LEMMA OneCommandMigrates ==
  ASSUME NEW rs, NEW n, RowsOK(rs, n), NEW m, TablesAt(n) = TablesAt(m), \A t \in OneCommand(rs) : Lawful(t, m)
  PROVE  RowsOK(OneCommand(rs), m) /\ Migrates(rs, OneCommand(rs))
<1> DEFINE after == OneCommand(rs)
<1>1. after \subseteq rs /\ \A t \in rs : TableOf(t) # "command_records" => t \in after
  BY DEF OneCommand
<1>2. \A t \in after : Lawful(t, m)  OBVIOUS
<1> HIDE DEF after
<1>3. ASSUME NEW t \in after, NEW x \in t.refs PROVE x \in Names(after)
  <2>1. PICK p \in rs : p.name = x  BY <1>1 DEF RowsOK, Names
  <2>2. Cascades(TableOf(t), TableOf(p)) \/ Restricts(TableOf(t), TableOf(p))
    BY <1>1, <2>1 DEF RowsOK, RowOK, Typed, TableOf
  <2>3. TableOf(p) # "command_records"  BY <2>2 DEF Cascades, Restricts
  <2> QED  BY <1>1, <2>1, <2>3 DEF Names
<1>4. RowsOK(after, m)  BY <1>1, <1>2, <1>3 DEF RowsOK
<1>5. Names(after) \subseteq Names(rs) /\ \A x \in Names(rs) : x[1] # "command_records" => x \in Names(after)
  BY <1>1 DEF Names, TableOf
<1>6. rs \cap ScenarioRows \subseteq after  BY <1>1, ScenarioElsewhere
<1>7. OneVector(rs) => OneVector(after)  BY <1>1 DEF OneVector
<1> QED  BY <1>4, <1>5, <1>6, <1>7 DEF Migrates, after

-----------------------------------------------------------------------------
(* No migration is refused                                                   *)

\* The place of a table in the order of their creation.
Place(x) ==
    CASE x = "actors" -> 1 [] x = "npc_profiles" -> 2 [] x = "topics" -> 3
      [] x = "goal_definitions" -> 4 [] x = "agendas" -> 5 [] x = "chapter_runs" -> 6
      [] x = "run_actor_states" -> 7 [] x = "run_daily_schedules" -> 8 [] x = "run_events" -> 9
      [] x = "command_records" -> 10 [] x = "world_events" -> 11 [] x = "world_event_observers" -> 12
      [] x = "topic_candidates" -> 13 [] x = "conversations" -> 14
      [] x = "conversation_participants" -> 15 [] x = "conversation_segments" -> 16
      [] x = "segment_participants" -> 17 [] x = "messages" -> 18
      [] x = "conversation_idle_states" -> 19 [] x = "goals" -> 20 [] x = "relationships" -> 21
      [] x = "invitations" -> 22 [] x = "join_requests" -> 23 [] x = "join_request_approvers" -> 24
      [] x = "conversation_drafts" -> 25 [] x = "consolidations" -> 26
      [] x = "chapter_resolutions" -> 27 [] x = "run_state_items" -> 28
      [] x = "run_storage_revisions" -> 29 [] x = "memories" -> 30
      [] x = "chapter_actor_stances" -> 31 [] x = "chapter_agenda_stances" -> 32
      [] x = "chapter_authorizations" -> 33 [] x = "memory_actor_links" -> 34
      [] x = "memory_edges" -> 35 [] x = "memory_evidence_messages" -> 36
      [] x = "memory_goal_links" -> 37 [] x = "memory_topic_links" -> 38
      [] OTHER -> 0

LEMMA Places ==
  /\ Place("actors") = 1 /\ Place("npc_profiles") = 2
  /\ Place("topics") = 3 /\ Place("goal_definitions") = 4
  /\ Place("agendas") = 5 /\ Place("chapter_runs") = 6
  /\ Place("run_actor_states") = 7 /\ Place("run_daily_schedules") = 8
  /\ Place("run_events") = 9 /\ Place("command_records") = 10
  /\ Place("world_events") = 11 /\ Place("world_event_observers") = 12
  /\ Place("topic_candidates") = 13 /\ Place("conversations") = 14
  /\ Place("conversation_participants") = 15 /\ Place("conversation_segments") = 16
  /\ Place("segment_participants") = 17 /\ Place("messages") = 18
  /\ Place("conversation_idle_states") = 19 /\ Place("goals") = 20
  /\ Place("relationships") = 21 /\ Place("invitations") = 22
  /\ Place("join_requests") = 23 /\ Place("join_request_approvers") = 24
  /\ Place("conversation_drafts") = 25 /\ Place("consolidations") = 26
  /\ Place("chapter_resolutions") = 27 /\ Place("run_state_items") = 28
  /\ Place("run_storage_revisions") = 29 /\ Place("memories") = 30
  /\ Place("chapter_actor_stances") = 31 /\ Place("chapter_agenda_stances") = 32
  /\ Place("chapter_authorizations") = 33 /\ Place("memory_actor_links") = 34
  /\ Place("memory_edges") = 35 /\ Place("memory_evidence_messages") = 36
  /\ Place("memory_goal_links") = 37 /\ Place("memory_topic_links") = 38
  BY DEF Place

\* The tables of list s are created in its order, after k others.
PlacedFrom(s, k) == s \in Seq(AllTables) /\ \A i \in 1..Len(s) : Place(s[i]) = k + i

LEMMA JoinedPlaces ==
  ASSUME NEW s, NEW t, NEW k \in Nat, NEW m \in Nat, PlacedFrom(s, k), PlacedFrom(t, m),
         m = k + Len(s)
  PROVE  PlacedFrom(s \o t, k) /\ Len(s \o t) = Len(s) + Len(t)
<1> DEFINE u == s \o t
<1>1. /\ u \in Seq(AllTables) /\ Len(u) = Len(s) + Len(t)
      /\ \A i \in 1..Len(s) + Len(t) : u[i] = IF i <= Len(s) THEN s[i] ELSE t[i - Len(s)]
  BY ConcatProperties DEF PlacedFrom
<1>2. Len(s) \in Nat /\ Len(t) \in Nat  BY LenProperties DEF PlacedFrom
<1> HIDE DEF u
<1>3. ASSUME NEW i \in 1..Len(u) PROVE Place(u[i]) = k + i
  <2>1. CASE i <= Len(s)
    <3>1. u[i] = s[i] /\ i \in 1..Len(s)  BY <1>1, <1>2, <2>1
    <3> QED  BY <3>1 DEF PlacedFrom
  <2>2. CASE ~(i <= Len(s))
    <3>1. u[i] = t[i - Len(s)] /\ i - Len(s) \in 1..Len(t)  BY <1>1, <1>2, <2>2
    <3>2. Place(t[i - Len(s)]) = m + (i - Len(s))  BY <3>1 DEF PlacedFrom
    <3> QED  BY <1>2, <3>1, <3>2
  <2> QED  BY <2>1, <2>2
<1>4. PlacedFrom(u, k)  BY <1>1, <1>3 DEF PlacedFrom
<1> QED  BY <1>1, <1>4 DEF u

LEMMA FirstPlaces ==
  PlacedFrom(CreateOrder(1), 0) /\ Len(CreateOrder(1)) = 26
<1>1. /\ Len(WorldTables) = 7 /\ Len(HistoryTables) = 6 /\ Len(TalkTables) = 6
      /\ Len(RequestTables) = 7
  BY DEF WorldTables, HistoryTables, TalkTables, RequestTables
<1>2. PlacedFrom(WorldTables, 0)
  <2>1. \A i \in 1..7 : Place(WorldTables[i]) = 0 + i  BY Places DEF WorldTables
  <2> QED  BY <1>1, <2>1, ListsAreSequences DEF PlacedFrom
<1>3. PlacedFrom(HistoryTables, 7)
  <2>1. \A i \in 1..6 : Place(HistoryTables[i]) = 7 + i  BY Places DEF HistoryTables
  <2> QED  BY <1>1, <2>1, ListsAreSequences DEF PlacedFrom
<1>4. PlacedFrom(TalkTables, 13)
  <2>1. \A i \in 1..6 : Place(TalkTables[i]) = 13 + i  BY Places DEF TalkTables
  <2> QED  BY <1>1, <2>1, ListsAreSequences DEF PlacedFrom
<1>5. PlacedFrom(RequestTables, 19)
  <2>1. \A i \in 1..7 : Place(RequestTables[i]) = 19 + i  BY Places DEF RequestTables
  <2> QED  BY <1>1, <2>1, ListsAreSequences DEF PlacedFrom
<1> DEFINE wh == WorldTables \o HistoryTables
           wht == wh \o TalkTables
           all == wht \o RequestTables
<1>6. CreateOrder(1) = all  BY DEF CreateOrder
<1>7. 0 \in Nat /\ 7 \in Nat /\ 13 \in Nat /\ 19 \in Nat /\ 7 = 0 + 7 /\ 13 = 0 + 13 /\ 19 = 0 + 19
  OBVIOUS
<1>8. PlacedFrom(wh, 0) /\ Len(wh) = Len(WorldTables) + Len(HistoryTables)
  BY <1>1, <1>2, <1>3, <1>7, JoinedPlaces
<1> HIDE DEF wh
<1>9. Len(wh) = 13  BY <1>1, <1>8
<1>10. PlacedFrom(wht, 0) /\ Len(wht) = Len(wh) + Len(TalkTables)
  BY <1>4, <1>7, <1>8, <1>9, JoinedPlaces
<1> HIDE DEF wht
<1>11. Len(wht) = 19  BY <1>1, <1>9, <1>10
<1>12. PlacedFrom(all, 0) /\ Len(all) = Len(wht) + Len(RequestTables)
  BY <1>5, <1>7, <1>10, <1>11, JoinedPlaces
<1> HIDE DEF all
<1> QED  BY <1>1, <1>6, <1>11, <1>12

LEMMA SecondPlaces ==
  PlacedFrom(CreateOrder(2), 26) /\ Len(CreateOrder(2)) = 12
<1>1. Len(ChapterTables) = 7 /\ Len(LinkTables) = 5  BY DEF ChapterTables, LinkTables
<1>2. PlacedFrom(ChapterTables, 26)
  <2>1. \A i \in 1..7 : Place(ChapterTables[i]) = 26 + i  BY Places DEF ChapterTables
  <2> QED  BY <1>1, <2>1, ListsAreSequences DEF PlacedFrom
<1>3. PlacedFrom(LinkTables, 33)
  <2>1. \A i \in 1..5 : Place(LinkTables[i]) = 33 + i  BY Places DEF LinkTables
  <2> QED  BY <1>1, <2>1, ListsAreSequences DEF PlacedFrom
<1> DEFINE all == ChapterTables \o LinkTables
<1>4. CreateOrder(2) = all  BY DEF CreateOrder
<1>5. 26 \in Nat /\ 33 \in Nat /\ 33 = 26 + 7  OBVIOUS
<1>6. PlacedFrom(all, 26) /\ Len(all) = Len(ChapterTables) + Len(LinkTables)
  BY <1>1, <1>2, <1>3, <1>5, JoinedPlaces
<1> HIDE DEF all
<1> QED  BY <1>1, <1>4, <1>6

\* A table is created after those it refers to.
LEMMA ParentsCreated ==
  ASSUME NEW a, NEW b \in ParentTables(a), a \in AllTables
  PROVE  b \in AllTables /\ Place(b) < Place(a) /\ (a \in FirstTables => b \in FirstTables)
<1>1. a # b /\ \E q \in References : q[1] = a /\ q[2] = b  BY DEF ParentTables
<1>2. PICK q \in References : q[1] = a /\ q[2] = b  BY <1>1
<1>3. Cascades(a, b) \/ Restricts(a, b) \/ (a = "topic_candidates" /\ b = "topics")
  <2>1. q = <<a, b, q[3]>> /\ (q[3] \in {"CASCADE", "RESTRICT"} \/ (a = "topic_candidates" /\ b = "topics"))
    <3>1. \A x \in ScenarioReferences \cup StateReferences \cup ConversationReferences :
            x = <<x[1], x[2], x[3]>> /\ x[3] \in {"CASCADE", "RESTRICT"}
      BY DEF ScenarioReferences, StateReferences, ConversationReferences
    <3>2. \A x \in MessageReferences \cup RequestReferences \cup DraftReferences \cup GoalReferences :
            x = <<x[1], x[2], x[3]>> /\ x[3] \in {"CASCADE", "RESTRICT"}
      BY DEF MessageReferences, RequestReferences, DraftReferences, GoalReferences
    <3>3. \A x \in MemoryReferences \cup LinkReferences \cup StorageReferences :
            x = <<x[1], x[2], x[3]>> /\ x[3] \in {"CASCADE", "RESTRICT"}
      BY DEF MemoryReferences, LinkReferences, StorageReferences
    <3>4. \A x \in StanceReferences : x = <<x[1], x[2], x[3]>> /\ x[3] \in {"CASCADE", "RESTRICT"}
      BY DEF StanceReferences
    <3>5. ASSUME NEW x \in HistoryReferences
          PROVE  /\ x = <<x[1], x[2], x[3]>>
                 /\ x[3] \in {"CASCADE", "RESTRICT"} \/ (x[1] = "topic_candidates" /\ x[2] = "topics")
      <4> DEFINE others ==
            {<<"run_events", "chapter_runs", "CASCADE">>, <<"command_records", "chapter_runs", "CASCADE">>,
             <<"world_events", "chapter_runs", "CASCADE">>,
             <<"world_event_observers", "world_events", "CASCADE">>,
             <<"world_event_observers", "actors", "RESTRICT">>,
             <<"topic_candidates", "chapter_runs", "CASCADE">>}
      <4>1. x \in others \/ x = <<"topic_candidates", "topics", "SET NULL">>
        BY Zenon DEF HistoryReferences
      <4>2. CASE x \in others  BY <4>2
      <4>3. CASE x = <<"topic_candidates", "topics", "SET NULL">>  BY <4>3
      <4> QED  BY <4>1, <4>2, <4>3
    <3>6. \/ q \in ScenarioReferences \cup StateReferences \cup ConversationReferences
          \/ q \in MessageReferences \cup RequestReferences \cup DraftReferences \cup GoalReferences
          \/ q \in MemoryReferences \cup LinkReferences \cup StorageReferences
          \/ q \in StanceReferences \/ q \in HistoryReferences
      BY DEF References
    <3> QED  BY <1>2, <3>1, <3>2, <3>3, <3>4, <3>5, <3>6
  <2> QED  BY <1>2, <2>1, ReferencesAre
<1>4. b \in AllTables /\ (a \in FirstTables => b \in FirstTables)
  BY <1>3, FirstTablesClosed
     DEF Cascades, Restricts, AllTables, FirstTables, SecondTables, ScenarioTables
<1>5. CASE Cascades(a, b)
  BY <1>4, <1>5, Places DEF Cascades, DirectTables
<1>6. CASE Restricts(a, b)
  BY <1>1, <1>4, <1>6, Places DEF Restricts
<1>7. CASE a = "topic_candidates" /\ b = "topics"
  BY <1>4, <1>7, Places
<1> QED  BY <1>3, <1>4, <1>5, <1>6, <1>7

LEMMA TablesByPlace ==
  /\ \A x \in FirstTables : Place(x) \in 1..26 /\ CreateOrder(1)[Place(x)] = x
  /\ \A x \in SecondTables : Place(x) \in 27..38 /\ CreateOrder(2)[Place(x) - 26] = x
<1>1. ASSUME NEW x \in FirstTables PROVE Place(x) \in 1..26 /\ CreateOrder(1)[Place(x)] = x
  <2>1. x \in ToSet(CreateOrder(1))
    <3>1. \A k \in 1..1 : k = 1  OBVIOUS
    <3>2. \E k \in 1..1 : x \in ToSet(CreateOrder(k))  BY TablesAtAre DEF TablesAt
    <3> QED  BY <3>1, <3>2
  <2>2. PICK i \in 1..26 : CreateOrder(1)[i] = x
    BY <2>1, FirstPlaces, LenProperties DEF ToSet, PlacedFrom
  <2>3. Place(x) = 0 + i  BY <2>2, FirstPlaces DEF PlacedFrom
  <2> QED  BY <2>2, <2>3
<1>2. ASSUME NEW x \in SecondTables PROVE Place(x) \in 27..38 /\ CreateOrder(2)[Place(x) - 26] = x
  <2>1. x \in ToSet(CreateOrder(2))
    <3>1. \A k \in 1..2 : k = 1 \/ k = 2  OBVIOUS
    <3>2. \E k \in 1..2 : x \in ToSet(CreateOrder(k))  BY TablesAtAre DEF TablesAt
    <3>3. x \notin ToSet(CreateOrder(1))
      <4>1. x \notin FirstTables  BY DEF FirstTables, SecondTables, ScenarioTables
      <4> QED  BY <4>1, TablesAtAre DEF TablesAt
    <3> QED  BY <3>1, <3>2, <3>3
  <2>2. PICK i \in 1..12 : CreateOrder(2)[i] = x
    BY <2>1, SecondPlaces, LenProperties DEF ToSet, PlacedFrom
  <2>3. Place(x) = 26 + i  BY <2>2, SecondPlaces DEF PlacedFrom
  <2> QED  BY <2>2, <2>3
<1> QED  BY <1>1, <1>2

LEMMA CreatedTables ==
  /\ \A i \in 1..26 : CreateOrder(1)[i] \in FirstTables
  /\ \A i \in 1..12 : CreateOrder(2)[i] \in SecondTables
<1>1. ASSUME NEW i \in 1..26 PROVE CreateOrder(1)[i] \in FirstTables
  <2>1. CreateOrder(1)[i] \in AllTables /\ Place(CreateOrder(1)[i]) = 0 + i
    BY FirstPlaces, ElementOfSeq DEF PlacedFrom
  <2> QED  BY <2>1, TablesByPlace DEF AllTables
<1>2. ASSUME NEW i \in 1..12 PROVE CreateOrder(2)[i] \in SecondTables
  <2>1. CreateOrder(2)[i] \in AllTables /\ Place(CreateOrder(2)[i]) = 26 + i
    BY SecondPlaces, ElementOfSeq DEF PlacedFrom
  <2> QED  BY <2>1, TablesByPlace DEF AllTables
<1> QED  BY <1>1, <1>2

\* A migration creates a table after those its rows refer to.
LEMMA TablesCreatedInOrder == \A n \in 1..6 : CreatesInOrder(n)
<1>1. CreatesInOrder(1)
  <2>1. SUFFICES ASSUME NEW i \in 1..26, NEW b \in ParentTables(CreateOrder(1)[i])
                 PROVE  b \in {CreateOrder(1)[j] : j \in 1..(i - 1)}
    BY FirstPlaces, LenProperties DEF CreatesInOrder, PlacedFrom
  <2>2. CreateOrder(1)[i] \in FirstTables /\ Place(CreateOrder(1)[i]) = 0 + i
    BY FirstPlaces, CreatedTables DEF PlacedFrom
  <2>3. b \in FirstTables /\ Place(b) < i  BY <2>2, ParentsCreated DEF AllTables
  <2>4. Place(b) \in 1..26 /\ CreateOrder(1)[Place(b)] = b  BY <2>3, TablesByPlace
  <2> QED  BY <2>3, <2>4
<1>2. CreatesInOrder(2)
  <2>1. SUFFICES ASSUME NEW i \in 1..12, NEW b \in ParentTables(CreateOrder(2)[i])
                 PROVE  b \in TablesAt(1) \/ b \in {CreateOrder(2)[j] : j \in 1..(i - 1)}
    <3>1. TablesAt(2 - 1) = TablesAt(1)  OBVIOUS
    <3>2. DOMAIN CreateOrder(2) = 1..12  BY SecondPlaces, LenProperties DEF PlacedFrom
    <3> QED  BY <3>1, <3>2 DEF CreatesInOrder
  <2>2. CreateOrder(2)[i] \in SecondTables /\ Place(CreateOrder(2)[i]) = 26 + i
    BY SecondPlaces, CreatedTables DEF PlacedFrom
  <2>3. b \in AllTables /\ Place(b) < 26 + i  BY <2>2, ParentsCreated DEF AllTables
  <2>4. CASE b \in FirstTables  BY <2>4, TablesAtAre
  <2>5. CASE b \in SecondTables
    <3>1. Place(b) \in 27..38 /\ CreateOrder(2)[Place(b) - 26] = b  BY <2>5, TablesByPlace
    <3>2. Place(b) - 26 \in 1..(i - 1)  BY <2>3, <3>1
    <3> QED  BY <3>1, <3>2
  <2> QED  BY <2>3, <2>4, <2>5 DEF AllTables
<1>3. ASSUME NEW n \in 3..6 PROVE CreatesInOrder(n)
  BY CreateOrderHas DEF CreatesInOrder
<1> QED  BY <1>1, <1>2, <1>3

\* Its undoing drops a table after those whose rows refer to it.
LEMMA Dropped ==
  ASSUME NEW n, NEW k \in Nat, Len(CreateOrder(n)) = k, NEW m, m = k + 1
  PROVE  DOMAIN DropOrder(n) = 1..k /\ \A i \in 1..k : DropOrder(n)[i] = CreateOrder(n)[m - i]
<1>1. DropOrder(n) = [i \in 1..k |-> CreateOrder(n)[(k - i) + 1]]  BY DEF DropOrder, Reverse
<1>2. \A i \in 1..k : (k - i) + 1 = m - i  OBVIOUS
<1> QED  BY <1>1, <1>2

LEMMA TablesDroppedInOrder == \A n \in 1..6 : DropsInOrder(n)
<1>1. DropsInOrder(1)
  <2>1. DOMAIN DropOrder(1) = 1..26 /\ \A i \in 1..26 : DropOrder(1)[i] = CreateOrder(1)[27 - i]
    <3> DEFINE n == 1
               k == 26
               m == 27
    <3>1. m = k + 1 /\ k \in Nat  OBVIOUS
    <3>2. Len(CreateOrder(n)) = k  BY FirstPlaces DEF PlacedFrom
    <3> HIDE DEF n, k, m
    <3>3. DOMAIN DropOrder(n) = 1..k /\ \A i \in 1..k : DropOrder(n)[i] = CreateOrder(n)[m - i]
      BY <3>1, <3>2, Dropped
    <3> QED  BY <3>3 DEF n, k, m
  <2>2. SUFFICES ASSUME NEW i \in 1..26, NEW t \in TablesAt(1), DropOrder(1)[i] \in ParentTables(t)
                 PROVE  \E j \in 1..i : t = DropOrder(1)[j]
    BY <2>1 DEF DropsInOrder
  <2>3. Place(DropOrder(1)[i]) = 27 - i
    <3>1. DropOrder(1)[i] = CreateOrder(1)[27 - i] /\ 27 - i \in 1..26  BY <2>1
    <3>2. Place(CreateOrder(1)[27 - i]) = 0 + (27 - i)  BY <3>1, FirstPlaces DEF PlacedFrom
    <3> QED  BY <3>1, <3>2
  <2>4. t \in FirstTables  BY TablesAtAre
  <2>5. 27 - i < Place(t)  BY <2>2, <2>3, <2>4, ParentsCreated DEF AllTables
  <2>6. Place(t) \in 1..26 /\ CreateOrder(1)[Place(t)] = t  BY <2>4, TablesByPlace
  <2> DEFINE j == 27 - Place(t)
  <2>7. j \in 1..i /\ j \in 1..26 /\ 27 - j = Place(t)  BY <2>5, <2>6
  <2>8. DropOrder(1)[j] = CreateOrder(1)[27 - j]  BY <2>1, <2>7
  <2> QED  BY <2>6, <2>7, <2>8
<1>2. DropsInOrder(2)
  <2>1. DOMAIN DropOrder(2) = 1..12 /\ \A i \in 1..12 : DropOrder(2)[i] = CreateOrder(2)[13 - i]
    <3>1. 13 = 12 + 1 /\ 12 \in Nat  OBVIOUS
    <3>2. Len(CreateOrder(2)) = 12  BY SecondPlaces DEF PlacedFrom
    <3> QED  BY <3>1, <3>2, Dropped
  <2>2. SUFFICES ASSUME NEW i \in 1..12, NEW t \in TablesAt(2), DropOrder(2)[i] \in ParentTables(t)
                 PROVE  \E j \in 1..i : t = DropOrder(2)[j]
    BY <2>1 DEF DropsInOrder
  <2>3. Place(DropOrder(2)[i]) = 26 + (13 - i) /\ DropOrder(2)[i] \in SecondTables
    <3>1. DropOrder(2)[i] = CreateOrder(2)[13 - i] /\ 13 - i \in 1..12  BY <2>1
    <3>2. Place(CreateOrder(2)[13 - i]) = 26 + (13 - i)  BY <3>1, SecondPlaces DEF PlacedFrom
    <3> QED  BY <3>1, <3>2, CreatedTables
  <2>4. t \in AllTables  BY TablesAtAre DEF AllTables
  <2>5. 39 - i < Place(t) /\ (t \in FirstTables => DropOrder(2)[i] \in FirstTables)
    BY <2>2, <2>3, <2>4, ParentsCreated
  <2>6. t \in SecondTables
    BY <2>3, <2>4, <2>5 DEF AllTables, FirstTables, SecondTables, ScenarioTables
  <2>7. Place(t) \in 27..38 /\ CreateOrder(2)[Place(t) - 26] = t  BY <2>6, TablesByPlace
  <2> DEFINE j == 39 - Place(t)
  <2>8. j \in 1..i /\ j \in 1..12 /\ 13 - j = Place(t) - 26  BY <2>5, <2>7
  <2>9. DropOrder(2)[j] = CreateOrder(2)[13 - j]  BY <2>1, <2>8
  <2> QED  BY <2>7, <2>8, <2>9
<1>3. ASSUME NEW n \in 3..6 PROVE DropsInOrder(n)
  <2>1. DropOrder(n) = [i \in 1..0 |-> <<>>[(0 - i) + 1]]
    BY CreateOrderHas DEF DropOrder, Reverse
  <2>2. DOMAIN DropOrder(n) = {}  BY <2>1
  <2> QED  BY <2>2 DEF DropsInOrder
<1> QED  BY <1>1, <1>2, <1>3

-----------------------------------------------------------------------------

\* The rows of a revision fit the checks of the next one and of the one before.
LEMMA UpgradeOK ==
  ASSUME NEW rs, NEW n \in 1..6, RowsOK(rs, n - 1)
  PROVE  LET after == UpgradedRows(rs, n) IN
         /\ \A t \in after : Lawful(t, n)
         /\ RowsOK(after, n) /\ Migrates(rs, after)
<1>1. CASE n \in {1, 2, 4}
  <2>1. UpgradedRows(rs, n) = rs  BY <1>1 DEF UpgradedRows
  <2>2. TablesAt(n - 1) \subseteq TablesAt(n)
    <3>1. n = 1 \/ n = 2 \/ n = 4  BY <1>1
    <3> QED  BY <3>1, TablesAtAre
  <2>3. \A t : Lawful(t, n - 1) => Lawful(t, n)
    BY <1>1 DEF Lawful, GoalStatuses, Vector
  <2>4. RowsOK(rs, n)  BY <2>2, <2>3 DEF RowsOK
  <2> QED  BY <2>1, <2>4 DEF Migrates, RowsOK
<1>2. CASE n \in {3, 5}
  <2>1. UpgradedRows(rs, n) = WithoutVectors(rs)  BY <1>2 DEF UpgradedRows
  <2>2. TablesAt(n - 1) = TablesAt(n) /\ TablesAt(n - 1) \subseteq AllTables
    <3>1. n = 3 \/ n = 5  BY <1>2
    <3> QED  BY <3>1, TablesAtAre DEF AllTables
  <2>3. ASSUME NEW t \in WithoutVectors(rs) PROVE Lawful(t, n)
    <3>1. PICK u \in rs : /\ Restated(t, u) /\ (TableOf(u) = "memories" \/ t = u)
                          /\ TableOf(u) = "memories" => t.status = "none"
      BY WithoutVectorsRows
    <3>2. Lawful(u, n - 1) /\ TableOf(t) = TableOf(u)  BY <3>1 DEF RowsOK, Restated, TableOf
    <3> QED  BY <1>2, <3>1, <3>2 DEF Lawful, GoalStatuses
  <2>4. RowsOK(WithoutVectors(rs), n) /\ Migrates(rs, WithoutVectors(rs))
    BY <2>2, <2>3, WithoutVectorsMigrates
  <2> QED  BY <2>1, <2>3, <2>4
<1>3. CASE n = 6
  <2> DEFINE names == [completed |-> "achieved", departed |-> "abandoned"]
  <2>1. UpgradedRows(rs, n) = Renamed(rs, names)  BY <1>3 DEF UpgradedRows
  <2>2. TablesAt(5) = TablesAt(6) /\ TablesAt(5) \subseteq AllTables  BY TablesAtAre DEF AllTables
  <2>3. /\ DOMAIN names = {"completed", "departed"}
        /\ names["completed"] = "achieved" /\ names["departed"] = "abandoned"
    OBVIOUS
  <2> HIDE DEF names
  <2>4. ASSUME NEW t \in Renamed(rs, names) PROVE Lawful(t, 6)
    <3>1. PICK u \in rs : /\ Restated(t, u)
                          /\ t.status = IF TableOf(u) = "goals" /\ u.status \in DOMAIN names
                                        THEN names[u.status] ELSE u.status
      BY RenamedRows
    <3>2. Lawful(u, 5) /\ TableOf(t) = TableOf(u)  BY <1>3, <3>1 DEF RowsOK, Restated, TableOf
    <3> QED  BY <2>3, <3>1, <3>2 DEF Lawful, GoalStatuses, Vector
  <2>5. RowsOK(Renamed(rs, names), 6) /\ Migrates(rs, Renamed(rs, names))
    BY <1>3, <2>2, <2>4, RenamedMigrates
  <2> QED  BY <1>3, <2>1, <2>4, <2>5
<1> QED  BY <1>1, <1>2, <1>3

LEMMA DowngradeOK ==
  ASSUME NEW rs, NEW n \in 1..6, RowsOK(rs, n)
  PROVE  LET after == DowngradedRows(rs, n) IN
         /\ \A t \in after : Lawful(t, n - 1)
         /\ RowsOK(after, n - 1) /\ (OneVector(rs) => OneVector(after))
         /\ Names(after) \subseteq Names(rs)
         /\ n > 2 => Migrates(rs, after)
         /\ n = 2 => rs \cap ScenarioRows \subseteq after /\ \A t \in after : TableOf(t) # "memories"
         /\ n = 1 => after = {}
<1>1. CASE n = 1
  <2>1. DowngradedRows(rs, n) = {}
    <3>1. TablesAt(n - 1) = {}  BY <1>1, TablesAtAre
    <3> QED  BY <1>1, <3>1 DEF DowngradedRows
  <2> QED  BY <1>1, <2>1 DEF RowsOK, OneVector, Names
<1>2. CASE n = 2
  <2> DEFINE after == {t \in rs : TableOf(t) \in FirstTables}
  <2>1. n - 1 = 1 /\ TablesAt(1) = FirstTables  BY <1>2, TablesAtAre
  <2>2. DowngradedRows(rs, n) = after  BY <1>2, <2>1 DEF DowngradedRows
  <2>3. ASSUME NEW t \in after PROVE Lawful(t, 1) /\ TableOf(t) # "memories" /\ RowOK(t)
    <3>1. TableOf(t) # "memories"  BY <2>3 DEF FirstTables, ScenarioTables
    <3>2. RowOK(t) /\ Lawful(t, 2)  BY <1>2, <2>3 DEF RowsOK
    <3> QED  BY <3>1, <3>2 DEF Lawful, GoalStatuses
  <2>4. ASSUME NEW t \in after, NEW x \in t.refs PROVE x \in Names(after)
    <3>1. PICK p \in rs : p.name = x  BY <2>4 DEF RowsOK, Names
    <3>2. Cascades(TableOf(t), TableOf(p)) \/ Restricts(TableOf(t), TableOf(p))
      BY <2>4, <3>1 DEF RowsOK, RowOK, Typed, TableOf
    <3>3. TableOf(p) \in FirstTables  BY <2>4, <3>2, FirstTablesClosed
    <3> QED  BY <3>1, <3>3 DEF Names
  <2>5. RowsOK(after, 1)  BY <2>1, <2>3, <2>4 DEF RowsOK
  <2>6. rs \cap ScenarioRows \subseteq after
    BY ScenarioRowsOK DEF OfScenario, ScenarioTables, FirstTables
  <2>7. OneVector(rs) => OneVector(after)  BY DEF OneVector
  <2>8. Names(after) \subseteq Names(rs)  BY DEF Names
  <2> HIDE DEF after
  <2> QED  BY <1>2, <2>1, <2>2, <2>3, <2>5, <2>6, <2>7, <2>8
<1>3. CASE n \in {3, 5}
  <2>1. DowngradedRows(rs, n) = WithoutVectors(rs)  BY <1>3 DEF DowngradedRows
  <2>2. TablesAt(n) = TablesAt(n - 1) /\ TablesAt(n) \subseteq AllTables
    <3>1. n = 3 \/ n = 5  BY <1>3
    <3> QED  BY <3>1, TablesAtAre DEF AllTables
  <2>3. ASSUME NEW t \in WithoutVectors(rs) PROVE Lawful(t, n - 1)
    <3>1. PICK u \in rs : /\ Restated(t, u) /\ (TableOf(u) = "memories" \/ t = u)
                          /\ TableOf(u) = "memories" => t.status = "none"
      BY WithoutVectorsRows
    <3>2. Lawful(u, n) /\ TableOf(t) = TableOf(u)  BY <3>1 DEF RowsOK, Restated, TableOf
    <3> QED  BY <1>3, <3>1, <3>2 DEF Lawful, GoalStatuses
  <2>4. RowsOK(WithoutVectors(rs), n - 1) /\ Migrates(rs, WithoutVectors(rs))
    BY <2>2, <2>3, WithoutVectorsMigrates
  <2> QED  BY <1>3, <2>1, <2>3, <2>4 DEF Migrates
<1>4. CASE n = 4
  <2>1. DowngradedRows(rs, n) = OneCommand(rs)  BY <1>4 DEF DowngradedRows
  <2>2. TablesAt(4) = TablesAt(3)  BY TablesAtAre
  <2>3. ASSUME NEW t \in OneCommand(rs) PROVE Lawful(t, 3)
    <3>1. Lawful(t, 4)  BY <1>4, <2>3 DEF RowsOK, OneCommand
    <3> QED  BY <3>1 DEF Lawful, GoalStatuses, Vector
  <2>4. RowsOK(OneCommand(rs), 3) /\ Migrates(rs, OneCommand(rs))
    BY <1>4, <2>2, <2>3, OneCommandMigrates
  <2> QED  BY <1>4, <2>1, <2>3, <2>4 DEF Migrates
<1>5. CASE n = 6
  <2> DEFINE names == [achieved |-> "completed"]
  <2>1. DowngradedRows(rs, n) = Renamed(rs, names)  BY <1>5 DEF DowngradedRows
  <2>2. TablesAt(6) = TablesAt(5) /\ TablesAt(6) \subseteq AllTables  BY TablesAtAre DEF AllTables
  <2>3. DOMAIN names = {"achieved"} /\ names["achieved"] = "completed"  OBVIOUS
  <2> HIDE DEF names
  <2>4. ASSUME NEW t \in Renamed(rs, names) PROVE Lawful(t, 5)
    <3>1. PICK u \in rs : /\ Restated(t, u)
                          /\ t.status = IF TableOf(u) = "goals" /\ u.status \in DOMAIN names
                                        THEN names[u.status] ELSE u.status
      BY RenamedRows
    <3>2. Lawful(u, 6) /\ TableOf(t) = TableOf(u)  BY <1>5, <3>1 DEF RowsOK, Restated, TableOf
    <3> QED  BY <2>3, <3>1, <3>2 DEF Lawful, GoalStatuses, Vector
  <2>5. RowsOK(Renamed(rs, names), 5) /\ Migrates(rs, Renamed(rs, names))
    BY <1>5, <2>2, <2>4, RenamedMigrates
  <2> QED  BY <1>5, <2>1, <2>4, <2>5 DEF Migrates
<1> QED  BY <1>1, <1>2, <1>3, <1>4, <1>5

-----------------------------------------------------------------------------
(* The invariant                                                             *)

AllStatuses == GoalStatuses(5) \cup GoalStatuses(6)
GoalRecord == [goal : Nat, parents : SUBSET Nat, status : AllStatuses]

\* The goals of a run: each has an id of its own, and its parents are other goals of the run.
GoalsOK(goals) ==
    /\ goals \in Seq(GoalRecord)
    /\ \A i \in DOMAIN goals : goals[i].goal <= Len(goals)
    /\ \A i, j \in DOMAIN goals : goals[i].goal = goals[j].goal => i = j
    /\ \A i \in DOMAIN goals : \A p \in goals[i].parents :
           p # goals[i].goal /\ \E j \in DOMAIN goals : goals[j].goal = p

\* The memories of a run: each has an id of its own, its evidence are messages of the run, and
\* one without evidence is about the world event.
MemoriesOK(r) ==
    /\ IsFiniteSet(r.memories)
    /\ \A m \in r.memories :
         /\ m.memory \in 1..Cardinality(r.memories)
         /\ m.said \subseteq r.messages /\ m.about \subseteq GoalIds(r)
         /\ m.said = {} => r.event = TRUE
    /\ \A m, u \in r.memories : m.memory = u.memory => m = u

RunOK(r) ==
    /\ r = [present |-> r.present, goals |-> r.goals, segments |-> r.segments,
            messages |-> r.messages, memories |-> r.memories, invited |-> r.invited,
            event |-> r.event, ended |-> r.ended, commands |-> r.commands, ahead |-> r.ahead]
    /\ r.present \in BOOLEAN /\ r.event \in BOOLEAN
    /\ GoalsOK(r.goals) /\ r.segments \in [Talks -> 0..2]
    /\ r.messages \subseteq Segments(r) /\ MemoriesOK(r)
    /\ \A i \in r.invited : i[1] \in Opened(r) /\ i[2] \in GoalIds(r)

MemoryIds(r) == {m.memory : m \in r.memories}
Event == <<"world_events", "event">>

\* What the database has of the run whose items it keeps.
ItemsKept(rs, i, n) ==
    /\ \A t \in rs : TableOf(t) = "memories" => i.present = TRUE /\ t.name[2] \in MemoryIds(i)
    /\ i.present = TRUE => n >= 2
    /\ i.present = TRUE /\ (\E m \in i.memories : m.said = {}) => Event \in Names(rs)

\* The run in memory has what was stored of it.
RunAhead(rs, r) ==
    /\ Chapter \in Names(rs)
    /\ \A t \in rs : TableOf(t) = "memories" => t.name[2] \in MemoryIds(r)
    /\ \A t \in rs : TableOf(t) = "command_records" => t.name[2] \in r.commands

DatabaseOK(rs, i, n) ==
    /\ RowsOK(rs, n) /\ OneVector(rs) /\ ItemsKept(rs, i, n) /\ RunOK(i)
    /\ Chapter \in Names(rs) => ScenarioRows \subseteq rs

TablesInv ==
    /\ revision \in 0..6 /\ refused \in {"nothing", "save", "migration", "deletion"}
    /\ loads \in 0..MaxLoads /\ moves \in 0..MaxMoves
    /\ DatabaseOK(tuples, items, revision) /\ RunOK(run)
    /\ run.present = TRUE => revision = 6 /\ RunAhead(tuples, run)

-----------------------------------------------------------------------------
(* The run changes in memory                                                 *)

\* What a change of the run never takes from it.
Grows(r, s) ==
    s.present = r.present /\ MemoryIds(r) \subseteq MemoryIds(s) /\ r.commands \subseteq s.commands

LEMMA ChangedInv ==
  ASSUME TablesInv, NEW s, Changed(s), RunOK(s), Grows(run, s)
  PROVE  TablesInv'
<1>1. run' = s /\ refused' = "nothing" /\ UNCHANGED <<tuples, items, revision, loads, moves>>
  BY DEF Changed
<1>2. s.present = TRUE => revision = 6 /\ RunAhead(tuples, s)
  BY DEF Grows, TablesInv, RunAhead
<1> QED  BY <1>1, <1>2 DEF TablesInv

Longer(r, s) == s.segments \in [Talks -> 0..2] /\ \A c \in Talks : r.segments[c] <= s.segments[c]

LEMMA OpenedGrows ==
  ASSUME NEW r, RunOK(r), NEW s, Longer(r, s)
  PROVE  Opened(r) \subseteq Opened(s) /\ Segments(r) \subseteq Segments(s)
<1>1. \A c \in Talks : r.segments[c] \in 0..2 /\ s.segments[c] \in 0..2  BY DEF RunOK, Longer
<1>2. Opened(r) \subseteq Opened(s)  BY <1>1 DEF Opened, Longer
<1>3. ASSUME NEW x \in Segments(r) PROVE x \in Segments(s)
  <2>1. x \in Talks \X {1, 2} /\ x[2] <= r.segments[x[1]]  BY DEF Segments
  <2>2. x[1] \in Talks /\ x[2] \in {1, 2}  BY <2>1
  <2>3. x[2] <= s.segments[x[1]]  BY <1>1, <2>1, <2>2 DEF Longer
  <2> QED  BY <2>1, <2>3 DEF Segments
<1> QED  BY <1>2, <1>3

\* A change of the conversations only.
LEMMA TalksRun ==
  ASSUME NEW r, RunOK(r), NEW segments \in [Talks -> 0..2], NEW invited,
         \A c \in Talks : r.segments[c] <= segments[c],
         NEW s, s = [r EXCEPT !.segments = segments, !.invited = invited],
         \A i \in invited : i \in r.invited \/ (segments[i[1]] > 0 /\ i[1] \in Talks /\ i[2] \in GoalIds(r))
  PROVE  RunOK(s) /\ Grows(r, s)
<1>1. /\ s = [present |-> r.present, goals |-> r.goals, segments |-> segments,
              messages |-> r.messages, memories |-> r.memories, invited |-> invited,
              event |-> r.event, ended |-> r.ended, commands |-> r.commands, ahead |-> r.ahead]
  BY DEF RunOK
<1>2. /\ s.present = r.present /\ s.goals = r.goals /\ s.segments = segments
      /\ s.messages = r.messages /\ s.memories = r.memories /\ s.invited = invited
      /\ s.event = r.event /\ s.ended = r.ended /\ s.commands = r.commands /\ s.ahead = r.ahead
  BY <1>1
<1>3. /\ s = [present |-> s.present, goals |-> s.goals, segments |-> s.segments,
              messages |-> s.messages, memories |-> s.memories, invited |-> s.invited,
              event |-> s.event, ended |-> s.ended, commands |-> s.commands, ahead |-> s.ahead]
  BY <1>1, <1>2, Zenon
<1>4. Opened(r) \subseteq Opened(s) /\ Segments(r) \subseteq Segments(s)
  <2>1. Longer(r, s)  BY <1>2 DEF Longer
  <2> QED  BY <2>1, OpenedGrows
<1>5. GoalIds(s) = GoalIds(r)  BY <1>2 DEF GoalIds
<1>6. MemoriesOK(s)
  <2>1. MemoriesOK(r)  BY DEF RunOK
  <2> QED  BY ONLY <1>2, <1>5, <2>1 DEF MemoriesOK
<1>7. \A i \in s.invited : i[1] \in Opened(s) /\ i[2] \in GoalIds(s)
  BY <1>2, <1>4, <1>5 DEF RunOK, Opened
<1>8. s.present \in BOOLEAN /\ s.event \in BOOLEAN /\ GoalsOK(s.goals)  BY <1>2 DEF RunOK
<1>9. s.messages \subseteq Segments(s)  BY <1>2, <1>4 DEF RunOK
<1>10. RunOK(s)  BY <1>2, <1>3, <1>6, <1>7, <1>8, <1>9 DEF RunOK
<1> QED  BY <1>2, <1>10 DEF Grows, MemoryIds

LEMMA InviteInv ==
  ASSUME TablesInv, NEW c \in Talks, NEW g \in GoalIds(run), Invite(c, g)
  PROVE  TablesInv'
<1> DEFINE segments == [run.segments EXCEPT ![c] = 1]
           invited == run.invited \cup {<<c, g>>}
           s == [run EXCEPT !.segments = segments, !.invited = invited]
<1>1. Changed(s) /\ run.segments[c] = 0  BY DEF Invite
<1>2. RunOK(run) /\ run.segments \in [Talks -> 0..2]  BY DEF TablesInv, RunOK
<1>3. segments \in [Talks -> 0..2] /\ \A d \in Talks : run.segments[d] <= segments[d]
  BY <1>1, <1>2
<1>4. \A i \in invited : i \in run.invited \/ (segments[i[1]] > 0 /\ i[1] \in Talks /\ i[2] \in GoalIds(run))
  BY <1>2
<1>5. s = [run EXCEPT !.segments = segments, !.invited = invited]  OBVIOUS
<1> HIDE DEF segments, invited, s
<1>6. RunOK(s) /\ Grows(run, s)  BY <1>2, <1>3, <1>4, <1>5, TalksRun
<1> QED  BY <1>1, <1>6, ChangedInv

LEMMA JoinInv ==
  ASSUME TablesInv, NEW c \in Talks, Join(c)
  PROVE  TablesInv'
<1> DEFINE segments == [run.segments EXCEPT ![c] = 2]
           s == [run EXCEPT !.segments = segments]
<1>1. Changed(s) /\ run.segments[c] = 1  BY DEF Join
<1>2. RunOK(run) /\ run.segments \in [Talks -> 0..2]  BY DEF TablesInv, RunOK
<1>3. segments \in [Talks -> 0..2] /\ \A d \in Talks : run.segments[d] <= segments[d]
  BY <1>1, <1>2
<1>4. s = [run EXCEPT !.segments = segments, !.invited = run.invited]  BY <1>2 DEF RunOK
<1> HIDE DEF segments, s
<1>5. RunOK(s) /\ Grows(run, s)  BY <1>2, <1>3, <1>4, TalksRun
<1> QED  BY <1>1, <1>5, ChangedInv

\* A message is said and a command answered.
LEMMA SaidRun ==
  ASSUME NEW r, RunOK(r), NEW said \in Segments(r), NEW messages, messages = r.messages \cup {said},
         NEW commands, r.commands \subseteq commands,
         NEW s, s = [r EXCEPT !.messages = messages, !.commands = commands]
  PROVE  RunOK(s) /\ Grows(r, s)
<1>1. s = [present |-> r.present, goals |-> r.goals, segments |-> r.segments,
           messages |-> messages, memories |-> r.memories, invited |-> r.invited,
           event |-> r.event, ended |-> r.ended, commands |-> commands, ahead |-> r.ahead]
  BY DEF RunOK
<1>2. /\ s.present = r.present /\ s.goals = r.goals /\ s.segments = r.segments
      /\ s.messages = messages /\ s.memories = r.memories /\ s.invited = r.invited
      /\ s.event = r.event /\ s.ended = r.ended /\ s.commands = commands /\ s.ahead = r.ahead
  BY <1>1
<1>3. s = [present |-> s.present, goals |-> s.goals, segments |-> s.segments,
           messages |-> s.messages, memories |-> s.memories, invited |-> s.invited,
           event |-> s.event, ended |-> s.ended, commands |-> s.commands, ahead |-> s.ahead]
  BY <1>1, <1>2, Zenon
<1>4. Opened(s) = Opened(r) /\ Segments(s) = Segments(r) /\ GoalIds(s) = GoalIds(r)
  BY <1>2 DEF Opened, Segments, GoalIds
<1>5. r.messages \subseteq s.messages /\ s.messages \subseteq Segments(s)
  BY <1>2, <1>4 DEF RunOK
<1>6. MemoriesOK(s)
  <2>1. MemoriesOK(r)  BY DEF RunOK
  <2> QED  BY ONLY <1>2, <1>4, <1>5, <2>1 DEF MemoriesOK
<1>7. RunOK(s)  BY <1>2, <1>3, <1>4, <1>5, <1>6 DEF RunOK
<1> QED  BY <1>2, <1>7 DEF Grows, MemoryIds

LEMMA SpeakInv ==
  ASSUME TablesInv, NEW c \in Talks, Speak(c)
  PROVE  TablesInv'
<1> DEFINE said == <<c, run.segments[c]>>
           messages == run.messages \cup {said}
           commands == run.commands \cup {Cardinality(run.commands) + 1}
           s == [run EXCEPT !.messages = messages, !.commands = commands]
<1>1. Changed(s) /\ run.segments[c] > 0  BY DEF Speak
<1>2. RunOK(run)  BY DEF TablesInv
<1>3. said \in Segments(run)
  <2>1. run.segments[c] \in {1, 2}  BY <1>1, <1>2 DEF RunOK
  <2> QED  BY <2>1 DEF Segments
<1>4. messages = run.messages \cup {said} /\ run.commands \subseteq commands  OBVIOUS
<1>5. s = [run EXCEPT !.messages = messages, !.commands = commands]  OBVIOUS
<1> HIDE DEF said, messages, commands, s
<1>6. RunOK(s) /\ Grows(run, s)  BY <1>2, <1>3, <1>4, <1>5, SaidRun
<1> QED  BY <1>1, <1>6, ChangedInv

IdsOf(goals) == {goals[i].goal : i \in DOMAIN goals}

\* A memory is added, of what happened or what was said, perhaps with a goal.
MemoryFits(r, m, event, goals) ==
    /\ m.memory = Cardinality(r.memories) + 1
    /\ m.said \subseteq r.messages /\ m.about \subseteq IdsOf(goals)
    /\ m.said = {} => event = TRUE
    /\ event \in BOOLEAN /\ (r.event = TRUE => event = TRUE)
    /\ GoalsOK(goals) /\ GoalIds(r) \subseteq IdsOf(goals)

LEMMA MemoryRun ==
  ASSUME NEW r, RunOK(r), NEW m, NEW event, NEW goals, MemoryFits(r, m, event, goals),
         NEW s, s = [r EXCEPT !.event = event, !.memories = r.memories \cup {m}, !.goals = goals]
  PROVE  RunOK(s) /\ Grows(r, s)
<1> DEFINE memories == r.memories \cup {m}
<1>1. s = [present |-> r.present, goals |-> goals, segments |-> r.segments,
           messages |-> r.messages, memories |-> memories, invited |-> r.invited,
           event |-> event, ended |-> r.ended, commands |-> r.commands, ahead |-> r.ahead]
  BY DEF RunOK
<1>2. /\ s.present = r.present /\ s.goals = goals /\ s.segments = r.segments
      /\ s.messages = r.messages /\ s.memories = memories /\ s.invited = r.invited
      /\ s.event = event /\ s.ended = r.ended /\ s.commands = r.commands /\ s.ahead = r.ahead
  BY <1>1
<1>3. s = [present |-> s.present, goals |-> s.goals, segments |-> s.segments,
           messages |-> s.messages, memories |-> s.memories, invited |-> s.invited,
           event |-> s.event, ended |-> s.ended, commands |-> s.commands, ahead |-> s.ahead]
  BY <1>1, <1>2, Zenon
<1>4. Opened(s) = Opened(r) /\ Segments(s) = Segments(r) /\ GoalIds(s) = IdsOf(goals)
  BY <1>2 DEF Opened, Segments, GoalIds, IdsOf
<1>5. GoalIds(r) \subseteq GoalIds(s)  BY <1>4 DEF MemoryFits
<1>6. MemoriesOK(r) /\ IsFiniteSet(r.memories)  BY DEF RunOK, MemoriesOK
<1>7. Cardinality(r.memories) \in Nat  BY <1>6, FS_CardinalityType
<1>8. m \notin r.memories
  <2>1. ASSUME m \in r.memories PROVE FALSE
    <3>1. m.memory \in 1..Cardinality(r.memories)  BY <1>6, <2>1 DEF MemoriesOK
    <3>2. m.memory = Cardinality(r.memories) + 1  BY DEF MemoryFits
    <3> QED  BY <1>7, <3>1, <3>2
  <2> QED  BY <2>1
<1>9. IsFiniteSet(memories) /\ Cardinality(memories) = Cardinality(r.memories) + 1
  BY <1>6, <1>8, FS_AddElement
<1>10. ASSUME NEW u \in memories
       PROVE  /\ u.memory \in 1..Cardinality(memories)
              /\ u.said \subseteq s.messages /\ u.about \subseteq GoalIds(s)
              /\ u.said = {} => s.event = TRUE
  <2>1. CASE u \in r.memories
    <3>1. /\ u.memory \in 1..Cardinality(r.memories) /\ u.said \subseteq r.messages
          /\ u.about \subseteq GoalIds(r) /\ (u.said = {} => r.event = TRUE)
      BY <1>6, <2>1 DEF MemoriesOK
    <3>2. r.event = TRUE => s.event = TRUE  BY <1>2 DEF MemoryFits
    <3> QED  BY <1>2, <1>5, <1>7, <1>9, <3>1, <3>2
  <2>2. CASE u = m
    <3>1. /\ u.memory = Cardinality(r.memories) + 1 /\ u.said \subseteq r.messages
          /\ u.about \subseteq IdsOf(goals) /\ (u.said = {} => event = TRUE)
      BY <2>2 DEF MemoryFits
    <3> QED  BY <1>2, <1>4, <1>7, <1>9, <3>1
  <2> QED  BY <1>10, <2>1, <2>2
<1>11. ASSUME NEW u \in memories, NEW v \in memories, u.memory = v.memory PROVE u = v
  <2>1. \A w \in r.memories : w.memory \in 1..Cardinality(r.memories)  BY <1>6 DEF MemoriesOK
  <2>2. m.memory = Cardinality(r.memories) + 1  BY DEF MemoryFits
  <2>3. \A w \in r.memories : w.memory # m.memory  BY <1>7, <2>1, <2>2
  <2>4. CASE u \in r.memories /\ v \in r.memories  BY <1>6, <1>11, <2>4 DEF MemoriesOK
  <2> QED  BY <1>11, <2>3, <2>4
<1>12. MemoriesOK(s)  BY <1>2, <1>9, <1>10, <1>11 DEF MemoriesOK
<1>13. \A i \in s.invited : i[1] \in Opened(s) /\ i[2] \in GoalIds(s)
  BY <1>2, <1>4, <1>5 DEF RunOK
<1>14. /\ s.present \in BOOLEAN /\ s.event \in BOOLEAN /\ GoalsOK(s.goals)
       /\ s.segments \in [Talks -> 0..2] /\ s.messages \subseteq Segments(s)
  BY <1>2, <1>4 DEF RunOK, MemoryFits
<1>15. RunOK(s)  BY <1>3, <1>12, <1>13, <1>14 DEF RunOK
<1>16. MemoryIds(r) \subseteq MemoryIds(s)  BY <1>2 DEF MemoryIds
<1> QED  BY <1>2, <1>15, <1>16 DEF Grows

LEMMA HappenInv ==
  ASSUME TablesInv, Happen
  PROVE  TablesInv'
<1> DEFINE m == [memory |-> Cardinality(run.memories) + 1, said |-> {}, about |-> {}]
           s == [run EXCEPT !.event = TRUE, !.memories = run.memories \cup {m}]
<1>1. Changed(s)  BY DEF Happen
<1>2. RunOK(run)  BY DEF TablesInv
<1>3. s = [run EXCEPT !.event = TRUE, !.memories = run.memories \cup {m}, !.goals = run.goals]
  BY <1>2 DEF RunOK
<1>4. m.memory = Cardinality(run.memories) + 1 /\ m.said = {} /\ m.about = {}  OBVIOUS
<1> HIDE DEF m, s
<1>5. MemoryFits(run, m, TRUE, run.goals)
  BY <1>2, <1>4 DEF MemoryFits, RunOK, GoalIds, IdsOf
<1>6. RunOK(s) /\ Grows(run, s)  BY <1>2, <1>3, <1>5, MemoryRun
<1> QED  BY <1>1, <1>6, ChangedInv

LEMMA RememberInv ==
  ASSUME TablesInv, NEW c \in Talks, NEW about \in {{}} \cup {{g} : g \in GoalIds(run)},
         Remember(c, about)
  PROVE  TablesInv'
<1> DEFINE said == {x \in run.messages : x[1] = c}
           m == [memory |-> Cardinality(run.memories) + 1, said |-> said, about |-> about]
           s == [run EXCEPT !.memories = run.memories \cup {m}]
<1>1. Changed(s) /\ said # {}  BY DEF Remember
<1>2. RunOK(run)  BY DEF TablesInv
<1>3. s = [run EXCEPT !.event = run.event, !.memories = run.memories \cup {m}, !.goals = run.goals]
  BY <1>2 DEF RunOK
<1>4. m.memory = Cardinality(run.memories) + 1 /\ m.said = said /\ m.about = about  OBVIOUS
<1> HIDE DEF m, s
<1>5. MemoryFits(run, m, run.event, run.goals)
  BY <1>1, <1>2, <1>4 DEF MemoryFits, RunOK, GoalIds, IdsOf
<1>6. RunOK(s) /\ Grows(run, s)  BY <1>2, <1>3, <1>5, MemoryRun
<1> QED  BY <1>1, <1>6, ChangedInv

LEMMA WantedGoals ==
  ASSUME NEW goals, GoalsOK(goals), NEW g \in GoalRecord, g.goal = Len(goals) + 1,
         g.parents \subseteq IdsOf(goals)
  PROVE  /\ GoalsOK(Append(goals, g)) /\ IdsOf(goals) \subseteq IdsOf(Append(goals, g))
         /\ g.goal \in IdsOf(Append(goals, g))
<1> DEFINE n == Len(goals)
           more == Append(goals, g)
<1>1. goals \in Seq(GoalRecord)  BY DEF GoalsOK
<1>2. /\ more \in Seq(GoalRecord) /\ Len(more) = n + 1
      /\ (\A i \in 1..n : more[i] = goals[i]) /\ more[n + 1] = g
  BY <1>1, AppendProperties
<1>3. n \in Nat /\ DOMAIN goals = 1..n /\ DOMAIN more = 1..(n + 1)  BY <1>1, <1>2, LenProperties
<1>4. \A i \in 1..n : goals[i].goal \in Nat /\ goals[i].goal <= n
  <2>1. \A i \in 1..n : goals[i] \in GoalRecord  BY <1>1, <1>3, ElementOfSeq
  <2>2. \A i \in 1..n : goals[i].goal <= n  BY <1>3 DEF GoalsOK
  <2> QED  BY <2>1, <2>2 DEF GoalRecord
<1>5. g.goal = n + 1  OBVIOUS
<1>6. \A i \in 1..n : \A p \in goals[i].parents : p # goals[i].goal /\ p \in IdsOf(goals)
  BY <1>3 DEF GoalsOK, IdsOf
<1>7. \A i, j \in 1..n : goals[i].goal = goals[j].goal => i = j  BY <1>3 DEF GoalsOK
<1>8. \A p \in IdsOf(goals) : p \in Nat /\ p <= n /\ \E j \in 1..n : goals[j].goal = p
  BY <1>3, <1>4 DEF IdsOf
<1> HIDE DEF n, more
<1>9. \A i \in 1..(n + 1) : i \in 1..n \/ i = n + 1  BY <1>3
<1>10. 1..n \subseteq 1..(n + 1) /\ n + 1 \in 1..(n + 1)  BY <1>3
<1>11. \A p \in IdsOf(goals) : \E j \in 1..(n + 1) : more[j].goal = p  BY <1>2, <1>8, <1>10
<1>12. ASSUME NEW i \in 1..(n + 1)
       PROVE  more[i].goal <= n + 1 /\ \A p \in more[i].parents : p # more[i].goal /\ p \in IdsOf(goals)
  <2>1. CASE i \in 1..n  BY <1>2, <1>3, <1>4, <1>6, <2>1
  <2>2. CASE i = n + 1
    <3>1. more[i] = g  BY <1>2, <2>2
    <3>2. more[i].goal = n + 1 /\ more[i].parents \subseteq IdsOf(goals)  BY <1>5, <3>1
    <3> QED  BY <1>3, <1>8, <3>2
  <2> QED  BY <1>9, <2>1, <2>2
<1>13. ASSUME NEW i \in 1..(n + 1), NEW j \in 1..(n + 1), more[i].goal = more[j].goal PROVE i = j
  <2>1. CASE i \in 1..n /\ j \in 1..n  BY <1>2, <1>7, <1>13, <2>1
  <2>2. CASE i \in 1..n /\ j = n + 1  BY <1>2, <1>3, <1>4, <1>5, <1>13, <2>2
  <2>3. CASE i = n + 1 /\ j \in 1..n  BY <1>2, <1>3, <1>4, <1>5, <1>13, <2>3
  <2> QED  BY <1>9, <2>1, <2>2, <2>3
<1>14. GoalsOK(more)
  BY <1>2, <1>3, <1>11, <1>12, <1>13 DEF GoalsOK
<1>15. IdsOf(goals) \subseteq IdsOf(more) /\ g.goal \in IdsOf(more)
  BY <1>2, <1>3, <1>10, <1>11 DEF IdsOf
<1> QED  BY <1>14, <1>15 DEF more

LEMMA RememberAndWantInv ==
  ASSUME TablesInv, NEW c \in Talks, NEW parents \in {{}} \cup {{g} : g \in GoalIds(run)},
         RememberAndWant(c, parents)
  PROVE  TablesInv'
<1> DEFINE said == {x \in run.messages : x[1] = c}
           n == Len(run.goals) + 1
           g == [goal |-> n, parents |-> parents, status |-> "active"]
           m == [memory |-> Cardinality(run.memories) + 1, said |-> said, about |-> {n}]
           goals == Append(run.goals, g)
           s == [run EXCEPT !.memories = run.memories \cup {m}, !.goals = goals]
<1>1. Changed(s) /\ said # {}  BY DEF RememberAndWant
<1>2. RunOK(run) /\ GoalsOK(run.goals) /\ run.event \in BOOLEAN  BY DEF TablesInv, RunOK
<1>3. s = [run EXCEPT !.event = run.event, !.memories = run.memories \cup {m}, !.goals = goals]
  BY <1>2 DEF RunOK
<1>4. /\ m.memory = Cardinality(run.memories) + 1 /\ m.said = said /\ m.about = {n}
      /\ g.goal = n /\ g.parents = parents /\ g.status = "active"
  OBVIOUS
<1>5. run.goals \in Seq(GoalRecord)  BY <1>2 DEF GoalsOK
<1>6. n \in Nat  BY <1>5, LenProperties
<1>7. parents \subseteq IdsOf(run.goals)  BY DEF IdsOf, GoalIds
<1>8. IdsOf(run.goals) \subseteq Nat
  <2>1. \A i \in DOMAIN run.goals : run.goals[i] \in GoalRecord  BY <1>5, LenProperties, ElementOfSeq
  <2> QED  BY <2>1 DEF IdsOf, GoalRecord
<1>9. g \in GoalRecord
  BY <1>6, <1>7, <1>8 DEF GoalRecord, AllStatuses, GoalStatuses
<1> HIDE DEF g, m, s, goals
<1>10. GoalsOK(goals) /\ IdsOf(run.goals) \subseteq IdsOf(goals) /\ n \in IdsOf(goals)
  BY <1>2, <1>4, <1>7, <1>9, WantedGoals DEF goals
<1>11. GoalIds(run) = IdsOf(run.goals)  BY DEF GoalIds, IdsOf
<1>12. MemoryFits(run, m, run.event, goals)
  BY <1>1, <1>2, <1>4, <1>10, <1>11 DEF MemoryFits
<1>13. RunOK(s) /\ Grows(run, s)  BY <1>2, <1>3, <1>12, MemoryRun
<1> QED  BY <1>1, <1>13, ChangedInv

LEMMA SettledGoals ==
  ASSUME NEW goals, GoalsOK(goals), NEW k \in DOMAIN goals, NEW status \in AllStatuses
  PROVE  LET after == [goals EXCEPT ![k].status = status] IN
         GoalsOK(after) /\ IdsOf(after) = IdsOf(goals)
<1> DEFINE after == [goals EXCEPT ![k].status = status]
           n == Len(goals)
<1>1. goals \in Seq(GoalRecord) /\ n \in Nat /\ DOMAIN goals = 1..n /\ k \in 1..n
  BY LenProperties DEF GoalsOK
<1>2. \A i \in 1..n : goals[i] \in GoalRecord  BY <1>1, ElementOfSeq
<1>3. /\ DOMAIN after = 1..n
      /\ \A i \in 1..n : after[i] = IF i = k THEN [goals[k] EXCEPT !.status = status] ELSE goals[i]
  BY <1>1
<1>4. after = [i \in 1..n |-> after[i]]  BY <1>1
<1> HIDE DEF after, n
<1>5. ASSUME NEW i \in 1..n
      PROVE  after[i] \in GoalRecord /\ after[i].goal = goals[i].goal /\ after[i].parents = goals[i].parents
  <2>1. CASE i = k
    <3>1. after[i] = [goals[i] EXCEPT !.status = status]  BY <1>3, <2>1
    <3> QED  BY <1>2, <3>1 DEF GoalRecord
  <2>2. CASE i # k  BY <1>2, <1>3, <2>2
  <2> QED  BY <2>1, <2>2
<1>6. after \in Seq(GoalRecord) /\ Len(after) = n
  <2>1. after \in [1..n -> GoalRecord]  BY <1>4, <1>5
  <2> QED  BY <1>1, <2>1
<1>7. GoalsOK(after)
  <2>1. Len(goals) = n  BY DEF n
  <2>2. /\ \A i \in 1..n : goals[i].goal <= n
        /\ \A i, j \in 1..n : goals[i].goal = goals[j].goal => i = j
        /\ \A i \in 1..n : \A p \in goals[i].parents :
             p # goals[i].goal /\ \E j \in 1..n : goals[j].goal = p
    BY <1>1, <2>1 DEF GoalsOK
  <2> QED  BY ONLY <1>3, <1>5, <1>6, <2>2 DEF GoalsOK
<1>8. IdsOf(after) = IdsOf(goals)  BY <1>1, <1>3, <1>5 DEF IdsOf
<1> QED  BY <1>7, <1>8 DEF after

\* A change of the statuses of goals, or of the flags the rows do not depend on.
LEMMA GoalsRun ==
  ASSUME NEW r, RunOK(r), NEW goals, GoalsOK(goals), IdsOf(goals) = GoalIds(r), NEW ended, NEW ahead,
         NEW s, s = [r EXCEPT !.goals = goals, !.ended = ended, !.ahead = ahead]
  PROVE  RunOK(s) /\ Grows(r, s)
<1>1. s = [present |-> r.present, goals |-> goals, segments |-> r.segments,
           messages |-> r.messages, memories |-> r.memories, invited |-> r.invited,
           event |-> r.event, ended |-> ended, commands |-> r.commands, ahead |-> ahead]
  BY DEF RunOK
<1>2. /\ s.present = r.present /\ s.goals = goals /\ s.segments = r.segments
      /\ s.messages = r.messages /\ s.memories = r.memories /\ s.invited = r.invited
      /\ s.event = r.event /\ s.ended = ended /\ s.commands = r.commands /\ s.ahead = ahead
  BY <1>1
<1>3. s = [present |-> s.present, goals |-> s.goals, segments |-> s.segments,
           messages |-> s.messages, memories |-> s.memories, invited |-> s.invited,
           event |-> s.event, ended |-> s.ended, commands |-> s.commands, ahead |-> s.ahead]
  BY <1>1, <1>2, Zenon
<1>4. Opened(s) = Opened(r) /\ Segments(s) = Segments(r) /\ GoalIds(s) = GoalIds(r)
  <2>1. GoalIds(s) = IdsOf(s.goals)  BY DEF GoalIds, IdsOf
  <2> QED  BY <1>2, <2>1 DEF Opened, Segments
<1>5. MemoriesOK(s)
  <2>1. MemoriesOK(r)  BY DEF RunOK
  <2> QED  BY ONLY <1>2, <1>4, <2>1 DEF MemoriesOK
<1>6. RunOK(s)  BY <1>2, <1>3, <1>4, <1>5 DEF RunOK
<1> QED  BY <1>2, <1>6 DEF Grows, MemoryIds

LEMMA SettleGoalInv ==
  ASSUME TablesInv, NEW i \in DOMAIN run.goals, NEW status \in Statuses, SettleGoal(i, status)
  PROVE  TablesInv'
<1> DEFINE goals == [run.goals EXCEPT ![i].status = status]
           s == [run EXCEPT !.goals = goals]
<1>1. Changed(s)  BY DEF SettleGoal
<1>2. RunOK(run) /\ GoalsOK(run.goals)  BY DEF TablesInv, RunOK
<1>3. status \in AllStatuses  BY StatusesAssumption DEF AllStatuses, GoalStatuses
<1>4. GoalsOK(goals) /\ IdsOf(goals) = GoalIds(run)  BY <1>2, <1>3, SettledGoals DEF IdsOf, GoalIds
<1>5. s = [run EXCEPT !.goals = goals, !.ended = run.ended, !.ahead = run.ahead]
  BY <1>2 DEF RunOK
<1> HIDE DEF goals, s
<1>6. RunOK(s) /\ Grows(run, s)  BY <1>2, <1>4, <1>5, GoalsRun
<1> QED  BY <1>1, <1>6, ChangedInv

LEMMA EndChapterInv ==
  ASSUME TablesInv, EndChapter
  PROVE  TablesInv'
<1> DEFINE s == [run EXCEPT !.ended = TRUE]
<1>1. Changed(s)  BY DEF EndChapter
<1>2. RunOK(run) /\ GoalsOK(run.goals)  BY DEF TablesInv, RunOK
<1>3. IdsOf(run.goals) = GoalIds(run)  BY DEF IdsOf, GoalIds
<1>4. s = [run EXCEPT !.goals = run.goals, !.ended = TRUE, !.ahead = run.ahead]
  BY <1>2 DEF RunOK
<1> HIDE DEF s
<1>5. RunOK(s) /\ Grows(run, s)  BY <1>2, <1>3, <1>4, GoalsRun
<1> QED  BY <1>1, <1>5, ChangedInv

-----------------------------------------------------------------------------
(* The run is created, loaded and taken from the process                     *)

LEMMA ReorderedGoals ==
  ASSUME NEW goals, GoalsOK(goals), NEW after \in Reorderings(goals)
  PROVE  GoalsOK(after) /\ IdsOf(after) = IdsOf(goals)
<1> DEFINE n == Len(goals)
<1>1. goals \in Seq(GoalRecord) /\ n \in Nat /\ DOMAIN goals = 1..n
  BY LenProperties DEF GoalsOK
<1>2. \A i \in 1..n : goals[i] \in GoalRecord  BY <1>1, ElementOfSeq
<1>3. PICK f \in [1..n -> 1..n] : ToSet(f) = 1..n /\ after = [i \in 1..n |-> goals[f[i]]]
  BY <1>1 DEF Reorderings
<1>4. f \in Surjection(1..n, 1..n)
  <2>1. ASSUME NEW j \in 1..n PROVE \E i \in 1..n : f[i] = j
    <3>1. j \in {f[i] : i \in DOMAIN f}  BY <1>3 DEF ToSet
    <3> QED  BY <1>3, <3>1
  <2> QED  BY <2>1 DEF Surjection
<1>5. IsFiniteSet(1..n)  BY <1>1, FS_Interval
<1> DEFINE S == 1..n
<1>6. \A i, j \in S : f[i] = f[j] => i = j
  <2> HIDE DEF n
  <2>1. f \in Surjection(S, S) /\ IsFiniteSet(S) /\ Cardinality(S) = Cardinality(S)  BY <1>4, <1>5
  <2> HIDE DEF S
  <2>2. f \in Injection(S, S)  BY <2>1, FS_SurjSameCardinalityImpliesInj
  <2> QED  BY <2>2 DEF Injection, IsInjective
<1> HIDE DEF n, S
<1>7. \A i \in 1..n : after[i] = goals[f[i]] /\ f[i] \in 1..n  BY <1>3
<1>8. DOMAIN after = 1..n  BY <1>3
<1>9. after \in Seq(GoalRecord) /\ Len(after) = n
  <2>1. after \in [1..n -> GoalRecord]  BY <1>2, <1>3
  <2> QED  BY <1>1, <2>1
<1>10. \A j \in 1..n : \E i \in 1..n : after[i] = goals[j]
  <2>1. ASSUME NEW j \in 1..n PROVE \E i \in 1..n : after[i] = goals[j]
    <3>1. PICK i \in 1..n : f[i] = j  BY <1>4 DEF Surjection
    <3> QED  BY <1>7, <3>1
  <2> QED  BY <2>1
<1>11. /\ \A i \in 1..n : goals[i].goal <= n
       /\ \A i, j \in 1..n : goals[i].goal = goals[j].goal => i = j
       /\ \A i \in 1..n : \A p \in goals[i].parents :
            p # goals[i].goal /\ \E j \in 1..n : goals[j].goal = p
  BY <1>1 DEF GoalsOK, n
<1>12. GoalsOK(after)
  <2>1. \A i \in 1..n : after[i].goal <= n  BY <1>7, <1>11
  <2>2. ASSUME NEW i \in 1..n, NEW j \in 1..n, after[i].goal = after[j].goal PROVE i = j
    <3>1. goals[f[i]].goal = goals[f[j]].goal  BY <1>7, <2>2
    <3>2. f[i] = f[j]  BY <1>7, <1>11, <3>1
    <3> QED  BY <1>6, <3>2 DEF S
  <2>3. \A i \in 1..n : \A p \in after[i].parents :
          p # after[i].goal /\ \E j \in 1..n : after[j].goal = p
    <3>1. SUFFICES ASSUME NEW i \in 1..n, NEW p \in after[i].parents
                   PROVE  p # after[i].goal /\ \E j \in 1..n : after[j].goal = p
      OBVIOUS
    <3>2. after[i] = goals[f[i]] /\ f[i] \in 1..n  BY <1>7
    <3>3. p # goals[f[i]].goal /\ \E j \in 1..n : goals[j].goal = p  BY <1>11, <3>1, <3>2
    <3>4. PICK j \in 1..n : goals[j].goal = p  BY <3>3
    <3>5. PICK k \in 1..n : after[k] = goals[j]  BY <1>10
    <3> QED  BY <3>2, <3>3, <3>4, <3>5
  <2> QED  BY ONLY <1>8, <1>9, <2>1, <2>2, <2>3 DEF GoalsOK
<1>13. IdsOf(after) = IdsOf(goals)
  <2>1. ASSUME NEW x \in IdsOf(after) PROVE x \in IdsOf(goals)
    <3>1. PICK i \in 1..n : x = after[i].goal  BY <1>8 DEF IdsOf
    <3> QED  BY <1>1, <1>7, <3>1 DEF IdsOf
  <2>2. ASSUME NEW x \in IdsOf(goals) PROVE x \in IdsOf(after)
    <3>1. PICK j \in 1..n : x = goals[j].goal  BY <1>1 DEF IdsOf
    <3>2. PICK i \in 1..n : after[i] = goals[j]  BY <1>10
    <3> QED  BY <1>8, <3>1, <3>2 DEF IdsOf
  <2> QED  BY <2>1, <2>2
<1> QED  BY <1>12, <1>13

OfEvent(memories) == \E m \in memories : m.said = {}

LoadFits(r, goals, event) ==
    /\ GoalsOK(goals) /\ IdsOf(goals) = GoalIds(r)
    /\ event \in BOOLEAN /\ (OfEvent(r.memories) => event = TRUE)

Reloaded(r, goals, event, commands) ==
    [r EXCEPT !.goals = goals, !.ahead = FALSE, !.event = event, !.commands = commands]

LEMMA LoadedRun ==
  ASSUME NEW r, RunOK(r), NEW goals, NEW event, LoadFits(r, goals, event), NEW commands
  PROVE  LET s == Reloaded(r, goals, event, commands) IN
         /\ RunOK(s) /\ s.present = r.present /\ s.commands = commands
         /\ MemoryIds(s) = MemoryIds(r)
<1> DEFINE s == Reloaded(r, goals, event, commands)
<1>0. s = [r EXCEPT !.goals = goals, !.ahead = FALSE, !.event = event, !.commands = commands]
  BY DEF Reloaded
<1> HIDE DEF s
<1>1. s = [present |-> r.present, goals |-> goals, segments |-> r.segments,
           messages |-> r.messages, memories |-> r.memories, invited |-> r.invited,
           event |-> event, ended |-> r.ended, commands |-> commands, ahead |-> FALSE]
  BY <1>0 DEF RunOK
<1>2. /\ s.present = r.present /\ s.goals = goals /\ s.segments = r.segments
      /\ s.messages = r.messages /\ s.memories = r.memories /\ s.invited = r.invited
      /\ s.event = event /\ s.ended = r.ended /\ s.commands = commands /\ s.ahead = FALSE
  BY <1>1
<1>3. s = [present |-> s.present, goals |-> s.goals, segments |-> s.segments,
           messages |-> s.messages, memories |-> s.memories, invited |-> s.invited,
           event |-> s.event, ended |-> s.ended, commands |-> s.commands, ahead |-> s.ahead]
  BY <1>1, <1>2, Zenon
<1>4. Opened(s) = Opened(r) /\ Segments(s) = Segments(r) /\ GoalIds(s) = GoalIds(r)
  <2>1. GoalIds(s) = IdsOf(s.goals)  BY DEF GoalIds, IdsOf
  <2> QED  BY <1>2, <2>1 DEF Opened, Segments, LoadFits
<1>5. MemoriesOK(s)
  <2>1. MemoriesOK(r)  BY DEF RunOK
  <2>2. \A m \in r.memories : m.said = {} => event = TRUE  BY DEF OfEvent, LoadFits
  <2> QED  BY <1>2, <1>4, <2>1, <2>2 DEF MemoriesOK
<1>6. RunOK(s)  BY <1>2, <1>3, <1>4, <1>5 DEF RunOK, LoadFits
<1> QED  BY <1>2, <1>6 DEF MemoryIds, s

\* A run without conversations and memories.
LEMMA BlankRun ==
  ASSUME NEW goals, GoalsOK(goals), NEW present \in BOOLEAN,
         NEW r, r = [present |-> present, goals |-> goals, segments |-> [c \in Talks |-> 0],
                     messages |-> {}, memories |-> {}, invited |-> {}, event |-> FALSE,
                     ended |-> FALSE, commands |-> {}, ahead |-> FALSE]
  PROVE  RunOK(r)
<1>1. /\ r.present = present /\ r.goals = goals /\ r.segments = [c \in Talks |-> 0]
      /\ r.messages = {} /\ r.memories = {} /\ r.invited = {} /\ r.event = FALSE
      /\ r.ended = FALSE /\ r.commands = {} /\ r.ahead = FALSE
  OBVIOUS
<1>2. r = [present |-> r.present, goals |-> r.goals, segments |-> r.segments,
           messages |-> r.messages, memories |-> r.memories, invited |-> r.invited,
           event |-> r.event, ended |-> r.ended, commands |-> r.commands, ahead |-> r.ahead]
  BY <1>1, Zenon
<1>3. MemoriesOK(r)  BY <1>1, FS_EmptySet DEF MemoriesOK
<1> QED  BY <1>1, <1>2, <1>3 DEF RunOK

LEMMA NoGoals == GoalsOK(<<>>)
  BY DEF GoalsOK

LEMMA FirstGoals ==
  ASSUME NEW status \in AllStatuses
  PROVE  GoalsOK(<<[goal |-> 0, parents |-> {}, status |-> status]>>)
<1> DEFINE g == [goal |-> 0, parents |-> {}, status |-> status]
<1>1. g \in GoalRecord /\ g.goal = 0 /\ g.parents = {}  BY DEF GoalRecord
<1> HIDE DEF g
<1>2. GoalsOK(<<g>>)  BY <1>1 DEF GoalsOK
<1> QED  BY <1>2 DEF g

LEMMA FirstRunOK ==
  ASSUME NEW status \in AllStatuses
  PROVE  RunOK(FirstRun(status))
<1> DEFINE g == [goal |-> 0, parents |-> {}, status |-> status]
<1>1. FirstRun(status) =
        [present |-> TRUE, goals |-> <<g>>, segments |-> [c \in Talks |-> 0], messages |-> {},
         memories |-> {}, invited |-> {}, event |-> FALSE, ended |-> FALSE, commands |-> {},
         ahead |-> FALSE]
  <2> DEFINE old == <<[goal |-> 0, parents |-> {}, status |-> "active"]>>
  <2>1. [old EXCEPT ![1].status = status] = <<g>>  OBVIOUS
  <2>2. FirstRun(status) = [FreshRun EXCEPT !.goals = [old EXCEPT ![1].status = status]]
    BY DEF FirstRun, FreshRun
  <2> HIDE DEF g
  <2>3. FirstRun(status) = [FreshRun EXCEPT !.goals = <<g>>]  BY <2>1, <2>2
  <2> QED  BY <2>3 DEF FreshRun
<1>2. GoalsOK(<<g>>)  BY FirstGoals
<1> HIDE DEF g
<1> QED  BY <1>1, <1>2, BlankRun

LEMMA BlankIs ==
  ASSUME NEW goals, NEW present, NEW r, r = [[FreshRun EXCEPT !.goals = goals] EXCEPT !.present = present]
  PROVE  r = [present |-> present, goals |-> goals, segments |-> [c \in Talks |-> 0],
              messages |-> {}, memories |-> {}, invited |-> {}, event |-> FALSE,
              ended |-> FALSE, commands |-> {}, ahead |-> FALSE]
  BY DEF FreshRun

LEMMA UnloadedOK ==
  /\ RunOK(Unloaded) /\ Unloaded.present = FALSE /\ Unloaded.memories = {}
  /\ RunOK([EmptyRun EXCEPT !.present = TRUE]) /\ [EmptyRun EXCEPT !.present = TRUE].memories = {}
  /\ [EmptyRun EXCEPT !.present = TRUE].present = TRUE
<1> DEFINE r == [EmptyRun EXCEPT !.present = TRUE]
           goals == <<>>
<1>1. GoalsOK(goals)  BY NoGoals
<1>2. /\ Unloaded = [[FreshRun EXCEPT !.goals = goals] EXCEPT !.present = FALSE]
      /\ r = [[FreshRun EXCEPT !.goals = goals] EXCEPT !.present = TRUE]
  BY DEF Unloaded, EmptyRun
<1> HIDE DEF r, goals
<1>3. /\ Unloaded = [present |-> FALSE, goals |-> goals, segments |-> [c \in Talks |-> 0],
                     messages |-> {}, memories |-> {}, invited |-> {}, event |-> FALSE,
                     ended |-> FALSE, commands |-> {}, ahead |-> FALSE]
      /\ r = [present |-> TRUE, goals |-> goals, segments |-> [c \in Talks |-> 0],
              messages |-> {}, memories |-> {}, invited |-> {}, event |-> FALSE,
              ended |-> FALSE, commands |-> {}, ahead |-> FALSE]
  BY <1>2, BlankIs
<1>4. RunOK(Unloaded) /\ RunOK(r)  BY <1>1, <1>3, BlankRun
<1>5. Unloaded.present = FALSE /\ Unloaded.memories = {} /\ r.memories = {} /\ r.present = TRUE
  BY <1>3
<1> QED  BY <1>4, <1>5 DEF r

LEMMA FreshRunIs == FreshRun = FirstRun("active")
<1> DEFINE old == <<[goal |-> 0, parents |-> {}, status |-> "active"]>>
<1>1. [old EXCEPT ![1].status = "active"] = old  OBVIOUS
<1>2. FirstRun("active") = [FreshRun EXCEPT !.goals = [old EXCEPT ![1].status = "active"]]
  BY DEF FirstRun, FreshRun
<1> HIDE DEF old
<1>3. FirstRun("active") = [FreshRun EXCEPT !.goals = old]  BY <1>1, <1>2
<1> QED  BY <1>3 DEF FreshRun, old

-----------------------------------------------------------------------------
(* The steps that write no run                                               *)

\* A new set of rows that keeps the invariant.
LEMMA MovedInv ==
  ASSUME TablesInv, NEW rs, tuples' = rs, items' = items, run' = run \/ run' = Unloaded,
         revision' \in 0..6, refused' \in {"nothing", "save", "migration", "deletion"},
         loads' \in 0..MaxLoads, moves' \in 0..MaxMoves, RowsOK(rs, revision'), Migrates(tuples, rs),
         revision >= 2 => revision' >= 2, Names(rs) = Names(tuples) \/ run' = Unloaded,
         run'.present = TRUE => revision' = 6
  PROVE  TablesInv'
<1>1. \A t \in rs : t.name \in Names(tuples)  BY DEF Migrates, Names
<1>2. \A t \in rs : \E u \in tuples : u.name = t.name /\ TableOf(u) = TableOf(t)
  BY <1>1 DEF Names, TableOf
<1>3. OneVector(rs)  BY DEF Migrates, TablesInv, DatabaseOK
<1>4. Chapter \in Names(rs) => ScenarioRows \subseteq rs
  <2>1. Names(rs) \subseteq Names(tuples) /\ tuples \cap ScenarioRows \subseteq rs  BY DEF Migrates
  <2> QED  BY <2>1 DEF TablesInv, DatabaseOK
<1>5. ItemsKept(rs, items, revision')
  <2>1. \A t \in rs : TableOf(t) = "memories" => items.present = TRUE /\ t.name[2] \in MemoryIds(items)
    BY <1>2 DEF TablesInv, DatabaseOK, ItemsKept
  <2>2. items.present = TRUE => revision' >= 2  BY DEF TablesInv, DatabaseOK, ItemsKept
  <2>3. Event[1] # "command_records"  BY DEF Event
  <2>4. Event \in Names(tuples) => Event \in Names(rs)  BY <2>3 DEF Migrates
  <2> QED  BY <2>1, <2>2, <2>4 DEF TablesInv, DatabaseOK, ItemsKept
<1>6. RunOK(run')  BY UnloadedOK DEF TablesInv
<1>7. run'.present = TRUE => RunAhead(rs, run')
  <2>1. CASE run' = Unloaded  BY <2>1, UnloadedOK
  <2>2. CASE run' = run /\ Names(rs) = Names(tuples)
    BY <1>2, <2>2 DEF TablesInv, RunAhead
  <2> QED  BY <2>1, <2>2
<1> QED  BY <1>3, <1>4, <1>5, <1>6, <1>7 DEF TablesInv, DatabaseOK

LEMMA WithScenario ==
  ASSUME NEW rs, RowsOK(rs, 6)
  PROVE  RowsOK(rs \cup ScenarioRows, 6) /\ (OneVector(rs) => OneVector(rs \cup ScenarioRows))
<1>1. \A t \in ScenarioRows : /\ RowOK(t) /\ t.refs \subseteq Names(ScenarioRows)
                              /\ TableOf(t) \in ScenarioTables
  BY ScenarioRowsOK DEF OfScenario
<1>2. \A t \in ScenarioRows : TableOf(t) \in TablesAt(6) /\ Lawful(t, 6)
  BY <1>1, TablesAtSix DEF AllTables, FirstTables, ScenarioTables, Lawful
<1>3. Names(rs \cup ScenarioRows) = Names(rs) \cup Names(ScenarioRows)  BY NamesOfUnion
<1>4. RowsOK(rs \cup ScenarioRows, 6)  BY <1>1, <1>2, <1>3 DEF RowsOK
<1>5. ASSUME OneVector(rs) PROVE OneVector(rs \cup ScenarioRows)
  <2>1. \A t, u : t.name = u.name => TableOf(t) = TableOf(u)  BY DEF TableOf
  <2> QED  BY <1>5, <2>1, ScenarioElsewhere DEF OneVector
<1> QED  BY <1>4, <1>5

LEMMA SyncScenarioInv ==
  ASSUME TablesInv, SyncScenario
  PROVE  TablesInv'
<1> DEFINE rs == tuples \cup ScenarioRows
<1>1. /\ revision = 6 /\ tuples' = rs /\ refused' = "nothing"
      /\ UNCHANGED <<run, items, revision, loads, moves>>
  BY DEF SyncScenario
<1>2. RowsOK(rs, 6) /\ OneVector(rs)  BY <1>1, WithScenario DEF TablesInv, DatabaseOK
<1>3. ScenarioRows \subseteq rs /\ Names(tuples) \subseteq Names(rs)  BY DEF Names
<1>4. \A t \in rs : TableOf(t) \in {"memories", "command_records"} => t \in tuples
  BY ScenarioElsewhere
<1> HIDE DEF rs
<1>5. ItemsKept(rs, items, 6)  BY <1>1, <1>3, <1>4 DEF TablesInv, DatabaseOK, ItemsKept
<1>6. run.present = TRUE => RunAhead(rs, run)  BY <1>3, <1>4 DEF TablesInv, RunAhead
<1> QED  BY <1>1, <1>2, <1>3, <1>5, <1>6 DEF TablesInv, DatabaseOK

LEMMA BackfillInv ==
  ASSUME TablesInv, Backfill
  PROVE  TablesInv'
<1> DEFINE rs == Indexed(tuples, StoredMemories(tuples))
<1>1. /\ revision = 6 /\ tuples' = rs /\ refused' = "nothing"
      /\ UNCHANGED <<run, items, revision, loads, moves>>
  BY DEF Backfill
<1>2. RowsOK(rs, 6) /\ Migrates(tuples, rs) /\ Names(rs) = Names(tuples)
  BY <1>1, IndexedMigrates DEF TablesInv, DatabaseOK
<1> HIDE DEF rs
<1>3. loads \in 0..MaxLoads /\ moves \in 0..MaxMoves /\ (run.present = TRUE => revision = 6)
  BY DEF TablesInv
<1> QED  BY <1>1, <1>2, <1>3, MovedInv

LEMMA LoadInv ==
  ASSUME TablesInv, Load
  PROVE  TablesInv'
<1> DEFINE stored == IF items.present THEN items ELSE [EmptyRun EXCEPT !.present = TRUE]
           event == Event \in Names(tuples)
           commands == {t.name[2] : t \in {u \in tuples : TableOf(u) = "command_records"}}
<1>1. /\ revision = 6 /\ Chapter \in Names(tuples) /\ loads < MaxLoads
      /\ loads' = loads + 1 /\ refused' = "nothing" /\ UNCHANGED <<tuples, items, revision, moves>>
  BY DEF Load
<1>2. PICK goals \in Reorderings(stored.goals) : run' = Reloaded(stored, goals, event, commands)
  BY DEF Load, Event, Reloaded
<1>3. items.present = TRUE \/ items.present = FALSE  BY DEF TablesInv, DatabaseOK, RunOK
<1>4. RunOK(stored) /\ stored.present = TRUE
  BY <1>3, UnloadedOK DEF TablesInv, DatabaseOK
<1>5. event \in BOOLEAN  OBVIOUS
<1>6. OfEvent(stored.memories) => event = TRUE
  <2>1. CASE items.present = TRUE
    BY <2>1 DEF TablesInv, DatabaseOK, ItemsKept, OfEvent
  <2>2. CASE items.present = FALSE  BY <2>2, UnloadedOK DEF OfEvent
  <2> QED  BY <1>3, <2>1, <2>2
<1>7. \A t \in tuples : TableOf(t) = "memories" => t.name[2] \in MemoryIds(stored)
  <2>1. CASE items.present = TRUE
    BY <2>1 DEF TablesInv, DatabaseOK, ItemsKept
  <2>2. CASE items.present = FALSE  BY <2>2 DEF TablesInv, DatabaseOK, ItemsKept
  <2> QED  BY <1>3, <2>1, <2>2
<1>8. \A t \in tuples : TableOf(t) = "command_records" => t.name[2] \in commands  OBVIOUS
<1> HIDE DEF stored, event, commands
<1>9. GoalsOK(stored.goals) /\ IdsOf(stored.goals) = GoalIds(stored)
  BY <1>4 DEF RunOK, IdsOf, GoalIds
<1>10. GoalsOK(goals) /\ IdsOf(goals) = GoalIds(stored)  BY <1>9, ReorderedGoals
<1>11. /\ RunOK(run') /\ run'.present = stored.present /\ run'.commands = commands
       /\ MemoryIds(run') = MemoryIds(stored)
  <2>1. LoadFits(stored, goals, event)  BY <1>5, <1>6, <1>10 DEF LoadFits
  <2> QED  BY <1>2, <1>4, <2>1, LoadedRun
<1>12. RunAhead(tuples, run')  BY <1>1, <1>7, <1>8, <1>11 DEF RunAhead
<1>13. loads' \in 0..MaxLoads  BY <1>1, TableBoundsAssumption DEF TablesInv
<1> QED  BY <1>1, <1>11, <1>12, <1>13 DEF TablesInv

LEMMA UpgradeInv ==
  ASSUME TablesInv, Upgrade
  PROVE  TablesInv' /\ refused' = "nothing"
<1> DEFINE n == revision + 1
           rs == UpgradedRows(tuples, n)
<1>1. /\ revision < 6 /\ run' = Unloaded /\ UNCHANGED <<items, loads, moves>>
      /\ CreatesInOrder(n) /\ (\A t \in rs : Lawful(t, n)) =>
           revision' = n /\ tuples' = rs /\ refused' = "nothing"
  BY DEF Upgrade
<1>2. n \in 1..6 /\ n - 1 = revision  BY <1>1 DEF TablesInv
<1>3. RowsOK(tuples, n - 1)  BY <1>2 DEF TablesInv, DatabaseOK
<1> HIDE DEF n
<1>4. (\A t \in rs : Lawful(t, n)) /\ RowsOK(rs, n) /\ Migrates(tuples, rs)
  BY <1>2, <1>3, UpgradeOK
<1> HIDE DEF rs
<1>5. CreatesInOrder(n)  BY <1>2, TablesCreatedInOrder
<1>6. revision' = n /\ tuples' = rs /\ refused' = "nothing"  BY <1>1, <1>4, <1>5
<1>7. loads \in 0..MaxLoads /\ moves \in 0..MaxMoves /\ revision \in 0..6  BY DEF TablesInv
<1>8. run'.present # TRUE  BY <1>1, UnloadedOK
<1>9. revision >= 2 => n >= 2  BY <1>7 DEF n
<1>10. n \in 0..6  BY <1>2
<1>11. TablesInv'  BY <1>1, <1>4, <1>6, <1>7, <1>8, <1>9, <1>10, MovedInv
<1> QED  BY <1>6, <1>11

LEMMA DowngradeInv ==
  ASSUME TablesInv, Downgrade
  PROVE  TablesInv' /\ refused' = "nothing" /\ revision' # revision
<1> DEFINE n == revision
           m == n - 1
           rs == DowngradedRows(tuples, n)
<1>1. /\ revision > 0 /\ (revision = 6 => moves < MaxMoves) /\ run' = Unloaded
      /\ DropsInOrder(n) /\ (\A t \in rs : Lawful(t, m)) =>
           revision' = m /\ tuples' = rs /\ refused' = "nothing" /\ items' = IF n = 2 THEN Unloaded ELSE items
      /\ moves' = (IF revision = 6 THEN moves + 1 ELSE moves) /\ UNCHANGED loads
  BY DEF Downgrade
<1>2. n \in 1..6 /\ m \in 0..5 /\ m # n  BY <1>1 DEF TablesInv
<1>3. RowsOK(tuples, n) /\ OneVector(tuples)  BY DEF TablesInv, DatabaseOK
<1>4. /\ \A t \in rs : Lawful(t, m)
      /\ RowsOK(rs, m) /\ OneVector(rs) /\ Names(rs) \subseteq Names(tuples)
      /\ n > 2 => Migrates(tuples, rs)
      /\ n = 2 => tuples \cap ScenarioRows \subseteq rs /\ \A t \in rs : TableOf(t) # "memories"
      /\ n = 1 => rs = {}
  BY <1>2, <1>3, DowngradeOK
<1>5. DropsInOrder(n)  BY <1>2, TablesDroppedInOrder
<1>6. revision' = m /\ tuples' = rs /\ refused' = "nothing" /\ items' = IF n = 2 THEN Unloaded ELSE items
  BY <1>1, <1>4, <1>5
<1>7. loads' \in 0..MaxLoads /\ moves' \in 0..MaxMoves
  BY <1>1, TableBoundsAssumption DEF TablesInv
<1>8. run'.present # TRUE  BY <1>1, UnloadedOK
<1> HIDE DEF rs
<1>9. CASE n > 2
  <2>1. items' = items /\ m >= 2 /\ m \in 0..6  BY <1>2, <1>6, <1>9
  <2> HIDE DEF m
  <2>2. TablesInv'  BY <1>1, <1>4, <1>6, <1>7, <1>8, <1>9, <2>1, MovedInv
  <2> QED  BY <1>2, <1>6, <2>2
<1>10. CASE n = 2
  <2>1. items' = Unloaded /\ RunOK(Unloaded) /\ Unloaded.present = FALSE
    BY <1>6, <1>10, UnloadedOK
  <2>2. ItemsKept(rs, Unloaded, m)  BY <1>4, <1>10, <2>1 DEF ItemsKept
  <2>3. Chapter \in Names(rs) => ScenarioRows \subseteq rs
    BY <1>4, <1>10 DEF TablesInv, DatabaseOK
  <2>4. m \in 0..6  BY <1>2
  <2> QED  BY <1>1, <1>2, <1>4, <1>6, <1>7, <1>8, <2>1, <2>2, <2>3, <2>4 DEF TablesInv, DatabaseOK
<1>11. CASE n = 1
  <2>1. rs = {} /\ Names(rs) = {}
    <3>1. rs = {}  BY ONLY <1>4, <1>11
    <3>2. Names({}) = {}  BY DEF Names
    <3> QED  BY <3>1, <3>2
  <2>2. items' = items  BY <1>6, <1>11
  <2>3. items.present # TRUE
    <3>1. items.present = TRUE => revision >= 2  BY DEF TablesInv, DatabaseOK, ItemsKept
    <3>2. ~(revision >= 2)  BY <1>11
    <3> QED  BY <3>1, <3>2, Zenon
  <2>4. ItemsKept(rs, items, m)  BY <2>1, <2>3 DEF ItemsKept
  <2>5. m \in 0..6  BY <1>2
  <2>6. RunOK(items) /\ RunOK(Unloaded)  BY UnloadedOK DEF TablesInv, DatabaseOK
  <2> QED  BY <1>1, <1>2, <1>4, <1>6, <1>7, <1>8, <2>1, <2>2, <2>4, <2>5, <2>6 DEF TablesInv, DatabaseOK
<1> QED  BY <1>2, <1>9, <1>10, <1>11

LEMMA DeleteRunInv ==
  ASSUME TablesInv, DeleteRun
  PROVE  TablesInv' /\ refused' = "nothing" /\ moves' # moves
<1> DEFINE done == DeletedRows([rows |-> tuples, ok |-> TRUE], {t \in tuples : t.name = Chapter})
           rs == {t \in tuples : TableOf(t) \in ScenarioTables}
<1>1. /\ revision = 6 /\ moves < MaxMoves /\ run' = Unloaded
      /\ done.ok = TRUE => tuples' = done.rows /\ items' = Unloaded /\ refused' = "nothing"
      /\ moves' = moves + 1 /\ UNCHANGED <<revision, loads>>
  BY DEF DeleteRun
<1>2. RowsOK(tuples, 6) /\ OneVector(tuples)  BY <1>1 DEF TablesInv, DatabaseOK
<1>3. done.rows = rs /\ done.ok = TRUE  BY <1>2, DeletedRun
<1>4. RowsOK(rs, 6)  BY <1>2, ScenarioWhole
<1>5. OneVector(rs)  BY <1>2 DEF OneVector
<1>6. \A t \in rs : t.name # Chapter /\ TableOf(t) # "memories"
  BY DEF Chapter, TableOf, ScenarioTables
<1> HIDE DEF rs, done
<1>7. tuples' = rs /\ items' = Unloaded /\ refused' = "nothing"  BY <1>1, <1>3
<1>8. loads' \in 0..MaxLoads /\ moves' \in 0..MaxMoves /\ moves' # moves
  BY <1>1, TableBoundsAssumption DEF TablesInv
<1>9. RunOK(Unloaded) /\ Unloaded.present = FALSE  BY UnloadedOK
<1>10. ItemsKept(rs, Unloaded, 6)  BY <1>6, <1>9 DEF ItemsKept
<1>11. Chapter \notin Names(rs)  BY <1>6 DEF Names
<1> QED  BY <1>1, <1>4, <1>5, <1>7, <1>8, <1>9, <1>10, <1>11 DEF TablesInv, DatabaseOK

LEMMA TablesInitInv ==
  ASSUME TablesInit
  PROVE  TablesInv
<1>1. run = Unloaded /\ refused = "nothing" /\ loads = 0 /\ moves = 0  BY DEF TablesInit
<1>2. RunOK(Unloaded) /\ Unloaded.present = FALSE  BY UnloadedOK
<1>3. 0 \in 0..MaxLoads /\ 0 \in 0..MaxMoves  BY TableBoundsAssumption
<1>4. CASE revision = 0 /\ tuples = {} /\ items = Unloaded
  <2>1. RowsOK({}, 0) /\ OneVector({}) /\ Names({}) = {}  BY DEF RowsOK, OneVector, Names
  <2>2. ItemsKept({}, Unloaded, 0)  BY <1>2 DEF ItemsKept
  <2> QED  BY <1>1, <1>2, <1>3, <1>4, <2>1, <2>2 DEF TablesInv, DatabaseOK
<1>5. ASSUME NEW status \in {"active", "completed", "departed"}, revision = 5,
             items = FirstRun(status), tuples = AddedRows(items, ScenarioRows).rows
      PROVE  TablesInv
  <2>1. /\ RowsOK(tuples, 5) /\ ScenarioRows \subseteq tuples
        /\ \A t \in tuples : TableOf(t) \notin {"memories", "conversations", "command_records"}
    BY <1>5, FirstRowsOK
  <2>2. RunOK(items)  BY <1>5, FirstRunOK DEF AllStatuses, GoalStatuses
  <2>3. items.memories = {}  BY <1>5, FirstRunHas
  <2>4. ItemsKept(tuples, items, 5)  BY <2>1, <2>3 DEF ItemsKept
  <2>5. OneVector(tuples)  BY <2>1 DEF OneVector
  <2> QED  BY <1>1, <1>2, <1>3, <1>5, <2>1, <2>2, <2>4, <2>5 DEF TablesInv, DatabaseOK
<1>6. CASE \E status \in {"active", "completed", "departed"} :
            /\ revision = 5 /\ items = [FreshRun EXCEPT !.goals[1].status = status]
            /\ tuples = AddedRows(items, ScenarioRows).rows
  <2>1. PICK status \in {"active", "completed", "departed"} :
            /\ revision = 5 /\ items = [FreshRun EXCEPT !.goals[1].status = status]
            /\ tuples = AddedRows(items, ScenarioRows).rows
    BY <1>6
  <2>2. items = FirstRun(status)  BY <2>1 DEF FirstRun
  <2> QED  BY <1>5, <2>1, <2>2
<1> QED  BY <1>4, <1>6 DEF TablesInit

-----------------------------------------------------------------------------
(* The rows a save leaves                                                    *)

LEMMA ReplacedIs ==
  ASSUME NEW done, NEW deletes, NEW inserts, NEW r, NEW stored, Closed(deletes)
  PROVE  LET kept == {t \in done.rows : TableOf(t) \notin ToSet(deletes)}
             new  == NewRows(inserts, r, stored)
         IN /\ Replaced(done, deletes, inserts, r, stored).rows = kept \cup new
            /\ done.ok = TRUE /\ DeletesInOrder(done.rows, deletes) /\ InsertsInOrder(kept, new, inserts, r)
                 => Replaced(done, deletes, inserts, r, stored).ok = TRUE
<1> DEFINE dead == {t \in done.rows : TableOf(t) \in ToSet(deletes)}
           kept == {t \in done.rows : TableOf(t) \notin ToSet(deletes)}
<1>1. DeletedRows(done, dead).rows = kept  BY DeletedTables
<1> QED  BY <1>1 DEF Replaced

LEMMA MergedIs ==
  ASSUME NEW done, NEW inserts, NEW r, NEW stored
  PROVE  LET new == {t \in NewRows(inserts, r, stored) : t.name \notin Names(done.rows)}
         IN /\ Merged(done, inserts, r, stored).rows = done.rows \cup new
            /\ done.ok = TRUE /\ InsertsInOrder(done.rows, new, inserts, r)
                 => Merged(done, inserts, r, stored).ok = TRUE
  BY DEF Merged

LEMMA ReplacedRow ==
  ASSUME NEW done, NEW deletes, NEW inserts, NEW r, NEW stored, Closed(deletes)
  PROVE  \A t : t \in Replaced(done, deletes, inserts, r, stored).rows <=>
           (t \in done.rows /\ TableOf(t) \notin ToSet(deletes)) \/ t \in NewRows(inserts, r, stored)
<1> DEFINE dead == {t \in done.rows : TableOf(t) \in ToSet(deletes)}
           kept == {t \in done.rows : TableOf(t) \notin ToSet(deletes)}
<1>1. DeletedRows(done, dead).rows = kept  BY DeletedTables
<1>2. Replaced(done, deletes, inserts, r, stored).rows = kept \cup NewRows(inserts, r, stored)
  BY <1>1 DEF Replaced
<1> QED  BY ONLY <1>2

LEMMA MergedRow ==
  ASSUME NEW done, NEW inserts, NEW r, NEW stored, NEW t
  PROVE  t \in Merged(done, inserts, r, stored).rows <=>
           t \in done.rows \/ (t \in NewRows(inserts, r, stored) /\ t.name \notin Names(done.rows))
<1> DEFINE new == {u \in NewRows(inserts, r, stored) : u.name \notin Names(done.rows)}
<1>1. Merged(done, inserts, r, stored).rows = done.rows \cup new  BY MergedIs
<1> QED  BY ONLY <1>1

\* A row of another table than those a part deletes and inserts is where it was.
LEMMA RowsOfTable ==
  ASSUME NEW inserts, NEW r, NEW stored, NEW x
  PROVE  /\ \A t \in NewRows(inserts, r, stored) :
              TableOf(t) = x => x \in ToSet(inserts) /\ t \in RowsOf(x, r, stored)
         /\ x \in ToSet(inserts) => RowsOf(x, r, stored) \subseteq NewRows(inserts, r, stored)
<1>1. \A t \in NewRows(inserts, r, stored) : TableOf(t) = x => x \in ToSet(inserts) /\ t \in RowsOf(x, r, stored)
  BY NewRowsOK
<1> QED  BY <1>1 DEF NewRows

\* The rows before each part of a save, and after it.
SaveRows(r, stored) ==
    [first |-> SaveFirst(r, stored).rows, unseen |-> SaveUnseen(r, stored).rows,
     told |-> SaveTold(r, stored).rows, whole |-> SaveWhole(r, stored).rows,
     events |-> SaveEvents(r, stored).rows, saved |-> SavedRows(r, stored).rows]

SaveListSets ==
    /\ \A x : x \in ToSet(Direct) <=> x \in {"run_actor_states", "run_daily_schedules", "run_state_items"}
    /\ \A x : x \in ToSet(<<"world_event_observers">>) <=> x = "world_event_observers"
    /\ \A x : x \in ToSet(<<"world_events", "world_event_observers">>) <=>
                x \in {"world_events", "world_event_observers"}
    /\ \A x : x \in ToSet(<<"run_events">>) <=> x = "run_events"
    /\ \A x : x \in ToSet(<<"command_records">>) <=> x = "command_records"
    /\ \A x : x \notin ToSet(<<>>)

LEMMA SaveLists == SaveListSets
<1>1. \A x : x \in ToSet(Direct) <=> x \in {"run_actor_states", "run_daily_schedules", "run_state_items"}
  BY DEF ToSet, Direct
<1>2. \A x : x \in ToSet(<<"world_event_observers">>) <=> x = "world_event_observers"  BY DEF ToSet
<1>3. \A x : x \in ToSet(<<"world_events", "world_event_observers">>) <=>
                x \in {"world_events", "world_event_observers"}
  BY DEF ToSet
<1>4. \A x : x \in ToSet(<<"run_events">>) <=> x = "run_events"  BY DEF ToSet
<1>5. \A x : x \in ToSet(<<"command_records">>) <=> x = "command_records"  BY DEF ToSet
<1>6. \A x : x \notin ToSet(<<>>)  BY DEF ToSet
<1> QED  BY <1>1, <1>2, <1>3, <1>4, <1>5, <1>6 DEF SaveListSets

\* What a row's table says of the part of a save it is from.
Firsts == {"run_actor_states", "run_daily_schedules", "run_state_items"}
Wholes ==
    {"chapter_resolutions", "chapter_agenda_stances", "chapter_authorizations",
     "chapter_actor_stances", "memory_edges", "memory_goal_links", "memory_topic_links",
     "memory_actor_links", "memory_evidence_messages", "consolidations", "conversation_drafts",
     "join_request_approvers", "join_requests", "invitations", "memories", "relationships", "goals",
     "conversation_idle_states", "messages", "segment_participants", "conversation_segments",
     "conversation_participants", "conversations"}

LEMMA WholesAre == \A x : (x \in ToSet(DeleteOrder) <=> x \in Wholes) /\ (x \in ToSet(InsertOrder) <=> x \in Wholes)
  BY DeleteOrderHas, InsertOrderHas DEF Wholes

LEMMA SaveParts ==
  ASSUME NEW r, NEW stored
  PROVE  LET all == SaveRows(r, stored) IN
         \A t :
         /\ t \in all.first <=> \/ t \in stored /\ TableOf(t) \notin Firsts
                                \/ TableOf(t) \in Firsts /\ t \in RowsOf(TableOf(t), r, stored)
         /\ t \in all.unseen <=> t \in all.first /\ TableOf(t) # "world_event_observers"
         /\ t \in all.told <=> \/ t \in all.unseen
                               \/ /\ TableOf(t) \in {"world_events", "world_event_observers"}
                                  /\ t \in RowsOf(TableOf(t), r, stored) /\ t.name \notin Names(all.unseen)
         /\ t \in all.whole <=> \/ t \in all.told /\ TableOf(t) \notin Wholes
                                \/ TableOf(t) \in Wholes /\ t \in RowsOf(TableOf(t), r, stored)
         /\ t \in all.events <=> \/ t \in all.whole
                                 \/ /\ TableOf(t) = "run_events"
                                    /\ t \in RowsOf(TableOf(t), r, stored) /\ t.name \notin Names(all.whole)
         /\ t \in all.saved <=> \/ t \in all.events /\ TableOf(t) # "command_records"
                                \/ TableOf(t) = "command_records" /\ t \in RowsOf(TableOf(t), r, stored)
<1> DEFINE all == SaveRows(r, stored)
<1>1. /\ all.first = SaveFirst(r, stored).rows /\ all.unseen = SaveUnseen(r, stored).rows
      /\ all.told = SaveTold(r, stored).rows /\ all.whole = SaveWhole(r, stored).rows
      /\ all.events = SaveEvents(r, stored).rows /\ all.saved = SavedRows(r, stored).rows
  BY DEF SaveRows
<1> HIDE DEF all
<1>2. ASSUME NEW inserts, NEW t
      PROVE  t \in NewRows(inserts, r, stored) <=>
               TableOf(t) \in ToSet(inserts) /\ t \in RowsOf(TableOf(t), r, stored)
  BY RowsOfTable
<1>3. ASSUME NEW t
      PROVE  t \in all.first <=> \/ t \in stored /\ TableOf(t) \notin Firsts
                                 \/ TableOf(t) \in Firsts /\ t \in RowsOf(TableOf(t), r, stored)
  <2> DEFINE done == [rows |-> stored, ok |-> TRUE]
  <2>1. done.rows = stored  OBVIOUS
  <2>2. SaveFirst(r, stored) = Replaced(done, Direct, Direct, r, stored)  BY DEF SaveFirst
  <2> HIDE DEF done
  <2>3. t \in all.first <=>
          (t \in stored /\ TableOf(t) \notin ToSet(Direct)) \/ t \in NewRows(Direct, r, stored)
    BY <1>1, <2>1, <2>2, ReplacedRow, SaveListsClosed
  <2> QED  BY <1>2, <2>3, SaveLists DEF SaveListSets, Firsts
<1>4. ASSUME NEW t
      PROVE  t \in all.unseen <=> t \in all.first /\ TableOf(t) # "world_event_observers"
  <2> DEFINE s == <<"world_event_observers">>
             e == <<>>
  <2>1. SaveUnseen(r, stored) = Replaced(SaveFirst(r, stored), s, e, r, stored) /\ Closed(s)
    BY SaveListsClosed DEF SaveUnseen
  <2>2. \A x : (x \in ToSet(s) <=> x = "world_event_observers") /\ x \notin ToSet(e)
    BY SaveLists DEF SaveListSets
  <2> HIDE DEF s, e
  <2>3. t \in all.unseen <=> (t \in all.first /\ TableOf(t) \notin ToSet(s)) \/ t \in NewRows(e, r, stored)
    BY <1>1, <2>1, ReplacedRow
  <2> QED  BY <1>2, <2>2, <2>3
<1>5. ASSUME NEW t
      PROVE  t \in all.told <=> \/ t \in all.unseen
                                \/ /\ TableOf(t) \in {"world_events", "world_event_observers"}
                                   /\ t \in RowsOf(TableOf(t), r, stored) /\ t.name \notin Names(all.unseen)
  <2> DEFINE s == <<"world_events", "world_event_observers">>
  <2>1. SaveTold(r, stored) = Merged(SaveUnseen(r, stored), s, r, stored)  BY DEF SaveTold
  <2>2. \A x : x \in ToSet(s) <=> x \in {"world_events", "world_event_observers"}
    BY SaveLists DEF SaveListSets
  <2> HIDE DEF s
  <2>3. t \in all.told <=>
          t \in all.unseen \/ (t \in NewRows(s, r, stored) /\ t.name \notin Names(all.unseen))
    BY <1>1, <2>1, MergedRow
  <2> QED  BY <1>2, <2>2, <2>3
<1>6. ASSUME NEW t
      PROVE  t \in all.whole <=> \/ t \in all.told /\ TableOf(t) \notin Wholes
                                 \/ TableOf(t) \in Wholes /\ t \in RowsOf(TableOf(t), r, stored)
  <2>1. t \in all.whole <=> \/ t \in all.told /\ TableOf(t) \notin ToSet(DeleteOrder)
                            \/ t \in NewRows(InsertOrder, r, stored)
    BY <1>1, ReplacedRow, SaveListsClosed DEF SaveWhole
  <2> QED  BY <1>2, <2>1, WholesAre
<1>7. ASSUME NEW t
      PROVE  t \in all.events <=> \/ t \in all.whole
                                  \/ /\ TableOf(t) = "run_events"
                                     /\ t \in RowsOf(TableOf(t), r, stored) /\ t.name \notin Names(all.whole)
  <2> DEFINE s == <<"run_events">>
  <2>1. SaveEvents(r, stored) = Merged(SaveWhole(r, stored), s, r, stored)  BY DEF SaveEvents
  <2>2. \A x : x \in ToSet(s) <=> x = "run_events"  BY SaveLists DEF SaveListSets
  <2> HIDE DEF s
  <2>3. t \in all.events <=>
          t \in all.whole \/ (t \in NewRows(s, r, stored) /\ t.name \notin Names(all.whole))
    BY <1>1, <2>1, MergedRow
  <2> QED  BY <1>2, <2>2, <2>3
<1>8. ASSUME NEW t
      PROVE  t \in all.saved <=> \/ t \in all.events /\ TableOf(t) # "command_records"
                                 \/ TableOf(t) = "command_records" /\ t \in RowsOf(TableOf(t), r, stored)
  <2> DEFINE s == <<"command_records">>
  <2>1. SavedRows(r, stored) = Replaced(SaveEvents(r, stored), s, s, r, stored) /\ Closed(s)
    BY SaveListsClosed, SavedRowsAre
  <2>2. \A x : x \in ToSet(s) <=> x = "command_records"  BY SaveLists DEF SaveListSets
  <2> HIDE DEF s
  <2>3. t \in all.saved <=> (t \in all.events /\ TableOf(t) \notin ToSet(s)) \/ t \in NewRows(s, r, stored)
    BY <1>1, <2>1, ReplacedRow
  <2> QED  BY <1>2, <2>2, <2>3
<1> QED  BY <1>3, <1>4, <1>5, <1>6, <1>7, <1>8 DEF all

LEMMA MemoryRows ==
  ASSUME NEW r, NEW stored
  PROVE  /\ \A t \in RowsOf("memories", r, stored) :
              /\ t.name = <<"memories", t.name[2]>> /\ t.name[2] \in MemoryIds(r)
              /\ t.status = VectorOf(t.name[2], stored)
         /\ \A x \in MemoryIds(r) : \E t \in RowsOf("memories", r, stored) : t.name = <<"memories", x>>
<1> DEFINE refs(m) == {Chapter, Npc} \cup (IF m.said = {} THEN {<<"world_events", "event">>}
                                          ELSE {<<"conversations", s[1]>> : s \in m.said})
           row(e) == [Row("memories", e[1], e[2]) EXCEPT !.status = VectorOf(e[1], stored)]
<1>1. EntriesOf("memories", r) = {<<m.memory, refs(m)>> : m \in r.memories}
  <2>1. MemoryEntries("memories", r) = {<<m.memory, refs(m)>> : m \in r.memories}  BY DEF MemoryEntries
  <2>2. /\ StateEntries("memories", r) = {} /\ HistoryEntries("memories", r) = {}
        /\ TalkEntries("memories", r) = {} /\ LinkEntries("memories", r) = {}
        /\ RequestEntries("memories", r) = {} /\ ChapterEntries("memories", r) = {}
    BY DEF StateEntries, HistoryEntries, TalkEntries, LinkEntries, RequestEntries, ChapterEntries
  <2> HIDE DEF refs
  <2> QED  BY <2>1, <2>2 DEF EntriesOf
<1>2. RowsOf("memories", r, stored) = {row(e) : e \in EntriesOf("memories", r)}  BY DEF RowsOf
<1>3. ASSUME NEW e PROVE row(e).name = <<"memories", e[1]>> /\ row(e).status = VectorOf(e[1], stored)
  BY DEF Row
<1> HIDE DEF refs, row
<1>4. ASSUME NEW t \in RowsOf("memories", r, stored)
      PROVE  /\ t.name = <<"memories", t.name[2]>> /\ t.name[2] \in MemoryIds(r)
             /\ t.status = VectorOf(t.name[2], stored)
  <2>1. PICK e \in EntriesOf("memories", r) : t = row(e)  BY <1>2
  <2>2. PICK m \in r.memories : e = <<m.memory, refs(m)>>  BY <1>1
  <2>3. e[1] = m.memory  BY <2>2
  <2>4. t.name = <<"memories", m.memory>> /\ t.status = VectorOf(m.memory, stored)
    BY <1>3, <2>1, <2>3
  <2>5. t.name[2] = m.memory  BY <2>4
  <2> QED  BY <2>4, <2>5 DEF MemoryIds
<1>5. ASSUME NEW x \in MemoryIds(r)
      PROVE  \E t \in RowsOf("memories", r, stored) : t.name = <<"memories", x>>
  <2>1. PICK m \in r.memories : x = m.memory  BY DEF MemoryIds
  <2> DEFINE e == <<m.memory, refs(m)>>
  <2>2. e \in EntriesOf("memories", r) /\ e[1] = x  BY <1>1, <2>1
  <2> HIDE DEF e
  <2>3. row(e) \in RowsOf("memories", r, stored) /\ row(e).name = <<"memories", x>>  BY <1>2, <1>3, <2>2
  <2> QED  BY <2>3
<1> QED  BY <1>4, <1>5

LEMMA CommandRows ==
  ASSUME NEW r, NEW stored, NEW t
  PROVE  t \in RowsOf("command_records", r, stored) <=>
           \E n \in r.commands : t = Row("command_records", n, {Chapter})
<1> DEFINE refs == {Chapter}
<1>1. \A e : e \in EntriesOf("command_records", r) <=> \E n \in r.commands : e = <<n, refs>>
  <2>1. HistoryEntries("command_records", r) = {<<n, refs>> : n \in r.commands}
    BY DEF HistoryEntries
  <2>2. /\ StateEntries("command_records", r) = {} /\ MemoryEntries("command_records", r) = {}
        /\ TalkEntries("command_records", r) = {} /\ LinkEntries("command_records", r) = {}
        /\ RequestEntries("command_records", r) = {} /\ ChapterEntries("command_records", r) = {}
    BY DEF StateEntries, MemoryEntries, TalkEntries, LinkEntries, RequestEntries, ChapterEntries
  <2> HIDE DEF refs
  <2> QED  BY <2>1, <2>2 DEF EntriesOf
<1> HIDE DEF refs
<1>2. t \in RowsOf("command_records", r, stored) <=>
        \E e \in EntriesOf("command_records", r) : t = Row("command_records", e[1], e[2])
  BY DEF RowsOf
<1>3. \A n : <<n, refs>>[1] = n /\ <<n, refs>>[2] = refs  OBVIOUS
<1>4. ASSUME t \in RowsOf("command_records", r, stored)
      PROVE  \E n \in r.commands : t = Row("command_records", n, refs)
  <2>1. PICK e \in EntriesOf("command_records", r) : t = Row("command_records", e[1], e[2])
    BY <1>2, <1>4
  <2>2. PICK n \in r.commands : e = <<n, refs>>  BY <1>1
  <2>3. e[1] = n /\ e[2] = refs  BY <2>2
  <2> QED  BY <2>1, <2>3
<1>5. ASSUME NEW n \in r.commands, t = Row("command_records", n, refs)
      PROVE  t \in RowsOf("command_records", r, stored)
  <2> DEFINE e == <<n, refs>>
  <2>1. e \in EntriesOf("command_records", r) /\ e[1] = n /\ e[2] = refs  BY <1>1
  <2> HIDE DEF e
  <2>2. t = Row("command_records", e[1], e[2])  BY <1>5, <2>1
  <2> QED  BY <1>2, <2>1, <2>2
<1> QED  BY <1>4, <1>5 DEF refs

LEMMA EventRow ==
  ASSUME NEW r, NEW stored, r.event = TRUE
  PROVE  Row("world_events", "event", {Chapter}) \in RowsOf("world_events", r, stored)
<1> DEFINE e == <<"event", {Chapter}>>
<1>1. e \in HistoryEntries("world_events", r)  BY DEF HistoryEntries
<1>2. e[1] = "event" /\ e[2] = {Chapter}  OBVIOUS
<1> HIDE DEF e
<1>3. Row("world_events", e[1], e[2]) \in RowsOf("world_events", r, stored)
  BY <1>1 DEF RowsOf, EntriesOf
<1> QED  BY <1>2, <1>3, Zenon

LEMMA SavedTable ==
  ASSUME NEW r, NEW stored, NEW rs, rs = SavedRows(r, stored).rows, NEW t,
         TableOf(t) \in {"memories", "command_records"}
  PROVE  t \in rs <=> t \in RowsOf(TableOf(t), r, stored)
<1> DEFINE all == SaveRows(r, stored)
<1>1. rs = all.saved  BY DEF SaveRows
<1>2. \A v :
        /\ v \in all.first <=> \/ v \in stored /\ TableOf(v) \notin Firsts
                               \/ TableOf(v) \in Firsts /\ v \in RowsOf(TableOf(v), r, stored)
        /\ v \in all.unseen <=> v \in all.first /\ TableOf(v) # "world_event_observers"
        /\ v \in all.told <=> \/ v \in all.unseen
                              \/ /\ TableOf(v) \in {"world_events", "world_event_observers"}
                                 /\ v \in RowsOf(TableOf(v), r, stored) /\ v.name \notin Names(all.unseen)
        /\ v \in all.whole <=> \/ v \in all.told /\ TableOf(v) \notin Wholes
                               \/ TableOf(v) \in Wholes /\ v \in RowsOf(TableOf(v), r, stored)
        /\ v \in all.events <=> \/ v \in all.whole
                                \/ /\ TableOf(v) = "run_events"
                                   /\ v \in RowsOf(TableOf(v), r, stored) /\ v.name \notin Names(all.whole)
        /\ v \in all.saved <=> \/ v \in all.events /\ TableOf(v) # "command_records"
                               \/ TableOf(v) = "command_records" /\ v \in RowsOf(TableOf(v), r, stored)
  BY SaveParts
<1> HIDE DEF all
<1>3. ASSUME TableOf(t) = "memories" PROVE t \in rs <=> t \in RowsOf("memories", r, stored)
  <2>1. "memories" \in Wholes /\ "memories" # "run_events" /\ "memories" # "command_records"
    BY DEF Wholes
  <2> QED  BY <1>1, <1>2, <1>3, <2>1
<1>4. ASSUME TableOf(t) = "command_records"
      PROVE  t \in rs <=> t \in RowsOf("command_records", r, stored)
  BY <1>1, <1>2, <1>4
<1> QED  BY <1>3, <1>4

LEMMA SavedOthers ==
  ASSUME NEW r, NEW stored, NEW rs, rs = SavedRows(r, stored).rows, NEW t,
         TableOf(t) \in ScenarioTables \cup {"chapter_runs", "world_events"},
         t \in stored \/ t \in SaveRows(r, stored).told
  PROVE  t \in rs
<1> DEFINE all == SaveRows(r, stored)
<1>1. rs = all.saved  BY DEF SaveRows
<1>2. \A v :
        /\ v \in all.first <=> \/ v \in stored /\ TableOf(v) \notin Firsts
                               \/ TableOf(v) \in Firsts /\ v \in RowsOf(TableOf(v), r, stored)
        /\ v \in all.unseen <=> v \in all.first /\ TableOf(v) # "world_event_observers"
        /\ v \in all.told <=> \/ v \in all.unseen
                              \/ /\ TableOf(v) \in {"world_events", "world_event_observers"}
                                 /\ v \in RowsOf(TableOf(v), r, stored) /\ v.name \notin Names(all.unseen)
        /\ v \in all.whole <=> \/ v \in all.told /\ TableOf(v) \notin Wholes
                               \/ TableOf(v) \in Wholes /\ v \in RowsOf(TableOf(v), r, stored)
        /\ v \in all.events <=> \/ v \in all.whole
                                \/ /\ TableOf(v) = "run_events"
                                   /\ v \in RowsOf(TableOf(v), r, stored) /\ v.name \notin Names(all.whole)
        /\ v \in all.saved <=> \/ v \in all.events /\ TableOf(v) # "command_records"
                               \/ TableOf(v) = "command_records" /\ v \in RowsOf(TableOf(v), r, stored)
  BY SaveParts
<1> HIDE DEF all
<1>5. ASSUME t \in all.told
      PROVE  t \in rs
  <2>1. TableOf(t) \notin Wholes /\ TableOf(t) # "command_records"  BY <1>5 DEF Wholes, ScenarioTables
  <2> QED  BY <1>1, <1>2, <1>5, <2>1
<1>6. ASSUME t \in stored
      PROVE  t \in rs
  <2>1. TableOf(t) \notin Firsts /\ TableOf(t) # "world_event_observers"
    BY DEF Firsts, ScenarioTables
  <2>2. t \in all.told  BY <1>2, <1>6, <2>1
  <2> QED  BY <1>5, <1>6, <2>2
<1> QED  BY <1>5, <1>6 DEF all

LEMMA SavedEvent ==
  ASSUME NEW r, NEW stored, NEW rs, rs = SavedRows(r, stored).rows, r.event = TRUE
  PROVE  Event \in Names(rs)
<1> DEFINE all == SaveRows(r, stored)
<1>1. rs = all.saved  BY DEF SaveRows
<1>2. \A v :
        /\ v \in all.first <=> \/ v \in stored /\ TableOf(v) \notin Firsts
                               \/ TableOf(v) \in Firsts /\ v \in RowsOf(TableOf(v), r, stored)
        /\ v \in all.unseen <=> v \in all.first /\ TableOf(v) # "world_event_observers"
        /\ v \in all.told <=> \/ v \in all.unseen
                              \/ /\ TableOf(v) \in {"world_events", "world_event_observers"}
                                 /\ v \in RowsOf(TableOf(v), r, stored) /\ v.name \notin Names(all.unseen)
        /\ v \in all.whole <=> \/ v \in all.told /\ TableOf(v) \notin Wholes
                               \/ TableOf(v) \in Wholes /\ v \in RowsOf(TableOf(v), r, stored)
        /\ v \in all.events <=> \/ v \in all.whole
                                \/ /\ TableOf(v) = "run_events"
                                   /\ v \in RowsOf(TableOf(v), r, stored) /\ v.name \notin Names(all.whole)
        /\ v \in all.saved <=> \/ v \in all.events /\ TableOf(v) # "command_records"
                               \/ TableOf(v) = "command_records" /\ v \in RowsOf(TableOf(v), r, stored)
  BY SaveParts
<1> HIDE DEF all
<1>3. ASSUME NEW t, TableOf(t) = "world_events", t \in all.told PROVE t \in rs
  BY <1>3, SavedOthers DEF all
<1>7. Event \in Names(rs)
  <2> DEFINE t == Row("world_events", "event", {Chapter})
  <2>1. t \in RowsOf("world_events", r, stored) /\ TableOf(t) = "world_events" /\ t.name = Event
    BY EventRow DEF Row, TableOf, Event
  <2> HIDE DEF t
  <2>2. \E u \in all.told : u.name = Event
    <3>1. CASE Event \in Names(all.unseen)  BY <1>2, <3>1 DEF Names
    <3>2. CASE Event \notin Names(all.unseen)  BY <1>2, <2>1, <3>2
    <3> QED  BY <3>1, <3>2
  <2>3. PICK u \in all.told : u.name = Event  BY <2>2
  <2>4. TableOf(u) = "world_events"  BY <2>3 DEF TableOf, Event
  <2>5. u \in rs  BY <1>3, <2>3, <2>4
  <2> QED  BY <2>3, <2>5 DEF Names
<1> QED  BY <1>7

\* A row that no save can compute again has a successor.
Lasting(t) == TableOf(t) = "command_records" \/ t.status = Vector(6)
Outlives(rs, after) ==
    \A t \in rs : Lasting(t) => \E u \in after : u.name = t.name /\ u.status = t.status

LEMMA LastingIs ==
  ASSUME NEW rs, RowsOK(rs, 6), NEW t \in rs, Lasting(t)
  PROVE  /\ t.name = <<TableOf(t), t.name[2]>>
         /\ \/ TableOf(t) = "command_records" /\ t.status = "none"
            \/ TableOf(t) = "memories" /\ t.status # "none"
<1>1. RowOK(t) /\ Lawful(t, 6)  BY DEF RowsOK
<1>2. t.name = <<TableOf(t), t.name[2]>>  BY <1>1 DEF RowOK, TableOf
<1>3. TableOf(t) \in {"goals", "memories"} \/ t.status = "none"  BY <1>1 DEF RowOK
<1>4. CASE TableOf(t) = "command_records"  BY <1>2, <1>3, <1>4
<1>5. CASE t.status = Vector(6)
  <2>1. t.status = "2048"  BY <1>5 DEF Vector
  <2>2. TableOf(t) # "goals"  BY <1>1, <2>1 DEF Lawful, GoalStatuses
  <2> QED  BY <1>2, <1>3, <2>1, <2>2
<1> QED  BY <1>4, <1>5 DEF Lasting

LEMMA VectorKept ==
  ASSUME NEW stored, OneVector(stored), NEW t \in stored, TableOf(t) = "memories",
         t.name = <<"memories", t.name[2]>>
  PROVE  VectorOf(t.name[2], stored) = t.status
<1> DEFINE known == {x \in stored : x.name = <<"memories", t.name[2]>>}
<1>1. t \in known  OBVIOUS
<1>2. (CHOOSE x \in known : TRUE) \in known  BY <1>1
<1>3. \A x \in known : x.status = t.status  BY DEF OneVector
<1>4. known # {} /\ (CHOOSE x \in known : TRUE).status = t.status  BY <1>1, <1>2, <1>3
<1> QED  BY <1>4 DEF VectorOf

LEMMA IndexedOutlives ==
  ASSUME NEW rs, RowsOK(rs, 6), NEW memories
  PROVE  Outlives(rs, Indexed(rs, memories))
<1> DEFINE after == Indexed(rs, memories)
<1>1. ASSUME NEW t \in rs, Lasting(t)
      PROVE  \E u \in after : u.name = t.name /\ u.status = t.status
  <2>1. PICK u \in after : /\ Restated(u, t) /\ (TableOf(t) = "memories" \/ u = t)
                           /\ t.status # "none" => u = t
    BY IndexedRows
  <2>2. u = t  BY <1>1, <2>1, LastingIs
  <2> QED  BY <2>1, <2>2
<1> QED  BY <1>1 DEF Outlives

\* What a save leaves of the rows.
LEMMA SaveKeeps ==
  ASSUME NEW r, NEW stored, RowsOK(stored, 6), OneVector(stored), RunOK(r), RunAhead(stored, r),
         ScenarioRows \subseteq stored, r.present = TRUE, NEW rs, rs = SavedRows(r, stored).rows
  PROVE  /\ OneVector(rs) /\ ItemsKept(rs, r, 6) /\ RunAhead(rs, r) /\ ScenarioRows \subseteq rs
         /\ Outlives(stored, rs)
<1>1. /\ \A t : TableOf(t) \in {"memories", "command_records"} =>
                  (t \in rs <=> t \in RowsOf(TableOf(t), r, stored))
      /\ \A t \in stored : TableOf(t) \in ScenarioTables \cup {"chapter_runs", "world_events"} => t \in rs
      /\ r.event = TRUE => Event \in Names(rs)
  <2>1. \A t : TableOf(t) \in {"memories", "command_records"} =>
                  (t \in rs <=> t \in RowsOf(TableOf(t), r, stored))
    BY SavedTable
  <2>2. \A t \in stored :
          TableOf(t) \in ScenarioTables \cup {"chapter_runs", "world_events"} => t \in rs
    BY SavedOthers
  <2>3. r.event = TRUE => Event \in Names(rs)  BY SavedEvent
  <2> QED  BY <2>1, <2>2, <2>3
<1>2. \A t \in rs : TableOf(t) = "memories" =>
        t.name[2] \in MemoryIds(r) /\ t.status = VectorOf(t.name[2], stored)
  BY <1>1, MemoryRows
<1>3. OneVector(rs)  BY <1>2 DEF OneVector, TableOf
<1>4. ScenarioRows \subseteq rs  BY <1>1, ScenarioRowsOK DEF OfScenario
<1>5. Chapter \in Names(rs)
  <2>1. PICK t \in stored : t.name = Chapter  BY DEF RunAhead, Names
  <2>2. TableOf(t) = "chapter_runs"  BY <2>1 DEF TableOf, Chapter
  <2> QED  BY <1>1, <2>1, <2>2 DEF Names
<1>6. \A t \in rs : TableOf(t) = "command_records" => t.name[2] \in r.commands
  <2> SUFFICES ASSUME NEW t \in rs, TableOf(t) = "command_records" PROVE t.name[2] \in r.commands
    OBVIOUS
  <2>1. t \in RowsOf("command_records", r, stored)  BY <1>1
  <2>2. PICK n \in r.commands : t = Row("command_records", n, {Chapter})  BY <2>1, CommandRows
  <2> QED  BY <2>2 DEF Row
<1>7. (\E m \in r.memories : m.said = {}) => Event \in Names(rs)
  BY <1>1 DEF RunOK, MemoriesOK
<1>8. RunAhead(rs, r) /\ ItemsKept(rs, r, 6)  BY <1>2, <1>5, <1>6, <1>7 DEF RunAhead, ItemsKept
<1>9. ASSUME NEW t \in stored, Lasting(t)
      PROVE  \E u \in rs : u.name = t.name /\ u.status = t.status
  <2>1. t.name = <<TableOf(t), t.name[2]>>  BY <1>9, LastingIs
  <2>2. CASE TableOf(t) = "command_records" /\ t.status = "none"
    <3> DEFINE u == Row("command_records", t.name[2], {Chapter})
    <3>1. u.name = <<"command_records", t.name[2]>> /\ u.status = "none" /\ TableOf(u) = "command_records"
      BY DEF Row, TableOf
    <3>2. t.name[2] \in r.commands  BY <2>2 DEF RunAhead
    <3>3. u \in RowsOf("command_records", r, stored)  BY <3>2, CommandRows
    <3> HIDE DEF u
    <3> QED  BY <1>1, <2>1, <2>2, <3>1, <3>3
  <2>3. CASE TableOf(t) = "memories" /\ t.status # "none"
    <3>1. t.name[2] \in MemoryIds(r)  BY <2>3 DEF RunAhead
    <3>2. PICK u \in RowsOf("memories", r, stored) : u.name = <<"memories", t.name[2]>>
      BY <3>1, MemoryRows
    <3>3. u.name[2] = t.name[2] /\ TableOf(u) = "memories" /\ u.name = t.name
      BY <2>1, <2>3, <3>2 DEF TableOf
    <3>4. u.status = VectorOf(t.name[2], stored)  BY <3>3, MemoryRows
    <3>5. VectorOf(t.name[2], stored) = t.status  BY <2>1, <2>3, VectorKept
    <3> QED  BY <1>1, <3>3, <3>4, <3>5
  <2> QED  BY <1>9, <2>2, <2>3, LastingIs
<1> QED  BY <1>3, <1>4, <1>8, <1>9 DEF Outlives

LEMMA RestatedAhead ==
  ASSUME NEW rs, NEW after, NEW r, NEW n, Names(after) = Names(rs)
  PROVE  /\ RunAhead(rs, r) => RunAhead(after, r)
         /\ ItemsKept(rs, r, n) => ItemsKept(after, r, n)
<1>1. \A t \in after : \E u \in rs : u.name = t.name /\ TableOf(u) = TableOf(t)
  BY DEF Names, TableOf
<1> QED  BY <1>1 DEF RunAhead, ItemsKept

LEMMA SaveTablesInv ==
  ASSUME TablesInv, Save
  PROVE  /\ TablesInv' /\ Outlives(tuples, tuples')
         /\ refused' = "save" => ~(SavedRows(run, tuples).ok /\ ~run.ahead)
<1> DEFINE done == SavedRows(run, tuples)
           ahead == <<"run_storage_revisions", "run">> \notin Names(tuples)
<1>1. /\ revision = 6 /\ run.present
      /\ done.ok /\ ~run.ahead =>
           /\ run' = [run EXCEPT !.ahead = ahead] /\ items' = run /\ refused' = "nothing"
           /\ \E embedded \in {{}, StoredMemories(done.rows)} : tuples' = Indexed(done.rows, embedded)
      /\ ~(done.ok /\ ~run.ahead) => refused' = "save" /\ UNCHANGED <<tuples, run, items>>
      /\ UNCHANGED <<revision, loads, moves>>
  BY DEF Save
<1>2. run.present = TRUE /\ RunOK(run) /\ RunAhead(tuples, run)  BY <1>1 DEF TablesInv, RunOK
<1>3. /\ RowsOK(tuples, 6) /\ OneVector(tuples) /\ ScenarioRows \subseteq tuples
  BY <1>1, <1>2 DEF TablesInv, DatabaseOK, RunAhead
<1>4. CASE done.ok /\ ~run.ahead
  <2>1. PICK embedded : tuples' = Indexed(done.rows, embedded)  BY <1>1, <1>4
  <2>2. run' = [run EXCEPT !.ahead = ahead] /\ items' = run /\ refused' = "nothing"  BY <1>1, <1>4
  <2>3. RowsOK(done.rows, 6)  BY <1>3, <1>4, SavedRowsOK
  <2>4. /\ OneVector(done.rows) /\ ItemsKept(done.rows, run, 6) /\ RunAhead(done.rows, run)
        /\ ScenarioRows \subseteq done.rows /\ Outlives(tuples, done.rows)
    BY <1>2, <1>3, SaveKeeps
  <2> DEFINE rs == done.rows
  <2> HIDE DEF rs, done, ahead
  <2>5. tuples' = Indexed(rs, embedded)  BY <2>1 DEF rs
  <2>6. RowsOK(rs, 6) /\ OneVector(rs) /\ ItemsKept(rs, run, 6) /\ RunAhead(rs, run)
        /\ ScenarioRows \subseteq rs /\ Outlives(tuples, rs)
    BY <2>3, <2>4 DEF rs
  <2>7. RowsOK(tuples', 6) /\ Migrates(rs, tuples') /\ Names(tuples') = Names(rs)
    BY <2>5, <2>6, IndexedMigrates
  <2>8. OneVector(tuples') /\ ScenarioRows \subseteq tuples'  BY <2>6, <2>7 DEF Migrates
  <2>9. RunAhead(tuples', run) /\ ItemsKept(tuples', run, 6)  BY <2>6, <2>7, RestatedAhead
  <2>10. RunOK(run') /\ Grows(run, run')
    <3>1. run' = [run EXCEPT !.goals = run.goals, !.ended = run.ended, !.ahead = ahead]
      BY <1>2, <2>2 DEF RunOK
    <3>2. GoalsOK(run.goals) /\ IdsOf(run.goals) = GoalIds(run)  BY <1>2 DEF RunOK, IdsOf, GoalIds
    <3> QED  BY <1>2, <3>1, <3>2, GoalsRun
  <2>11. RunAhead(tuples', run')  BY <2>9, <2>10 DEF RunAhead, Grows
  <2>12. DatabaseOK(tuples, items, revision)'
    BY <1>1, <1>2, <2>2, <2>7, <2>8, <2>9 DEF DatabaseOK
  <2>13. Outlives(tuples, tuples')
    <3>1. Outlives(rs, tuples')  BY <2>5, <2>6, IndexedOutlives
    <3>2. \A t, u : u.name = t.name /\ u.status = t.status /\ Lasting(t) => Lasting(u)
      BY DEF Lasting, TableOf
    <3> QED  BY <2>6, <3>1, <3>2 DEF Outlives
  <2>14. TablesInv'  BY <1>1, <2>2, <2>10, <2>11, <2>12 DEF TablesInv
  <2>15. refused' # "save"  BY <2>2
  <2> QED  BY <2>13, <2>14, <2>15
<1>5. CASE ~(done.ok /\ ~run.ahead)
  <2>1. refused' = "save" /\ UNCHANGED <<tuples, run, items, revision, loads, moves>>  BY <1>1, <1>5
  <2> HIDE DEF done
  <2>2. TablesInv'  BY <2>1 DEF TablesInv
  <2>3. Outlives(tuples, tuples')  BY <2>1 DEF Outlives
  <2> QED  BY <1>5, <2>2, <2>3 DEF done
<1> QED  BY <1>4, <1>5

-----------------------------------------------------------------------------
(* A row's key determines what it refers to                                  *)

\* What the row of a table with a key refers to; but for goals and memories.
TalkRefs(table, k) ==
    CASE table = "conversation_idle_states" -> {<<"conversations", k>>}
      [] table \in {"conversation_participants", "conversation_drafts", "consolidations"} ->
            {<<"conversations", k>>, Npc}
      [] table = "conversation_segments" -> {<<"conversations", k[1]>>}
      [] table = "segment_participants" -> {<<"conversation_segments", k>>, Npc}
      [] table = "messages" -> {<<"conversations", k[1]>>, <<"conversation_segments", k>>, Npc}
      [] OTHER -> {Chapter}
LinkRefs(table, k) ==
    CASE table = "memory_evidence_messages" -> {<<"memories", k[1]>>, <<"messages", k[2]>>}
      [] table = "memory_goal_links" -> {<<"memories", k[1]>>, <<"goals", k[2]>>}
      [] table = "memory_actor_links" -> {<<"memories", k>>, Npc}
      [] table = "memory_topic_links" -> {<<"memories", k>>, Topic}
      [] OTHER -> {}
RequestRefs(table, k) ==
    CASE table = "invitations" -> {Chapter, Npc, <<"conversations", k[1]>>, <<"goals", k[2]>>}
      [] table = "join_requests" -> {Chapter, Npc, <<"conversations", k[1]>>}
      [] table = "join_request_approvers" -> {<<"join_requests", k>>, Npc}
      [] OTHER -> {}
ChapterRefs(table, k) ==
    CASE table = "chapter_runs" -> {Board}
      [] table \in {"run_actor_states", "run_daily_schedules", "relationships",
                    "chapter_actor_stances"} -> {Chapter, Npc}
      [] table = "chapter_agenda_stances" -> {Chapter, Board, Npc}
      [] table = "world_event_observers" -> {Event, Npc}
      [] OTHER -> {Chapter}

TalkNames ==
    {"conversations", "conversation_idle_states", "conversation_participants", "conversation_drafts",
     "consolidations", "conversation_segments", "segment_participants", "messages"}
LinkNames ==
    {"memory_evidence_messages", "memory_goal_links", "memory_actor_links", "memory_topic_links"}
RequestNames == {"invitations", "join_requests", "join_request_approvers"}
ChapterNames ==
    {"chapter_runs", "run_actor_states", "run_daily_schedules", "run_state_items",
     "run_storage_revisions", "run_events", "command_records", "world_events",
     "world_event_observers", "relationships", "chapter_actor_stances", "chapter_agenda_stances",
     "chapter_authorizations", "chapter_resolutions"}

\* Which keys there are.
TalkKeys(table, r) ==
    CASE table \in {"conversation_segments", "segment_participants"} -> Segments(r)
      [] table = "messages" -> r.messages
      [] OTHER -> Opened(r)
LinkKey(table, k, r) ==
    CASE table = "memory_evidence_messages" -> \E m \in r.memories : k[1] = m.memory /\ k[2] \in m.said
      [] table = "memory_goal_links" -> \E m \in r.memories : k[1] = m.memory /\ k[2] \in m.about
      [] OTHER -> k \in MemoryIds(r)
RequestKeys(table, r) ==
    IF table = "invitations" THEN r.invited ELSE {s \in Segments(r) : s[2] = 2}

EntryKnown(table, e, r) ==
    \/ table \in TalkNames /\ e[2] = TalkRefs(table, e[1]) /\ e[1] \in TalkKeys(table, r)
    \/ table \in LinkNames /\ e[2] = LinkRefs(table, e[1]) /\ LinkKey(table, e[1], r)
    \/ table \in RequestNames /\ e[2] = RequestRefs(table, e[1]) /\ e[1] \in RequestKeys(table, r)
    \/ /\ table \in ChapterNames /\ e[2] = ChapterRefs(table, e[1])
       /\ table = "world_event_observers" => r.event = TRUE
    \/ table = "memories"

LEMMA StateEntryKnown ==
  ASSUME NEW table, NEW r, r.event \in BOOLEAN, NEW e \in StateEntries(table, r)
  PROVE  EntryKnown(table, e, r)
<1>1. CASE table = "chapter_runs"
  <2>1. e = <<"run", {Board}>>  BY <1>1 DEF StateEntries
  <2> DEFINE key == "run"
             refs == {Board}
  <2>2. e = <<key, refs>>  BY <2>1
  <2>3. refs = ChapterRefs(table, key)  BY <1>1 DEF ChapterRefs, Event
  <2>4. table = "world_event_observers" => r.event = TRUE  BY <1>1, <2>1
  <2> HIDE DEF key, refs
  <2>5. e[1] = key /\ e[2] = refs  BY <2>2
  <2>6. table \in ChapterNames  BY <1>1 DEF ChapterNames
  <2> QED  BY <1>1, <2>3, <2>4, <2>5, <2>6 DEF EntryKnown
<1>2. CASE table \in {"run_actor_states", "run_daily_schedules"}
  <2>1. e = <<"npc", {Chapter, Npc}>>  BY <1>2 DEF StateEntries
  <2> DEFINE key == "npc"
             refs == {Chapter, Npc}
  <2>2. e = <<key, refs>>  BY <2>1
  <2>3. refs = ChapterRefs(table, key)  BY <1>2 DEF ChapterRefs, Event
  <2>4. table = "world_event_observers" => r.event = TRUE  BY <1>2, <2>1
  <2> HIDE DEF key, refs
  <2>5. e[1] = key /\ e[2] = refs  BY <2>2
  <2>6. table \in ChapterNames  BY <1>2 DEF ChapterNames
  <2> QED  BY <1>2, <2>3, <2>4, <2>5, <2>6 DEF EntryKnown
<1>3. CASE table \in {"run_state_items", "run_storage_revisions"}
  <2>1. e = <<"run", {Chapter}>>  BY <1>3 DEF StateEntries
  <2> DEFINE key == "run"
             refs == {Chapter}
  <2>2. e = <<key, refs>>  BY <2>1
  <2>3. refs = ChapterRefs(table, key)  BY <1>3 DEF ChapterRefs, Event
  <2>4. table = "world_event_observers" => r.event = TRUE  BY <1>3, <2>1
  <2> HIDE DEF key, refs
  <2>5. e[1] = key /\ e[2] = refs  BY <2>2
  <2>6. table \in ChapterNames  BY <1>3 DEF ChapterNames
  <2> QED  BY <1>3, <2>3, <2>4, <2>5, <2>6 DEF EntryKnown
<1> QED  BY <1>1, <1>2, <1>3 DEF StateEntries, EntryKnown

LEMMA HistoryEntryKnown ==
  ASSUME NEW table, NEW r, r.event \in BOOLEAN, NEW e \in HistoryEntries(table, r)
  PROVE  EntryKnown(table, e, r)
<1>1. CASE table = "run_events"
  <2>1. e = <<"run", {Chapter}>>  BY <1>1 DEF HistoryEntries
  <2> DEFINE key == "run"
             refs == {Chapter}
  <2>2. e = <<key, refs>>  BY <2>1
  <2>3. refs = ChapterRefs(table, key)  BY <1>1 DEF ChapterRefs, Event
  <2>4. table = "world_event_observers" => r.event = TRUE  BY <1>1, <2>1
  <2> HIDE DEF key, refs
  <2>5. e[1] = key /\ e[2] = refs  BY <2>2
  <2>6. table \in ChapterNames  BY <1>1 DEF ChapterNames
  <2> QED  BY <1>1, <2>3, <2>4, <2>5, <2>6 DEF EntryKnown
<1>2. CASE table = "command_records"
  <2>1. PICK n \in r.commands : e = <<n, {Chapter}>>  BY <1>2 DEF HistoryEntries
  <2> DEFINE key == n
             refs == {Chapter}
  <2>2. e = <<key, refs>>  BY <2>1
  <2>3. refs = ChapterRefs(table, key)  BY <1>2 DEF ChapterRefs, Event
  <2>4. table = "world_event_observers" => r.event = TRUE  BY <1>2, <2>1
  <2> HIDE DEF key, refs
  <2>5. e[1] = key /\ e[2] = refs  BY <2>2
  <2>6. table \in ChapterNames  BY <1>2 DEF ChapterNames
  <2> QED  BY <1>2, <2>3, <2>4, <2>5, <2>6 DEF EntryKnown
<1>3. CASE table = "world_events"
  <2>1. e = <<"event", {Chapter}>>  BY <1>3 DEF HistoryEntries
  <2> DEFINE key == "event"
             refs == {Chapter}
  <2>2. e = <<key, refs>>  BY <2>1
  <2>3. refs = ChapterRefs(table, key)  BY <1>3 DEF ChapterRefs, Event
  <2>4. table = "world_event_observers" => r.event = TRUE  BY <1>3, <2>1
  <2> HIDE DEF key, refs
  <2>5. e[1] = key /\ e[2] = refs  BY <2>2
  <2>6. table \in ChapterNames  BY <1>3 DEF ChapterNames
  <2> QED  BY <1>3, <2>3, <2>4, <2>5, <2>6 DEF EntryKnown
<1>4. CASE table = "world_event_observers"
  <2>1. e = <<"event", {<<"world_events", "event">>, Npc}>>  BY <1>4 DEF HistoryEntries
  <2> DEFINE key == "event"
             refs == {<<"world_events", "event">>, Npc}
  <2>2. e = <<key, refs>>  BY <2>1
  <2>3. refs = ChapterRefs(table, key)  BY <1>4 DEF ChapterRefs, Event
  <2>4. table = "world_event_observers" => r.event = TRUE  BY <1>4, <2>1 DEF HistoryEntries
  <2> HIDE DEF key, refs
  <2>5. e[1] = key /\ e[2] = refs  BY <2>2
  <2>6. table \in ChapterNames  BY <1>4 DEF ChapterNames
  <2> QED  BY <1>4, <2>3, <2>4, <2>5, <2>6 DEF EntryKnown
<1> QED  BY <1>1, <1>2, <1>3, <1>4 DEF HistoryEntries, EntryKnown

LEMMA TalkEntryKnown ==
  ASSUME NEW table, NEW r, r.event \in BOOLEAN, NEW e \in TalkEntries(table, r)
  PROVE  EntryKnown(table, e, r)
<1>1. CASE table = "conversations"
  <2>1. PICK c \in Opened(r) : e = <<c, {Chapter}>>  BY <1>1 DEF TalkEntries
  <2> DEFINE key == c
             refs == {Chapter}
  <2>2. e = <<key, refs>>  BY <2>1
  <2>3. refs = TalkRefs(table, key)  BY <1>1 DEF TalkRefs, Event
  <2>4. key \in TalkKeys(table, r)  BY <1>1, <2>1 DEF TalkKeys
  <2> HIDE DEF key, refs
  <2>5. e[1] = key /\ e[2] = refs  BY <2>2
  <2>6. table \in TalkNames  BY <1>1 DEF TalkNames
  <2> QED  BY <1>1, <2>3, <2>4, <2>5, <2>6 DEF EntryKnown
<1>2. CASE table = "conversation_idle_states"
  <2>1. PICK c \in Opened(r) : e = <<c, {<<"conversations", c>>}>>  BY <1>2 DEF TalkEntries
  <2> DEFINE key == c
             refs == {<<"conversations", c>>}
  <2>2. e = <<key, refs>>  BY <2>1
  <2>3. refs = TalkRefs(table, key)  BY <1>2 DEF TalkRefs, Event
  <2>4. key \in TalkKeys(table, r)  BY <1>2, <2>1 DEF TalkKeys
  <2> HIDE DEF key, refs
  <2>5. e[1] = key /\ e[2] = refs  BY <2>2
  <2>6. table \in TalkNames  BY <1>2 DEF TalkNames
  <2> QED  BY <1>2, <2>3, <2>4, <2>5, <2>6 DEF EntryKnown
<1>3. CASE table \in {"conversation_participants", "conversation_drafts", "consolidations"}
  <2>1. PICK c \in Opened(r) : e = <<c, {<<"conversations", c>>, Npc}>>  BY <1>3 DEF TalkEntries
  <2> DEFINE key == c
             refs == {<<"conversations", c>>, Npc}
  <2>2. e = <<key, refs>>  BY <2>1
  <2>3. refs = TalkRefs(table, key)  BY <1>3 DEF TalkRefs, Event
  <2>4. key \in TalkKeys(table, r)  BY <1>3, <2>1 DEF TalkKeys
  <2> HIDE DEF key, refs
  <2>5. e[1] = key /\ e[2] = refs  BY <2>2
  <2>6. table \in TalkNames  BY <1>3 DEF TalkNames
  <2> QED  BY <1>3, <2>3, <2>4, <2>5, <2>6 DEF EntryKnown
<1>4. CASE table = "conversation_segments"
  <2>1. PICK s \in Segments(r) : e = <<s, {<<"conversations", s[1]>>}>>  BY <1>4 DEF TalkEntries
  <2> DEFINE key == s
             refs == {<<"conversations", s[1]>>}
  <2>2. e = <<key, refs>>  BY <2>1
  <2>3. refs = TalkRefs(table, key)  BY <1>4 DEF TalkRefs, Event
  <2>4. key \in TalkKeys(table, r)  BY <1>4, <2>1 DEF TalkKeys
  <2> HIDE DEF key, refs
  <2>5. e[1] = key /\ e[2] = refs  BY <2>2
  <2>6. table \in TalkNames  BY <1>4 DEF TalkNames
  <2> QED  BY <1>4, <2>3, <2>4, <2>5, <2>6 DEF EntryKnown
<1>5. CASE table = "segment_participants"
  <2>1. PICK s \in Segments(r) : e = <<s, {<<"conversation_segments", s>>, Npc}>>  BY <1>5 DEF TalkEntries
  <2> DEFINE key == s
             refs == {<<"conversation_segments", s>>, Npc}
  <2>2. e = <<key, refs>>  BY <2>1
  <2>3. refs = TalkRefs(table, key)  BY <1>5 DEF TalkRefs, Event
  <2>4. key \in TalkKeys(table, r)  BY <1>5, <2>1 DEF TalkKeys
  <2> HIDE DEF key, refs
  <2>5. e[1] = key /\ e[2] = refs  BY <2>2
  <2>6. table \in TalkNames  BY <1>5 DEF TalkNames
  <2> QED  BY <1>5, <2>3, <2>4, <2>5, <2>6 DEF EntryKnown
<1>6. CASE table = "messages"
  <2>1. PICK s \in r.messages : e = <<s, {<<"conversations", s[1]>>, <<"conversation_segments", s>>, Npc}>>  BY <1>6 DEF TalkEntries
  <2> DEFINE key == s
             refs == {<<"conversations", s[1]>>, <<"conversation_segments", s>>, Npc}
  <2>2. e = <<key, refs>>  BY <2>1
  <2>3. refs = TalkRefs(table, key)  BY <1>6 DEF TalkRefs, Event
  <2>4. key \in TalkKeys(table, r)  BY <1>6, <2>1 DEF TalkKeys
  <2> HIDE DEF key, refs
  <2>5. e[1] = key /\ e[2] = refs  BY <2>2
  <2>6. table \in TalkNames  BY <1>6 DEF TalkNames
  <2> QED  BY <1>6, <2>3, <2>4, <2>5, <2>6 DEF EntryKnown
<1> QED  BY <1>1, <1>2, <1>3, <1>4, <1>5, <1>6 DEF TalkEntries, EntryKnown

LEMMA MemoryEntryKnown ==
  ASSUME NEW table, NEW r, r.event \in BOOLEAN, NEW e \in MemoryEntries(table, r)
  PROVE  EntryKnown(table, e, r)
<1>1. CASE table = "memories"  BY <1>1 DEF EntryKnown
<1>2. CASE table = "relationships"
  <2> DEFINE refs == {Chapter, Npc}
  <2>1. e = <<"npc", refs>>  BY <1>2 DEF MemoryEntries
  <2>2. refs = ChapterRefs(table, "npc")  BY <1>2 DEF ChapterRefs
  <2> HIDE DEF refs
  <2>3. e[1] = "npc" /\ e[2] = refs  BY <2>1
  <2> QED  BY <1>2, <2>2, <2>3 DEF EntryKnown, ChapterNames
<1> QED  BY <1>1, <1>2 DEF MemoryEntries

LEMMA LinkEntryKnown ==
  ASSUME NEW table, NEW r, r.event \in BOOLEAN, NEW e \in LinkEntries(table, r)
  PROVE  EntryKnown(table, e, r)
<1>1. CASE table = "memory_evidence_messages"
  <2>1. PICK m \in r.memories : \E s \in m.said : e = <<<<m.memory, s>>, {<<"memories", m.memory>>, <<"messages", s>>}>>  BY <1>1 DEF LinkEntries
  <2>2. PICK s \in m.said : e = <<<<m.memory, s>>, {<<"memories", m.memory>>, <<"messages", s>>}>>  BY <2>1
  <2> DEFINE key == <<m.memory, s>>
             refs == {<<"memories", m.memory>>, <<"messages", s>>}
  <2>3. e = <<key, refs>>  BY <2>2
  <2>4. refs = LinkRefs(table, key)  BY <1>1 DEF LinkRefs, Event
  <2>5. LinkKey(table, key, r)  BY <1>1, <2>2 DEF LinkKey
  <2> HIDE DEF key, refs
  <2>6. e[1] = key /\ e[2] = refs  BY <2>3
  <2>7. table \in LinkNames  BY <1>1 DEF LinkNames
  <2> QED  BY <1>1, <2>4, <2>5, <2>6, <2>7 DEF EntryKnown
<1>2. CASE table = "memory_goal_links"
  <2>1. PICK m \in r.memories : \E g \in m.about : e = <<<<m.memory, g>>, {<<"memories", m.memory>>, <<"goals", g>>}>>  BY <1>2 DEF LinkEntries
  <2>2. PICK g \in m.about : e = <<<<m.memory, g>>, {<<"memories", m.memory>>, <<"goals", g>>}>>  BY <2>1
  <2> DEFINE key == <<m.memory, g>>
             refs == {<<"memories", m.memory>>, <<"goals", g>>}
  <2>3. e = <<key, refs>>  BY <2>2
  <2>4. refs = LinkRefs(table, key)  BY <1>2 DEF LinkRefs, Event
  <2>5. LinkKey(table, key, r)  BY <1>2, <2>2 DEF LinkKey
  <2> HIDE DEF key, refs
  <2>6. e[1] = key /\ e[2] = refs  BY <2>3
  <2>7. table \in LinkNames  BY <1>2 DEF LinkNames
  <2> QED  BY <1>2, <2>4, <2>5, <2>6, <2>7 DEF EntryKnown
<1>3. CASE table = "memory_actor_links"
  <2>1. PICK m \in r.memories : e = <<m.memory, {<<"memories", m.memory>>, Npc}>>  BY <1>3 DEF LinkEntries
  <2> DEFINE key == m.memory
             refs == {<<"memories", m.memory>>, Npc}
  <2>2. e = <<key, refs>>  BY <2>1
  <2>3. refs = LinkRefs(table, key)  BY <1>3 DEF LinkRefs, Event
  <2>4. LinkKey(table, key, r)  BY <1>3, <2>1 DEF LinkKey, MemoryIds
  <2> HIDE DEF key, refs
  <2>5. e[1] = key /\ e[2] = refs  BY <2>2
  <2>6. table \in LinkNames  BY <1>3 DEF LinkNames
  <2> QED  BY <1>3, <2>3, <2>4, <2>5, <2>6 DEF EntryKnown
<1>4. CASE table = "memory_topic_links"
  <2>1. PICK m \in r.memories : e = <<m.memory, {<<"memories", m.memory>>, Topic}>>  BY <1>4 DEF LinkEntries
  <2> DEFINE key == m.memory
             refs == {<<"memories", m.memory>>, Topic}
  <2>2. e = <<key, refs>>  BY <2>1
  <2>3. refs = LinkRefs(table, key)  BY <1>4 DEF LinkRefs, Event
  <2>4. LinkKey(table, key, r)  BY <1>4, <2>1 DEF LinkKey, MemoryIds
  <2> HIDE DEF key, refs
  <2>5. e[1] = key /\ e[2] = refs  BY <2>2
  <2>6. table \in LinkNames  BY <1>4 DEF LinkNames
  <2> QED  BY <1>4, <2>3, <2>4, <2>5, <2>6 DEF EntryKnown
<1> QED  BY <1>1, <1>2, <1>3, <1>4 DEF LinkEntries, EntryKnown

LEMMA RequestEntryKnown ==
  ASSUME NEW table, NEW r, r.event \in BOOLEAN, NEW e \in RequestEntries(table, r)
  PROVE  EntryKnown(table, e, r)
<1>1. CASE table = "invitations"
  <2>1. PICK i \in r.invited : e = <<i, {Chapter, Npc, <<"conversations", i[1]>>, <<"goals", i[2]>>}>>  BY <1>1 DEF RequestEntries
  <2> DEFINE key == i
             refs == {Chapter, Npc, <<"conversations", i[1]>>, <<"goals", i[2]>>}
  <2>2. e = <<key, refs>>  BY <2>1
  <2>3. refs = RequestRefs(table, key)  BY <1>1 DEF RequestRefs, Event
  <2>4. key \in RequestKeys(table, r)  BY <1>1, <2>1 DEF RequestKeys
  <2> HIDE DEF key, refs
  <2>5. e[1] = key /\ e[2] = refs  BY <2>2
  <2>6. table \in RequestNames  BY <1>1 DEF RequestNames
  <2> QED  BY <1>1, <2>3, <2>4, <2>5, <2>6 DEF EntryKnown
<1>2. CASE table = "join_requests"
  <2>1. PICK s \in {x \in Segments(r) : x[2] = 2} : e = <<s, {Chapter, Npc, <<"conversations", s[1]>>}>>  BY <1>2 DEF RequestEntries
  <2> DEFINE key == s
             refs == {Chapter, Npc, <<"conversations", s[1]>>}
  <2>2. e = <<key, refs>>  BY <2>1
  <2>3. refs = RequestRefs(table, key)  BY <1>2 DEF RequestRefs, Event
  <2>4. key \in RequestKeys(table, r)  BY <1>2, <2>1 DEF RequestKeys
  <2> HIDE DEF key, refs
  <2>5. e[1] = key /\ e[2] = refs  BY <2>2
  <2>6. table \in RequestNames  BY <1>2 DEF RequestNames
  <2> QED  BY <1>2, <2>3, <2>4, <2>5, <2>6 DEF EntryKnown
<1>3. CASE table = "join_request_approvers"
  <2>1. PICK s \in {x \in Segments(r) : x[2] = 2} : e = <<s, {<<"join_requests", s>>, Npc}>>  BY <1>3 DEF RequestEntries
  <2> DEFINE key == s
             refs == {<<"join_requests", s>>, Npc}
  <2>2. e = <<key, refs>>  BY <2>1
  <2>3. refs = RequestRefs(table, key)  BY <1>3 DEF RequestRefs, Event
  <2>4. key \in RequestKeys(table, r)  BY <1>3, <2>1 DEF RequestKeys
  <2> HIDE DEF key, refs
  <2>5. e[1] = key /\ e[2] = refs  BY <2>2
  <2>6. table \in RequestNames  BY <1>3 DEF RequestNames
  <2> QED  BY <1>3, <2>3, <2>4, <2>5, <2>6 DEF EntryKnown
<1> QED  BY <1>1, <1>2, <1>3 DEF RequestEntries, EntryKnown

LEMMA ChapterEntryKnown ==
  ASSUME NEW table, NEW r, r.event \in BOOLEAN, NEW e \in ChapterEntries(table, r)
  PROVE  EntryKnown(table, e, r)
<1>1. CASE table = "chapter_actor_stances"
  <2>1. e = <<"npc", {Chapter, Npc}>>  BY <1>1 DEF ChapterEntries
  <2> DEFINE key == "npc"
             refs == {Chapter, Npc}
  <2>2. e = <<key, refs>>  BY <2>1
  <2>3. refs = ChapterRefs(table, key)  BY <1>1 DEF ChapterRefs, Event
  <2>4. table = "world_event_observers" => r.event = TRUE  BY <1>1, <2>1
  <2> HIDE DEF key, refs
  <2>5. e[1] = key /\ e[2] = refs  BY <2>2
  <2>6. table \in ChapterNames  BY <1>1 DEF ChapterNames
  <2> QED  BY <1>1, <2>3, <2>4, <2>5, <2>6 DEF EntryKnown
<1>2. CASE table = "chapter_agenda_stances"
  <2>1. e = <<"npc", {Chapter, Board, Npc}>>  BY <1>2 DEF ChapterEntries
  <2> DEFINE key == "npc"
             refs == {Chapter, Board, Npc}
  <2>2. e = <<key, refs>>  BY <2>1
  <2>3. refs = ChapterRefs(table, key)  BY <1>2 DEF ChapterRefs, Event
  <2>4. table = "world_event_observers" => r.event = TRUE  BY <1>2, <2>1
  <2> HIDE DEF key, refs
  <2>5. e[1] = key /\ e[2] = refs  BY <2>2
  <2>6. table \in ChapterNames  BY <1>2 DEF ChapterNames
  <2> QED  BY <1>2, <2>3, <2>4, <2>5, <2>6 DEF EntryKnown
<1>3. CASE table = "chapter_authorizations"
  <2>1. e = <<"run", {Chapter}>>  BY <1>3 DEF ChapterEntries
  <2> DEFINE key == "run"
             refs == {Chapter}
  <2>2. e = <<key, refs>>  BY <2>1
  <2>3. refs = ChapterRefs(table, key)  BY <1>3 DEF ChapterRefs, Event
  <2>4. table = "world_event_observers" => r.event = TRUE  BY <1>3, <2>1
  <2> HIDE DEF key, refs
  <2>5. e[1] = key /\ e[2] = refs  BY <2>2
  <2>6. table \in ChapterNames  BY <1>3 DEF ChapterNames
  <2> QED  BY <1>3, <2>3, <2>4, <2>5, <2>6 DEF EntryKnown
<1>4. CASE table = "chapter_resolutions"
  <2>1. e = <<"run", {Chapter}>>  BY <1>4 DEF ChapterEntries
  <2> DEFINE key == "run"
             refs == {Chapter}
  <2>2. e = <<key, refs>>  BY <2>1
  <2>3. refs = ChapterRefs(table, key)  BY <1>4 DEF ChapterRefs, Event
  <2>4. table = "world_event_observers" => r.event = TRUE  BY <1>4, <2>1
  <2> HIDE DEF key, refs
  <2>5. e[1] = key /\ e[2] = refs  BY <2>2
  <2>6. table \in ChapterNames  BY <1>4 DEF ChapterNames
  <2> QED  BY <1>4, <2>3, <2>4, <2>5, <2>6 DEF EntryKnown
<1> QED  BY <1>1, <1>2, <1>3, <1>4 DEF ChapterEntries, EntryKnown

LEMMA EntriesKnown ==
  ASSUME NEW table, NEW r, RunOK(r), NEW e \in EntriesOf(table, r)
  PROVE  EntryKnown(table, e, r)
<1>1. r.event \in BOOLEAN  BY DEF RunOK
<1> QED  BY <1>1, StateEntryKnown, HistoryEntryKnown, TalkEntryKnown, MemoryEntryKnown, LinkEntryKnown,
            RequestEntryKnown, ChapterEntryKnown DEF EntriesOf

LEMMA KnownRefs ==
  ASSUME NEW table, NEW r, NEW e, EntryKnown(table, e, r), NEW f, EntryKnown(table, f, r),
         e[1] = f[1], table # "memories"
  PROVE  e[2] = f[2]
<1>1. CASE table \in TalkNames
  <2>1. table \notin LinkNames /\ table \notin RequestNames /\ table \notin ChapterNames
    BY <1>1 DEF TalkNames, LinkNames, RequestNames, ChapterNames
  <2> QED  BY <2>1 DEF EntryKnown
<1>2. CASE table \in LinkNames
  <2>1. table \notin TalkNames /\ table \notin RequestNames /\ table \notin ChapterNames
    BY <1>2 DEF TalkNames, LinkNames, RequestNames, ChapterNames
  <2> QED  BY <2>1 DEF EntryKnown
<1>3. CASE table \in RequestNames
  <2>1. table \notin TalkNames /\ table \notin LinkNames /\ table \notin ChapterNames
    BY <1>3 DEF TalkNames, LinkNames, RequestNames, ChapterNames
  <2> QED  BY <2>1 DEF EntryKnown
<1>4. CASE table \notin TalkNames \cup LinkNames \cup RequestNames  BY <1>4 DEF EntryKnown
<1> QED  BY <1>1, <1>2, <1>3, <1>4

LEMMA GoalRowIs ==
  ASSUME NEW r, RunOK(r), NEW stored, NEW t \in RowsOf("goals", r, stored)
  PROVE  \E i \in DOMAIN r.goals :
           /\ t = GoalRows(r)[i] /\ t.name = <<"goals", r.goals[i].goal>> /\ t.status = r.goals[i].status
           /\ t.refs = {Chapter, Npc} \cup {<<"goals", p>> : p \in r.goals[i].parents}
                          \cup (IF r.goals[i].goal = 0 THEN {Definition} ELSE {})
<1>1. DOMAIN GoalRows(r) = DOMAIN r.goals  BY DEF GoalRows
<1>2. PICK i \in DOMAIN r.goals : t = GoalRows(r)[i]  BY <1>1 DEF RowsOf, ToSet
<1> DEFINE refs == {Chapter, Npc} \cup {<<"goals", p>> : p \in r.goals[i].parents}
                     \cup (IF r.goals[i].goal = 0 THEN {Definition} ELSE {})
<1>3. t = [Row("goals", r.goals[i].goal, refs) EXCEPT !.status = r.goals[i].status]
  BY <1>2 DEF GoalRows
<1> HIDE DEF refs
<1>4. t.name = <<"goals", r.goals[i].goal>> /\ t.status = r.goals[i].status /\ t.refs = refs
  BY <1>3 DEF Row
<1> QED  BY <1>2, <1>4 DEF refs

LEMMA MemoryRowIs ==
  ASSUME NEW r, NEW stored, NEW t \in RowsOf("memories", r, stored)
  PROVE  \E m \in r.memories :
           /\ t = [name |-> <<"memories", m.memory>>,
                   refs |-> {Chapter, Npc} \cup (IF m.said = {} THEN {<<"world_events", "event">>}
                                                 ELSE {<<"conversations", s[1]>> : s \in m.said}),
                   status |-> VectorOf(m.memory, stored)]
<1> DEFINE refs(m) == {Chapter, Npc} \cup (IF m.said = {} THEN {<<"world_events", "event">>}
                                          ELSE {<<"conversations", s[1]>> : s \in m.said})
           row(e) == [Row("memories", e[1], e[2]) EXCEPT !.status = VectorOf(e[1], stored)]
<1>1. EntriesOf("memories", r) = {<<m.memory, refs(m)>> : m \in r.memories}
  <2>1. MemoryEntries("memories", r) = {<<m.memory, refs(m)>> : m \in r.memories}  BY DEF MemoryEntries
  <2>2. /\ StateEntries("memories", r) = {} /\ HistoryEntries("memories", r) = {}
        /\ TalkEntries("memories", r) = {} /\ LinkEntries("memories", r) = {}
        /\ RequestEntries("memories", r) = {} /\ ChapterEntries("memories", r) = {}
    BY DEF StateEntries, HistoryEntries, TalkEntries, LinkEntries, RequestEntries, ChapterEntries
  <2> HIDE DEF refs
  <2> QED  BY <2>1, <2>2 DEF EntriesOf
<1>2. RowsOf("memories", r, stored) = {row(e) : e \in EntriesOf("memories", r)}  BY DEF RowsOf
<1>3. ASSUME NEW e PROVE row(e) = [name |-> <<"memories", e[1]>>, refs |-> e[2], status |-> VectorOf(e[1], stored)]
  BY DEF Row
<1> HIDE DEF refs, row
<1>4. PICK e \in EntriesOf("memories", r) : t = row(e)  BY <1>2
<1>5. PICK m \in r.memories : e = <<m.memory, refs(m)>>  BY <1>1
<1>6. e[1] = m.memory /\ e[2] = refs(m)  BY <1>5
<1>7. t = [name |-> <<"memories", m.memory>>, refs |-> refs(m), status |-> VectorOf(m.memory, stored)]
  BY <1>3, <1>4, <1>6
<1> QED  BY <1>7 DEF refs

\* A row's name determines the row.
LEMMA RowsUnique ==
  ASSUME NEW table, NEW r, RunOK(r), NEW stored, NEW t \in RowsOf(table, r, stored),
         NEW u \in RowsOf(table, r, stored), t.name = u.name
  PROVE  t = u
<1>1. CASE table = "goals"
  <2>1. PICK i \in DOMAIN r.goals : t = GoalRows(r)[i] /\ t.name = <<"goals", r.goals[i].goal>>
    BY <1>1, GoalRowIs
  <2>2. PICK j \in DOMAIN r.goals : u = GoalRows(r)[j] /\ u.name = <<"goals", r.goals[j].goal>>
    BY <1>1, GoalRowIs
  <2>3. r.goals[i].goal = r.goals[j].goal  BY <2>1, <2>2
  <2>4. i = j  BY <2>3 DEF RunOK, GoalsOK
  <2> QED  BY <2>1, <2>2, <2>4
<1>2. CASE table = "memories"
  <2> DEFINE row(m) == [name |-> <<"memories", m.memory>>,
                        refs |-> {Chapter, Npc} \cup (IF m.said = {} THEN {<<"world_events", "event">>}
                                                      ELSE {<<"conversations", s[1]>> : s \in m.said}),
                        status |-> VectorOf(m.memory, stored)]
  <2>1. PICK m \in r.memories : t = row(m)  BY <1>2, MemoryRowIs
  <2>2. PICK n \in r.memories : u = row(n)  BY <1>2, MemoryRowIs
  <2>3. t.name = <<"memories", m.memory>> /\ u.name = <<"memories", n.memory>>  BY <2>1, <2>2
  <2> HIDE DEF row
  <2>6. t.name[2] = m.memory  BY ONLY <2>3
  <2>7. u.name[2] = n.memory  BY ONLY <2>3
  <2>4. m.memory = n.memory  BY <2>6, <2>7
  <2>5. m = n  BY <2>4 DEF RunOK, MemoriesOK
  <2> QED  BY <2>1, <2>2, <2>5
<1>3. CASE table \notin {"goals", "memories"}
  <2>1. RowsOf(table, r, stored) = {Row(table, e[1], e[2]) : e \in EntriesOf(table, r)}
    BY <1>3 DEF RowsOf
  <2>2. PICK e \in EntriesOf(table, r) : t = Row(table, e[1], e[2])  BY <2>1
  <2>3. PICK f \in EntriesOf(table, r) : u = Row(table, f[1], f[2])  BY <2>1
  <2>4. e[1] = f[1]  BY <2>2, <2>3 DEF Row
  <2>5. e[2] = f[2]  BY <1>3, <2>4, EntriesKnown, KnownRefs
  <2> QED  BY <2>2, <2>3, <2>4, <2>5
<1> QED  BY <1>1, <1>2, <1>3

-----------------------------------------------------------------------------
(* The references of the rows that are inserted                              *)

\* What a row refers to is there, or is inserted before it.
Earlier(n, t, kept, new, inserts, r) ==
    \/ n \in Names(kept) \/ n \in GoalsBefore(t, r)
    \/ \A i \in DOMAIN inserts : inserts[i] = TableOf(t) =>
           \E u \in new : u.name = n /\ \E j \in 1..(i - 1) : inserts[j] = TableOf(u)
Fits(kept, new, inserts, r) ==
    \A t \in new : /\ Lawful(t, 6) /\ t.name \notin Names(kept)
                   /\ \A n \in t.refs : Earlier(n, t, kept, new, inserts, r)

LEMMA InsertsFit ==
  ASSUME NEW kept, NEW new, NEW inserts, NEW r, RunOK(r), NEW stored,
         new \subseteq NewRows(inserts, r, stored), Fits(kept, new, inserts, r)
  PROVE  InsertsInOrder(kept, new, inserts, r)
<1>1. ASSUME NEW t \in new, NEW u \in new, u.name = t.name PROVE u = t
  <2>1. TableOf(u) = TableOf(t)  BY <1>1 DEF TableOf
  <2>2. t \in RowsOf(TableOf(t), r, stored) /\ u \in RowsOf(TableOf(t), r, stored)
    BY <2>1, NewRowsOK
  <2> QED  BY <1>1, <2>2, RowsUnique
<1>2. ASSUME NEW i \in DOMAIN inserts, NEW t \in new, TableOf(t) = inserts[i], NEW n \in t.refs,
             NEW earlier, earlier = {inserts[j] : j \in 1..(i - 1)}
      PROVE  n \in (Names(kept) \cup Names({u \in new : TableOf(u) \in earlier})) \cup GoalsBefore(t, r)
  <2>1. Earlier(n, t, kept, new, inserts, r)  BY DEF Fits
  <2>2. CASE n \in Names(kept) \/ n \in GoalsBefore(t, r)  BY <2>2
  <2>3. CASE \E u \in new : u.name = n /\ \E j \in 1..(i - 1) : inserts[j] = TableOf(u)
    BY <1>2, <2>3 DEF Names
  <2> QED  BY <1>2, <2>1, <2>2, <2>3 DEF Earlier
<1>3. \A t \in new : Lawful(t, 6) /\ t.name \notin Names(kept)  BY DEF Fits
<1>4. ASSUME NEW i \in DOMAIN inserts
      PROVE  LET earlier == {inserts[j] : j \in 1..(i - 1)}
                 before  == Names(kept) \cup Names({u \in new : TableOf(u) \in earlier})
             IN \A t \in new : TableOf(t) = inserts[i] => t.refs \subseteq before \cup GoalsBefore(t, r)
  <2> DEFINE earlier == {inserts[j] : j \in 1..(i - 1)}
  <2>1. \A t \in new : TableOf(t) = inserts[i] => \A n \in t.refs :
          n \in (Names(kept) \cup Names({u \in new : TableOf(u) \in earlier})) \cup GoalsBefore(t, r)
    BY <1>2
  <2> HIDE DEF earlier
  <2>2. \A t \in new : TableOf(t) = inserts[i] =>
          t.refs \subseteq (Names(kept) \cup Names({u \in new : TableOf(u) \in earlier})) \cup GoalsBefore(t, r)
    BY <2>1
  <2> QED  BY <2>2 DEF earlier
<1>5. \A t \in new : /\ Lawful(t, 6) /\ t.name \notin Names(kept)
                     /\ \A u \in new : u.name = t.name => u = t
  BY <1>1, <1>3
<1> QED  BY <1>4, <1>5 DEF InsertsInOrder

\* The rows every run refers to.
Based(rs) == {Chapter, Npc, Board, Definition, Topic} \subseteq Names(rs)

LEMMA ScenarioNames == {Npc, Board, Definition, Topic} \subseteq Names(ScenarioRows)
<1>1. /\ Row(Npc[1], Npc[2], {}) \in ScenarioRows /\ Row(Topic[1], Topic[2], {}) \in ScenarioRows
      /\ Row(Definition[1], Definition[2], {Npc}) \in ScenarioRows
      /\ Row(Board[1], Board[2], {Npc, Definition}) \in ScenarioRows
  BY DEF ScenarioRows
<1>2. \A x \in {Npc, Board, Definition, Topic} : \A refs : Row(x[1], x[2], refs).name = x
  BY DEF Row, Npc, Board, Definition, Topic
<1> QED  BY <1>1, <1>2 DEF Names

-----------------------------------------------------------------------------
(* A run is added                                                            *)

LEMMA AddedHead ==
  ASSUME NEW r, NEW stored
  PROVE  \E inserts \in Seq(AllTables) :
           /\ ToSet(inserts) = AddedTables \cup ToSet(InsertOrder)
           /\ 1 \in DOMAIN inserts /\ inserts[1] = "chapter_runs"
           /\ AddedRows(r, stored) = Replaced([rows |-> stored, ok |-> TRUE], <<>>, inserts, r, stored)
<1> DEFINE s == <<"chapter_runs", "run_actor_states", "run_daily_schedules", "run_events",
                  "command_records", "world_events", "world_event_observers", "run_state_items">>
           t == <<"run_storage_revisions">>
<1>1. s \in Seq(AllTables) /\ \A x : x \in ToSet(s) <=> x \in AddedTables \ {"run_storage_revisions"}
  BY DEF AllTables, FirstTables, SecondTables, AddedTables, ToSet
<1>2. t \in Seq(AllTables) /\ \A x : x \in ToSet(t) <=> x = "run_storage_revisions"
  BY DEF AllTables, FirstTables, SecondTables, ToSet
<1>3. AddedRows(r, stored)
        = Replaced([rows |-> stored, ok |-> TRUE], <<>>, (s \o InsertOrder) \o t, r, stored)
  BY DEF AddedRows
<1>4. 1 \in 1..Len(s) /\ s[1] = "chapter_runs" /\ Len(t) = 1  OBVIOUS
<1> HIDE DEF s, t
<1>5. s \o InsertOrder \in Seq(AllTables) /\ ToSet(s \o InsertOrder) = ToSet(s) \cup ToSet(InsertOrder)
  BY <1>1, ListsAreSequences, ToSetConcat
<1>6. /\ (s \o InsertOrder) \o t \in Seq(AllTables)
      /\ ToSet((s \o InsertOrder) \o t) = ToSet(s) \cup ToSet(InsertOrder) \cup ToSet(t)
  BY <1>2, <1>5, ToSetConcat
<1>7. ToSet((s \o InsertOrder) \o t) = AddedTables \cup ToSet(InsertOrder)
  BY <1>1, <1>2, <1>6 DEF AddedTables
<1>8. ASSUME NEW a \in Seq(AllTables), NEW b \in Seq(AllTables), 1 \in 1..Len(a)
      PROVE  1 \in 1..Len(a \o b) /\ (a \o b)[1] = a[1]
  <2>1. /\ a \o b \in Seq(AllTables) /\ Len(a \o b) = Len(a) + Len(b)
        /\ \A i \in 1..Len(a) + Len(b) : (a \o b)[i] = IF i <= Len(a) THEN a[i] ELSE b[i - Len(a)]
    BY ConcatProperties
  <2>2. Len(a) \in Nat /\ Len(b) \in Nat  BY LenProperties
  <2> QED  BY <1>8, <2>1, <2>2
<1>9. InsertOrder \in Seq(AllTables)  BY ListsAreSequences
<1>10. 1 \in 1..Len(s \o InsertOrder) /\ (s \o InsertOrder)[1] = "chapter_runs"
  BY <1>1, <1>4, <1>8, <1>9
<1>11. 1 \in 1..Len((s \o InsertOrder) \o t) /\ ((s \o InsertOrder) \o t)[1] = "chapter_runs"
  BY <1>2, <1>5, <1>8, <1>10
<1> DEFINE inserts == (s \o InsertOrder) \o t
<1>12. DOMAIN inserts = 1..Len(inserts)  BY <1>6, LenProperties
<1> QED  BY <1>3, <1>6, <1>7, <1>11, <1>12

\* A run is never refused when it is added.
LEMMA AddFits ==
  AddedRows(FreshRun, ScenarioRows).ok = TRUE
<1> DEFINE r == FreshRun
           done == [rows |-> ScenarioRows, ok |-> TRUE]
<1>1. PICK inserts \in Seq(AllTables) :
        /\ ToSet(inserts) = AddedTables \cup ToSet(InsertOrder)
        /\ 1 \in DOMAIN inserts /\ inserts[1] = "chapter_runs"
        /\ AddedRows(r, ScenarioRows) = Replaced(done, <<>>, inserts, r, ScenarioRows)
  BY AddedHead
<1>2. done.rows = ScenarioRows /\ done.ok = TRUE  OBVIOUS
<1>3. r = FirstRun("active") /\ RunOK(r)  BY FreshRunIs, FirstRunOK DEF AllStatuses, GoalStatuses
<1> DEFINE new == NewRows(inserts, r, ScenarioRows)
           kept == {t \in ScenarioRows : TableOf(t) \notin ToSet(<<>>)}
<1> HIDE DEF r, done
<1>4. kept = ScenarioRows  BY DEF ToSet
<1>5. ASSUME NEW t \in new
      PROVE  /\ TableOf(t) \in AddedTables \cup ToSet(InsertOrder)
             /\ t.refs \subseteq {Chapter, Npc, Board, Definition}
             /\ Lawful(t, 6) /\ (TableOf(t) = "chapter_runs" => t.refs = {Board})
  <2>1. TableOf(t) \in ToSet(inserts) /\ t \in RowsOf(TableOf(t), r, ScenarioRows)
    BY NewRowsOK
  <2>2. /\ t.refs \subseteq {Chapter, Npc, Board, Definition} /\ TableOf(t) # "memories"
        /\ IF TableOf(t) = "goals" THEN t.status = "active" ELSE t.status = "none"
    BY <1>3, <2>1, FirstRowsOf
  <2>3. Lawful(t, 6)  BY <2>2 DEF Lawful, GoalStatuses
  <2>4. ASSUME TableOf(t) = "chapter_runs" PROVE t.refs = {Board}
    <3>1. PICK e \in EntriesOf("chapter_runs", r) : t = Row("chapter_runs", e[1], e[2])
      BY <2>1, <2>4 DEF RowsOf
    <3>2. EntryKnown("chapter_runs", e, r)  BY <1>3, EntriesKnown
    <3>3. e[2] = {Board}
      BY <3>2 DEF EntryKnown, TalkNames, LinkNames, RequestNames, ChapterRefs
    <3> QED  BY <3>1, <3>3 DEF Row
  <2> QED  BY <1>1, <2>1, <2>2, <2>3, <2>4
<1>6. \A x \in AddedTables \cup ToSet(InsertOrder) : x \notin ScenarioTables
  BY InsertOrderHas, DeleteOrderHas DEF AddedTables, ScenarioTables
<1>7. \A t \in ScenarioRows : TableOf(t) \in ScenarioTables  BY ScenarioRowsOK DEF OfScenario
<1>8. ASSUME NEW t \in new PROVE t.name \notin Names(ScenarioRows)
  <2>1. \A u \in ScenarioRows : u.name = t.name => TableOf(u) = TableOf(t)  BY DEF TableOf
  <2> QED  BY <1>5, <1>6, <1>7, <2>1 DEF Names
<1>9. Chapter \in Names({t \in new : TableOf(t) = "chapter_runs"})
  <2>1. PICK t \in AddedRows(r, ScenarioRows).rows : t.name = Chapter
    <3>1. Chapter \in Names(AddedRows(FirstRun("active"), ScenarioRows).rows)  BY FirstRowsOK
    <3> QED  BY <1>3, <3>1 DEF Names
  <2>2. t \in kept \/ t \in new
    <3>1. \A x : x \in Replaced(done, <<>>, inserts, r, ScenarioRows).rows <=>
            (x \in done.rows /\ TableOf(x) \notin ToSet(<<>>)) \/ x \in NewRows(inserts, r, ScenarioRows)
      BY ReplacedRow, NothingClosed
    <3> QED  BY <1>1, <1>2, <2>1, <3>1
  <2>3. TableOf(t) = "chapter_runs"  BY <2>1 DEF TableOf, Chapter
  <2>4. t \notin ScenarioRows  BY <1>7, <2>3 DEF ScenarioTables
  <2> QED  BY <1>4, <2>1, <2>2, <2>3, <2>4 DEF Names
<1>10. ASSUME NEW t \in new, NEW n \in t.refs
       PROVE  Earlier(n, t, ScenarioRows, new, inserts, r)
  <2>1. CASE n \in {Npc, Board, Definition}  BY <2>1, ScenarioNames DEF Earlier
  <2>2. CASE n = Chapter
    <3>1. TableOf(t) # "chapter_runs"
      <4>1. Board # Chapter  BY DEF Board, Chapter
      <4> QED  BY <1>5, <2>2, <4>1
    <3>2. PICK u \in new : u.name = Chapter /\ TableOf(u) = "chapter_runs"  BY <1>9 DEF Names
    <3>3. ASSUME NEW i \in DOMAIN inserts, inserts[i] = TableOf(t)
          PROVE  \E j \in 1..(i - 1) : inserts[j] = "chapter_runs"
      <4>1. DOMAIN inserts = 1..Len(inserts) /\ Len(inserts) \in Nat  BY LenProperties
      <4>2. i # 1  BY <1>1, <3>1, <3>3
      <4>3. 1 \in 1..(i - 1)  BY <4>1, <4>2
      <4> QED  BY <1>1, <4>3
    <3> QED  BY <2>2, <3>2, <3>3 DEF Earlier
  <2> QED  BY <1>5, <2>1, <2>2
<1>11. Fits(ScenarioRows, new, inserts, r)  BY <1>5, <1>8, <1>10 DEF Fits
<1>12. InsertsInOrder(ScenarioRows, new, inserts, r)  BY <1>3, <1>11, InsertsFit
<1>13. DeletesInOrder(ScenarioRows, <<>>)  BY DEF DeletesInOrder, ToSet
<1> DEFINE some == <<>>
<1>14. Closed(some)  BY NothingClosed
<1>15. kept = {t \in done.rows : TableOf(t) \notin ToSet(some)}  BY <1>2
<1> HIDE DEF some, kept, new
<1>16. Replaced(done, some, inserts, r, ScenarioRows).ok = TRUE
  <2>1. InsertsInOrder(kept, NewRows(inserts, r, ScenarioRows), inserts, r)  BY <1>4, <1>12 DEF new
  <2>2. DeletesInOrder(done.rows, some)  BY <1>2, <1>13 DEF some
  <2> QED  BY <1>2, <1>14, <1>15, <2>1, <2>2, ReplacedIs
<1> QED  BY <1>1, <1>16 DEF some, r, done

LEMMA AddInv ==
  ASSUME TablesInv, Add
  PROVE  TablesInv' /\ Outlives(tuples, tuples') /\ refused' = "nothing"
<1> DEFINE done == AddedRows(FreshRun, tuples)
<1>1. /\ revision = 6 /\ ScenarioRows \subseteq tuples /\ Chapter \notin Names(tuples)
      /\ done.ok = TRUE => tuples' = done.rows /\ run' = FreshRun /\ items' = FreshRun /\ refused' = "nothing"
      /\ UNCHANGED <<revision, loads, moves>>
  BY DEF Add
<1>2. RowsOK(tuples, 6)  BY <1>1 DEF TablesInv, DatabaseOK
<1>3. tuples = ScenarioRows  BY <1>1, <1>2, RunLeavesRows
<1>4. FreshRun = FirstRun("active") /\ RunOK(FreshRun)
  BY FreshRunIs, FirstRunOK DEF AllStatuses, GoalStatuses
<1>5. done.ok = TRUE  BY <1>3, AddFits
<1>6. /\ ScenarioRows \subseteq done.rows /\ Chapter \in Names(done.rows)
      /\ \A t \in done.rows : TableOf(t) \notin {"memories", "conversations", "command_records"}
  BY <1>3, <1>4, FirstRowsOK
<1>7. RowsOK(done.rows, 6)  BY <1>2, <1>5, AddedRowsOK
<1>8. FreshRun.memories = {} /\ FreshRun.commands = {}  BY <1>4, FirstRunHas
<1> HIDE DEF done
<1>9. OneVector(done.rows)  BY <1>6 DEF OneVector
<1>10. ItemsKept(done.rows, FreshRun, 6)  BY <1>6, <1>8 DEF ItemsKept
<1>11. RunAhead(done.rows, FreshRun)  BY <1>6 DEF RunAhead
<1>12. Outlives(tuples, done.rows)
  <2>1. ASSUME NEW t \in tuples PROVE ~Lasting(t)
    <3>1. TableOf(t) \in ScenarioTables  BY <1>3, ScenarioRowsOK DEF OfScenario
    <3>2. TableOf(t) # "command_records" /\ TableOf(t) # "memories"  BY <3>1 DEF ScenarioTables
    <3> QED  BY <1>2, <3>2, LastingIs
  <2> QED  BY <2>1 DEF Outlives
<1>13. TablesInv'
  BY <1>1, <1>4, <1>5, <1>6, <1>7, <1>9, <1>10, <1>11 DEF TablesInv, DatabaseOK
<1> QED  BY <1>1, <1>5, <1>12, <1>13

-----------------------------------------------------------------------------
(* A save is refused for a known reason only: the references of its rows     *)

\* The rows of a run that others of its rows refer to.
Owned(n, r) ==
    \/ n = <<"conversations", n[2]>> /\ n[2] \in Opened(r)
    \/ n = <<"conversation_segments", n[2]>> /\ n[2] \in Segments(r)
    \/ n = <<"messages", n[2]>> /\ n[2] \in r.messages
    \/ n = <<"goals", n[2]>> /\ n[2] \in GoalIds(r)
    \/ n = <<"memories", n[2]>> /\ n[2] \in MemoryIds(r)
    \/ n = <<"join_requests", n[2]>> /\ n[2] \in {s \in Segments(r) : s[2] = 2}

\* Which tables they are in.
Sequenced(p, x) ==
    \/ p = "conversations" /\ x \in {"conversation_idle_states", "conversation_participants",
                                     "conversation_drafts", "consolidations", "conversation_segments",
                                     "messages", "memories", "invitations", "join_requests"}
    \/ p = "conversation_segments" /\ x \in {"segment_participants", "messages"}
    \/ p = "messages" /\ x = "memory_evidence_messages"
    \/ p = "goals" /\ x \in {"memory_goal_links", "invitations"}
    \/ p = "memories" /\ x \in LinkNames
    \/ p = "join_requests" /\ x = "join_request_approvers"

Parent(n, t, r) ==
    \E i \in DOMAIN r.goals : t.name = <<"goals", r.goals[i].goal>> /\
        \E p \in r.goals[i].parents : n = <<"goals", p>>

Placed(n, t, r) ==
    \/ n \in {Chapter, Npc, Board, Definition, Topic}
    \/ n = Event /\ r.event = TRUE /\ TableOf(t) \in {"memories", "world_event_observers"}
    \/ TableOf(t) = "goals" /\ Parent(n, t, r)
    \/ Sequenced(n[1], TableOf(t)) /\ Owned(n, r)

LEMMA SegmentsOpened ==
  ASSUME NEW r, RunOK(r), NEW s \in Segments(r)
  PROVE  s[1] \in Opened(r)
<1>1. s[1] \in Talks /\ s[2] \in {1, 2} /\ s[2] <= r.segments[s[1]]  BY DEF Segments
<1>2. r.segments[s[1]] \in 0..2  BY <1>1 DEF RunOK
<1> QED  BY <1>1, <1>2 DEF Opened

LEMMA TalkPlaced ==
  ASSUME NEW r, RunOK(r), NEW table \in TalkNames, NEW k \in TalkKeys(table, r),
         NEW n \in TalkRefs(table, k), NEW t, TableOf(t) = table
  PROVE  Placed(n, t, r)
<1>1. CASE n \in {Chapter, Npc}  BY <1>1 DEF Placed
<1>2. CASE n \notin {Chapter, Npc} /\ table \in {"conversation_idle_states", "conversation_participants",
                                               "conversation_drafts", "consolidations"}
  <2>1. n = <<"conversations", k>> /\ k \in Opened(r)
    BY <1>2 DEF TalkRefs, TalkKeys
  <2>2. n[1] = "conversations" /\ n[2] = k  BY <2>1
  <2> QED  BY <1>2, <2>1, <2>2 DEF Placed, Sequenced, Owned
<1>3. CASE n \notin {Chapter, Npc} /\ table \in {"conversation_segments", "messages"}
  <2>1. k \in Segments(r)  BY <1>3 DEF TalkKeys, RunOK
  <2>2. k[1] \in Opened(r)  BY <2>1, SegmentsOpened
  <2>3. CASE n = <<"conversations", k[1]>>
    <3> DEFINE c == k[1]
    <3>1. c \in Opened(r) /\ n = <<"conversations", c>>  BY <2>2, <2>3
    <3> HIDE DEF c
    <3>2. n[1] = "conversations" /\ n[2] = c  BY <3>1
    <3> QED  BY <1>3, <3>1, <3>2 DEF Placed, Sequenced, Owned
  <2>4. CASE n = <<"conversation_segments", k>> /\ table = "messages"
    <3>1. n[1] = "conversation_segments" /\ n[2] = k  BY <2>4
    <3> QED  BY <2>1, <2>4, <3>1 DEF Placed, Sequenced, Owned
  <2> QED  BY <1>3, <2>3, <2>4 DEF TalkRefs
<1>4. CASE n \notin {Chapter, Npc} /\ table = "segment_participants"
  <2>1. n = <<"conversation_segments", k>> /\ k \in Segments(r)
    BY <1>4 DEF TalkRefs, TalkKeys
  <2>2. n[1] = "conversation_segments" /\ n[2] = k  BY <2>1
  <2> QED  BY <1>4, <2>1, <2>2 DEF Placed, Sequenced, Owned
<1>5. CASE n \notin {Chapter, Npc} /\ table = "conversations"
  BY <1>5 DEF TalkRefs
<1> QED  BY <1>1, <1>2, <1>3, <1>4, <1>5 DEF TalkNames

LEMMA LinkPlaced ==
  ASSUME NEW r, RunOK(r), NEW table \in LinkNames, NEW k, LinkKey(table, k, r),
         NEW n \in LinkRefs(table, k), NEW t, TableOf(t) = table
  PROVE  Placed(n, t, r)
<1>1. CASE n \in {Npc, Topic}  BY <1>1 DEF Placed
<1>2. ASSUME NEW x \in MemoryIds(r), n = <<"memories", x>> PROVE Placed(n, t, r)
  <2>1. n[1] = "memories" /\ n[2] = x  BY <1>2
  <2> QED  BY <1>2, <2>1 DEF Placed, Sequenced, Owned
<1>3. CASE table = "memory_evidence_messages" /\ n \notin {Npc, Topic}
  <2>1. PICK m \in r.memories : k[1] = m.memory /\ k[2] \in m.said  BY <1>3 DEF LinkKey
  <2>2. m.memory \in MemoryIds(r) /\ m.said \subseteq r.messages
    BY DEF MemoryIds, RunOK, MemoriesOK
  <2> DEFINE x == k[1]
             y == k[2]
  <2>3. x \in MemoryIds(r) /\ y \in r.messages  BY <2>1, <2>2
  <2>4. n = <<"memories", x>> \/ n = <<"messages", y>>  BY <1>3 DEF LinkRefs
  <2> HIDE DEF x, y
  <2>5. CASE n = <<"messages", y>>
    <3>1. n[1] = "messages" /\ n[2] = y  BY <2>5
    <3> QED  BY <1>3, <2>3, <2>5, <3>1 DEF Placed, Sequenced, Owned
  <2> QED  BY <1>2, <2>3, <2>4, <2>5
<1>4. CASE table = "memory_goal_links" /\ n \notin {Npc, Topic}
  <2>1. PICK m \in r.memories : k[1] = m.memory /\ k[2] \in m.about  BY <1>4 DEF LinkKey
  <2>2. m.memory \in MemoryIds(r) /\ m.about \subseteq GoalIds(r)
    BY DEF MemoryIds, RunOK, MemoriesOK
  <2> DEFINE x == k[1]
             y == k[2]
  <2>3. x \in MemoryIds(r) /\ y \in GoalIds(r)  BY <2>1, <2>2
  <2>4. n = <<"memories", x>> \/ n = <<"goals", y>>  BY <1>4 DEF LinkRefs
  <2> HIDE DEF x, y
  <2>5. CASE n = <<"goals", y>>
    <3>1. n[1] = "goals" /\ n[2] = y  BY <2>5
    <3> QED  BY <1>4, <2>3, <2>5, <3>1 DEF Placed, Sequenced, Owned
  <2> QED  BY <1>2, <2>3, <2>4, <2>5
<1>5. CASE table \in {"memory_actor_links", "memory_topic_links"} /\ n \notin {Npc, Topic}
  <2>1. k \in MemoryIds(r) /\ n = <<"memories", k>>  BY <1>5 DEF LinkKey, LinkRefs
  <2> QED  BY <1>2, <2>1
<1> QED  BY <1>1, <1>3, <1>4, <1>5 DEF LinkNames

LEMMA RequestPlaced ==
  ASSUME NEW r, RunOK(r), NEW table \in RequestNames, NEW k \in RequestKeys(table, r),
         NEW n \in RequestRefs(table, k), NEW t, TableOf(t) = table
  PROVE  Placed(n, t, r)
<1>1. CASE n \in {Chapter, Npc}  BY <1>1 DEF Placed
<1>2. ASSUME NEW c \in Opened(r), n = <<"conversations", c>>, table \in {"invitations", "join_requests"}
      PROVE  Placed(n, t, r)
  <2>1. n[1] = "conversations" /\ n[2] = c  BY <1>2
  <2> QED  BY <1>2, <2>1 DEF Placed, Sequenced, Owned
<1>3. CASE table = "invitations" /\ n \notin {Chapter, Npc}
  <2> DEFINE x == k[1]
             y == k[2]
  <2>1. x \in Opened(r) /\ y \in GoalIds(r)  BY <1>3 DEF RequestKeys, RunOK
  <2>2. n = <<"conversations", x>> \/ n = <<"goals", y>>  BY <1>3 DEF RequestRefs
  <2> HIDE DEF x, y
  <2>3. CASE n = <<"goals", y>>
    <3>1. n[1] = "goals" /\ n[2] = y  BY <2>3
    <3> QED  BY <1>3, <2>1, <2>3, <3>1 DEF Placed, Sequenced, Owned
  <2> QED  BY <1>2, <1>3, <2>1, <2>2, <2>3
<1>4. CASE table = "join_requests" /\ n \notin {Chapter, Npc}
  <2> DEFINE x == k[1]
  <2>1. k \in Segments(r)  BY <1>4 DEF RequestKeys
  <2>2. x \in Opened(r)  BY <2>1, SegmentsOpened
  <2>3. n = <<"conversations", x>>  BY <1>4 DEF RequestRefs
  <2> HIDE DEF x
  <2> QED  BY <1>2, <1>4, <2>2, <2>3
<1>5. CASE table = "join_request_approvers" /\ n \notin {Chapter, Npc}
  <2>1. n = <<"join_requests", k>> /\ k \in {s \in Segments(r) : s[2] = 2}
    BY <1>5 DEF RequestRefs, RequestKeys
  <2>2. n[1] = "join_requests" /\ n[2] = k  BY <2>1
  <2> QED  BY <1>5, <2>1, <2>2 DEF Placed, Sequenced, Owned
<1> QED  BY <1>1, <1>3, <1>4, <1>5 DEF RequestNames

LEMMA RefsPlaced ==
  ASSUME NEW r, RunOK(r), NEW stored, NEW table, NEW t \in RowsOf(table, r, stored), NEW n \in t.refs
  PROVE  Placed(n, t, r)
<1>1. TableOf(t) = table  BY RowsOfOK
<1>2. CASE table = "goals"
  <2>1. PICK i \in DOMAIN r.goals :
          /\ t.name = <<"goals", r.goals[i].goal>>
          /\ t.refs = {Chapter, Npc} \cup {<<"goals", p>> : p \in r.goals[i].parents}
                         \cup (IF r.goals[i].goal = 0 THEN {Definition} ELSE {})
    BY <1>2, GoalRowIs
  <2>2. n \in {Chapter, Npc, Definition} \/ \E p \in r.goals[i].parents : n = <<"goals", p>>
    BY <2>1
  <2> QED  BY <1>1, <1>2, <2>1, <2>2 DEF Placed, Parent
<1>3. CASE table = "memories"
  <2> DEFINE refs(m) == {Chapter, Npc} \cup (IF m.said = {} THEN {<<"world_events", "event">>}
                                            ELSE {<<"conversations", s[1]>> : s \in m.said})
  <2>1. PICK m \in r.memories :
          t = [name |-> <<"memories", m.memory>>, refs |-> refs(m), status |-> VectorOf(m.memory, stored)]
    BY <1>3, MemoryRowIs
  <2> HIDE DEF refs
  <2>2. t.refs = refs(m)  BY <2>1
  <2>3. \/ n \in {Chapter, Npc} \/ (n = <<"world_events", "event">> /\ m.said = {})
        \/ \E s \in m.said : n = <<"conversations", s[1]>>
    BY <2>2 DEF refs
  <2>4. m.said \subseteq r.messages /\ (m.said = {} => r.event = TRUE) /\ r.messages \subseteq Segments(r)
    BY DEF RunOK, MemoriesOK
  <2>5. ASSUME NEW s \in m.said, n = <<"conversations", s[1]>> PROVE Placed(n, t, r)
    <3> DEFINE c == s[1]
    <3>1. c \in Opened(r) /\ n = <<"conversations", c>>  BY <2>4, <2>5, SegmentsOpened
    <3> HIDE DEF c
    <3>2. n[1] = "conversations" /\ n[2] = c  BY <3>1
    <3> QED  BY <1>1, <1>3, <3>1, <3>2 DEF Placed, Sequenced, Owned
  <2>6. ASSUME n = <<"world_events", "event">>, m.said = {} PROVE Placed(n, t, r)
    BY <1>1, <1>3, <2>4, <2>6 DEF Placed, Event
  <2>7. ASSUME n \in {Chapter, Npc} PROVE Placed(n, t, r)  BY <2>7 DEF Placed
  <2> QED  BY <2>3, <2>5, <2>6, <2>7
<1>4. CASE table \notin {"goals", "memories"}
  <2>1. PICK e \in EntriesOf(table, r) : t = Row(table, e[1], e[2])  BY <1>4 DEF RowsOf
  <2>2. t.refs = e[2] /\ EntryKnown(table, e, r)  BY <2>1, EntriesKnown DEF Row
  <2>3. ASSUME table \in ChapterNames, e[2] = ChapterRefs(table, e[1]),
               table = "world_event_observers" => r.event = TRUE
        PROVE  Placed(n, t, r)
    <3>1. n \in ChapterRefs(table, e[1])  BY <2>2, <2>3
    <3>2. n \in {Chapter, Npc, Board} \/ (n = Event /\ table = "world_event_observers")
      BY <3>1 DEF ChapterRefs
    <3> QED  BY <1>1, <2>3, <3>2 DEF Placed
  <2> QED  BY <1>1, <1>4, <2>2, <2>3, TalkPlaced, LinkPlaced, RequestPlaced DEF EntryKnown
<1> QED  BY <1>2, <1>3, <1>4

LEMMA EntryRow ==
  ASSUME NEW table, table \notin {"goals", "memories"}, NEW r, NEW stored, NEW e \in EntriesOf(table, r)
  PROVE  \E u \in RowsOf(table, r, stored) : u.name = <<table, e[1]>>
<1>1. Row(table, e[1], e[2]) \in RowsOf(table, r, stored)  BY DEF RowsOf
<1>2. Row(table, e[1], e[2]).name = <<table, e[1]>>  BY DEF Row
<1> QED  BY <1>1, <1>2

LEMMA GoalRowThere ==
  ASSUME NEW r, NEW stored, NEW i \in DOMAIN r.goals
  PROVE  /\ GoalRows(r)[i] \in RowsOf("goals", r, stored)
         /\ GoalRows(r)[i].name = <<"goals", r.goals[i].goal>>
<1>1. DOMAIN GoalRows(r) = DOMAIN r.goals  BY DEF GoalRows
<1>2. GoalRows(r)[i] \in RowsOf("goals", r, stored)  BY <1>1 DEF RowsOf, ToSet
<1> DEFINE refs == {Chapter, Npc} \cup {<<"goals", p>> : p \in r.goals[i].parents}
                     \cup (IF r.goals[i].goal = 0 THEN {Definition} ELSE {})
<1>3. GoalRows(r)[i] = [Row("goals", r.goals[i].goal, refs) EXCEPT !.status = r.goals[i].status]
  BY DEF GoalRows
<1> HIDE DEF refs
<1>4. GoalRows(r)[i].name = <<"goals", r.goals[i].goal>>  BY <1>3 DEF Row
<1> QED  BY <1>2, <1>4

LEMMA OwnedHas ==
  ASSUME NEW r, NEW stored, NEW n, Owned(n, r)
  PROVE  \E u \in RowsOf(n[1], r, stored) : u.name = n
<1> DEFINE k == n[2]
<1>1. CASE n = <<"conversations", k>> /\ k \in Opened(r)
  <2> DEFINE refs == {Chapter}
             e == <<k, refs>>
  <2>1. e \in TalkEntries("conversations", r)  BY <1>1 DEF TalkEntries
  <2> HIDE DEF refs
  <2>2. e[1] = k /\ e \in EntriesOf("conversations", r)  BY <2>1 DEF EntriesOf
  <2>3. n[1] = "conversations"  BY <1>1
  <2> HIDE DEF e, k
  <2>4. e \in EntriesOf("conversations", r)  BY <2>2
  <2>5. \E u \in RowsOf("conversations", r, stored) : u.name = <<"conversations", e[1]>>
    BY <2>4, EntryRow
  <2> QED  BY <1>1, <2>2, <2>3, <2>5
<1>2. CASE n = <<"conversation_segments", k>> /\ k \in Segments(r)
  <2> DEFINE refs == {<<"conversations", k[1]>>}
             e == <<k, refs>>
  <2>1. e \in TalkEntries("conversation_segments", r)  BY <1>2 DEF TalkEntries
  <2> HIDE DEF refs
  <2>2. e[1] = k /\ e \in EntriesOf("conversation_segments", r)  BY <2>1 DEF EntriesOf
  <2>3. n[1] = "conversation_segments"  BY <1>2
  <2> HIDE DEF e, k
  <2>4. e \in EntriesOf("conversation_segments", r)  BY <2>2
  <2>5. \E u \in RowsOf("conversation_segments", r, stored) : u.name = <<"conversation_segments", e[1]>>
    BY <2>4, EntryRow
  <2> QED  BY <1>2, <2>2, <2>3, <2>5
<1>3. CASE n = <<"messages", k>> /\ k \in r.messages
  <2> DEFINE refs == {<<"conversations", k[1]>>, <<"conversation_segments", k>>, Npc}
             e == <<k, refs>>
  <2>1. e \in TalkEntries("messages", r)  BY <1>3 DEF TalkEntries
  <2> HIDE DEF refs
  <2>2. e[1] = k /\ e \in EntriesOf("messages", r)  BY <2>1 DEF EntriesOf
  <2>3. n[1] = "messages"  BY <1>3
  <2> HIDE DEF e, k
  <2>4. e \in EntriesOf("messages", r)  BY <2>2
  <2>5. \E u \in RowsOf("messages", r, stored) : u.name = <<"messages", e[1]>>
    BY <2>4, EntryRow
  <2> QED  BY <1>3, <2>2, <2>3, <2>5
<1>4. CASE n = <<"goals", k>> /\ k \in GoalIds(r)
  <2>1. PICK i \in DOMAIN r.goals : k = r.goals[i].goal  BY <1>4 DEF GoalIds
  <2>2. n[1] = "goals"  BY <1>4
  <2> QED  BY <1>4, <2>1, <2>2, GoalRowThere
<1>5. CASE n = <<"memories", k>> /\ k \in MemoryIds(r)
  <2>1. n[1] = "memories"  BY <1>5
  <2>2. \E u \in RowsOf("memories", r, stored) : u.name = <<"memories", k>>
    BY <1>5, MemoryRows
  <2> QED  BY <1>5, <2>1, <2>2
<1>6. CASE n = <<"join_requests", k>> /\ k \in {s \in Segments(r) : s[2] = 2}
  <2> DEFINE refs == {Chapter, Npc, <<"conversations", k[1]>>}
             e == <<k, refs>>
  <2>1. e \in RequestEntries("join_requests", r)  BY <1>6 DEF RequestEntries
  <2> HIDE DEF refs
  <2>2. e[1] = k /\ e \in EntriesOf("join_requests", r)  BY <2>1 DEF EntriesOf
  <2>3. n[1] = "join_requests"  BY <1>6
  <2> HIDE DEF e, k
  <2>4. e \in EntriesOf("join_requests", r)  BY <2>2
  <2>5. \E u \in RowsOf("join_requests", r, stored) : u.name = <<"join_requests", e[1]>>
    BY <2>4, EntryRow
  <2> QED  BY <1>6, <2>2, <2>3, <2>5
<1> QED  BY <1>1, <1>2, <1>3, <1>4, <1>5, <1>6 DEF Owned

\* The order of the inserts.
LEMMA SequencedInserts ==
  ASSUME NEW p, NEW x, Sequenced(p, x), NEW i \in DOMAIN InsertOrder, InsertOrder[i] = x
  PROVE  \E j \in 1..(i - 1) : InsertOrder[j] = p
<1>1. /\ InsertOrder[1] = "conversations" /\ InsertOrder[3] = "conversation_segments"
      /\ InsertOrder[5] = "messages" /\ InsertOrder[7] = "goals" /\ InsertOrder[9] = "memories"
      /\ InsertOrder[16] = "join_requests"
  BY DEF InsertOrder
<1>2. DOMAIN InsertOrder = 1..23  BY DEF InsertOrder
<1>3. i \in 1..23  BY <1>2
<1>4. /\ i = 1 => InsertOrder[i] = "conversations"
      /\ i = 2 => InsertOrder[i] = "conversation_participants"
      /\ i = 3 => InsertOrder[i] = "conversation_segments"
      /\ i = 4 => InsertOrder[i] = "segment_participants"
      /\ i = 5 => InsertOrder[i] = "messages"
      /\ i = 6 => InsertOrder[i] = "conversation_idle_states"
      /\ i = 7 => InsertOrder[i] = "goals"
      /\ i = 8 => InsertOrder[i] = "relationships"
      /\ i = 9 => InsertOrder[i] = "memories"
      /\ i = 10 => InsertOrder[i] = "memory_evidence_messages"
      /\ i = 11 => InsertOrder[i] = "memory_actor_links"
      /\ i = 12 => InsertOrder[i] = "memory_topic_links"
      /\ i = 13 => InsertOrder[i] = "memory_goal_links"
      /\ i = 14 => InsertOrder[i] = "memory_edges"
      /\ i = 15 => InsertOrder[i] = "invitations"
      /\ i = 16 => InsertOrder[i] = "join_requests"
  BY DEF InsertOrder
<1>5. ASSUME i <= 1 PROVE x = "conversations"  BY <1>3, <1>4, <1>5
<1>6. ASSUME i <= 3 PROVE x \in {"conversations", "conversation_participants", "conversation_segments"}
  BY <1>3, <1>4, <1>6
<1>7. ASSUME i <= 5
      PROVE  x \in {"conversations", "conversation_participants", "conversation_segments",
                    "segment_participants", "messages"}
  BY <1>3, <1>4, <1>7
<1>8. ASSUME i <= 7
      PROVE  x \in {"conversations", "conversation_participants", "conversation_segments",
                    "segment_participants", "messages", "conversation_idle_states", "goals"}
  BY <1>3, <1>4, <1>8
<1>9. ASSUME i <= 9
      PROVE  x \in {"conversations", "conversation_participants", "conversation_segments",
                    "segment_participants", "messages", "conversation_idle_states", "goals",
                    "relationships", "memories"}
  BY <1>3, <1>4, <1>9
<1>10. ASSUME i <= 16 PROVE x # "join_request_approvers"  BY <1>3, <1>4, <1>10
<1>11. CASE p = "conversations"
  <2>1. i > 1  BY <1>3, <1>5, <1>11 DEF Sequenced
  <2>2. 1 \in 1..(i - 1)  BY <1>3, <2>1
  <2> QED  BY <1>1, <1>11, <2>2
<1>12. CASE p = "conversation_segments"
  <2>1. i > 3  BY <1>3, <1>6, <1>12 DEF Sequenced
  <2>2. 3 \in 1..(i - 1)  BY <1>3, <2>1
  <2> QED  BY <1>1, <1>12, <2>2
<1>13. CASE p = "messages"
  <2>1. i > 5  BY <1>3, <1>7, <1>13 DEF Sequenced
  <2>2. 5 \in 1..(i - 1)  BY <1>3, <2>1
  <2> QED  BY <1>1, <1>13, <2>2
<1>14. CASE p = "goals"
  <2>1. i > 7  BY <1>3, <1>8, <1>14 DEF Sequenced
  <2>2. 7 \in 1..(i - 1)  BY <1>3, <2>1
  <2> QED  BY <1>1, <1>14, <2>2
<1>15. CASE p = "memories"
  <2>1. i > 9  BY <1>3, <1>9, <1>15 DEF Sequenced, LinkNames
  <2>2. 9 \in 1..(i - 1)  BY <1>3, <2>1
  <2> QED  BY <1>1, <1>15, <2>2
<1>16. CASE p = "join_requests"
  <2>1. i > 16  BY <1>3, <1>10, <1>16 DEF Sequenced
  <2>2. 16 \in 1..(i - 1)  BY <1>3, <2>1
  <2> QED  BY <1>1, <1>16, <2>2
<1> QED  BY <1>11, <1>12, <1>13, <1>14, <1>15, <1>16 DEF Sequenced

LEMMA SequencedWholes ==
  ASSUME NEW p, NEW x, Sequenced(p, x)
  PROVE  p \in ToSet(InsertOrder) /\ p \in Wholes
<1>1. p \in Wholes  BY DEF Sequenced, Wholes
<1> QED  BY <1>1, WholesAre

-----------------------------------------------------------------------------
(* The order of the deletions                                                *)

LEMMA WholeDeletes ==
  ASSUME NEW rs
  PROVE  DeletesInOrder(rs, DeleteOrder)
<1>1. /\ DeleteOrder[2] = "chapter_agenda_stances" /\ DeleteOrder[3] = "chapter_authorizations"
      /\ DeleteOrder[4] = "chapter_actor_stances" /\ DeleteOrder[14] = "invitations"
      /\ DeleteOrder[15] = "memories" /\ DeleteOrder[17] = "goals"
      /\ DOMAIN DeleteOrder = 1..23
  BY DEF DeleteOrder
<1>2. \A j \in 1..14 : DeleteOrder[j] \notin {"memories", "messages", "goals", "conversations",
                                             "conversation_segments", "world_events"}
  <2> SUFFICES ASSUME NEW j \in 1..14
               PROVE  DeleteOrder[j] \notin {"memories", "messages", "goals", "conversations",
                                             "conversation_segments", "world_events"}
    OBVIOUS
  <2> QED  BY DEF DeleteOrder
<1>3. DeleteOrder[16] = "relationships"  BY DEF DeleteOrder
<1>4. \A j \in 1..16 : DeleteOrder[j] # "goals"  BY <1>1, <1>2, <1>3
<1>5. ASSUME NEW a, NEW b, Restricts(a, b), b \in ToSet(DeleteOrder)
      PROVE  \E i \in DOMAIN DeleteOrder : DeleteOrder[i] = a /\ \A j \in 1..(i - 1) : DeleteOrder[j] # b
  <2>1. b \in Wholes  BY <1>5, WholesAre
  <2>2. \/ b = "goals" /\ a \in {"goals", "invitations"}
        \/ b = "conversations" /\ a \in {"invitations", "memories"}
        \/ b = "conversation_segments" /\ a = "memories"
        \/ b \in {"messages", "memories"} /\ a \in {"chapter_actor_stances", "chapter_authorizations",
                                                    "chapter_agenda_stances"}
    BY <1>5, <2>1 DEF Restricts, Wholes
  <2>3. CASE a = "goals" /\ b = "goals"
    <3>1. \A j \in 1..(17 - 1) : DeleteOrder[j] # b  BY <1>4, <2>3
    <3> QED  BY <1>1, <2>3, <3>1
  <2>4. CASE a = "invitations"
    <3>1. \A j \in 1..(14 - 1) : DeleteOrder[j] # b  BY <1>2, <2>2, <2>4
    <3> QED  BY <1>1, <2>4, <3>1
  <2>5. CASE a = "memories"
    <3>1. \A j \in 1..(15 - 1) : DeleteOrder[j] # b  BY <1>2, <2>2, <2>5
    <3> QED  BY <1>1, <2>5, <3>1
  <2>6. CASE a = "chapter_agenda_stances"
    <3>1. \A j \in 1..(2 - 1) : DeleteOrder[j] # b  BY <1>2, <2>2, <2>6
    <3> QED  BY <1>1, <2>6, <3>1
  <2>7. CASE a = "chapter_authorizations"
    <3>1. \A j \in 1..(3 - 1) : DeleteOrder[j] # b  BY <1>2, <2>2, <2>7
    <3> QED  BY <1>1, <2>7, <3>1
  <2>8. CASE a = "chapter_actor_stances"
    <3>1. \A j \in 1..(4 - 1) : DeleteOrder[j] # b  BY <1>2, <2>2, <2>8
    <3> QED  BY <1>1, <2>8, <3>1
  <2> QED  BY <2>2, <2>3, <2>4, <2>5, <2>6, <2>7, <2>8
<1>6. ASSUME NEW t \in rs, NEW p \in rs, Refers(t, p, "RESTRICT"), TableOf(p) \in ToSet(DeleteOrder)
      PROVE  \E i \in DOMAIN DeleteOrder :
                DeleteOrder[i] = TableOf(t) /\ \A j \in 1..(i - 1) : DeleteOrder[j] # TableOf(p)
  <2>1. Restricts(TableOf(t), TableOf(p))  BY <1>6, ReferencesAre DEF Refers
  <2> QED  BY <1>5, <1>6, <2>1
<1> QED  BY <1>6 DEF DeletesInOrder

\* No row RESTRICTs the deletion of one of these.
LEMMA FreeDeletes ==
  ASSUME NEW rs, NEW deletes, \A a, b : b \in ToSet(deletes) => ~Restricts(a, b)
  PROVE  DeletesInOrder(rs, deletes)
<1>1. ASSUME NEW t \in rs, NEW p \in rs, Refers(t, p, "RESTRICT"), TableOf(p) \in ToSet(deletes)
      PROVE  FALSE
  <2>1. Restricts(TableOf(t), TableOf(p))  BY <1>1, ReferencesAre DEF Refers
  <2> QED  BY <1>1, <2>1
<1> QED  BY <1>1 DEF DeletesInOrder

-----------------------------------------------------------------------------
(* The parts of a save                                                       *)

\* A run with goals in order and statuses that are listed, and the rows it needs to be there.
SaveReady(r, stored) ==
    RunOK(r) /\ RowsOK(stored, 6) /\ Based(stored) /\ ~Misordered(r) /\ ~Outdated(r)

LEMMA LawfulRows ==
  ASSUME NEW r, NEW stored, SaveReady(r, stored), NEW table, NEW t \in RowsOf(table, r, stored)
  PROVE  Lawful(t, 6)
<1>1. RowOK(t) /\ TableOf(t) = table  BY RowsOfOK
<1>2. CASE table = "goals"
  <2>1. PICK i \in DOMAIN r.goals : t.status = r.goals[i].status  BY <1>2, GoalRowIs DEF SaveReady
  <2>2. r.goals[i].status \in GoalStatuses(6)  BY DEF SaveReady, Outdated
  <2> QED  BY <1>1, <1>2, <2>1, <2>2 DEF Lawful
<1>3. CASE table = "memories"
  <2>1. t.status = VectorOf(t.name[2], stored)  BY <1>3, MemoryRows
  <2> DEFINE id == t.name[2]
             known == {x \in stored : x.name = <<"memories", id>>}
  <2>2. CASE known = {}  BY <1>1, <1>3, <2>1, <2>2 DEF VectorOf, Lawful
  <2>3. CASE known # {}
    <3>1. (CHOOSE x \in known : TRUE) \in known  BY <2>3
    <3>2. \A x \in known : x.status \in {"none", Vector(6)}
      BY DEF SaveReady, RowsOK, Lawful, TableOf
    <3>3. VectorOf(id, stored) \in {"none", Vector(6)}  BY <2>3, <3>1, <3>2 DEF VectorOf
    <3> QED  BY <1>1, <1>3, <2>1, <3>3 DEF Lawful
  <2> QED  BY <2>2, <2>3
<1>4. CASE table \notin {"goals", "memories"}  BY <1>1, <1>4 DEF Lawful
<1> QED  BY <1>2, <1>3, <1>4

LEMMA GoalsPlaced ==
  ASSUME NEW r, RunOK(r), ~Misordered(r), NEW n, NEW t, Parent(n, t, r)
  PROVE  n \in GoalsBefore(t, r)
<1>1. PICK i \in DOMAIN r.goals : t.name = <<"goals", r.goals[i].goal>> /\
         \E p \in r.goals[i].parents : n = <<"goals", p>>
  BY DEF Parent
<1>2. PICK p \in r.goals[i].parents : n = <<"goals", p>>  BY <1>1
<1>3. p # r.goals[i].goal  BY DEF RunOK, GoalsOK
<1>4. PICK j \in DOMAIN r.goals : r.goals[j].goal = p  BY DEF RunOK, GoalsOK
<1>5. r.goals \in Seq(GoalRecord)  BY DEF RunOK, GoalsOK
<1>6. i \in Nat /\ j \in Nat  BY <1>5, LenProperties
<1>7. j < i
  <2>1. ~(i < j)  BY <1>4 DEF Misordered
  <2>2. i # j  BY <1>3, <1>4
  <2> QED  BY <1>6, <2>1, <2>2
<1>8. j \in {k \in DOMAIN r.goals : \E x \in DOMAIN r.goals :
                                     k < x /\ t.name = <<"goals", r.goals[x].goal>>}
  BY <1>1, <1>7
<1>9. n = <<"goals", r.goals[j].goal>>  BY <1>2, <1>4
<1> QED  BY <1>8, <1>9 DEF GoalsBefore

LEMMA NamesApart ==
  ASSUME NEW rs, NEW tables, NEW t, TableOf(t) \in tables
  PROVE  t.name \notin Names({u \in rs : TableOf(u) \notin tables})
BY DEF Names, TableOf

\* A part of a save that replaces the rows of some tables.
LEMMA ReplacedFits ==
  ASSUME NEW done, done.ok = TRUE, NEW deletes, Closed(deletes), DeletesInOrder(done.rows, deletes),
         NEW inserts, ToSet(inserts) \subseteq ToSet(deletes), NEW r, NEW stored, SaveReady(r, stored),
         NEW kept, kept = {t \in done.rows : TableOf(t) \notin ToSet(deletes)},
         \A t \in NewRows(inserts, r, stored) : \A n \in t.refs :
            Placed(n, t, r) => Earlier(n, t, kept, NewRows(inserts, r, stored), inserts, r)
  PROVE  Replaced(done, deletes, inserts, r, stored).ok = TRUE
<1> DEFINE new == NewRows(inserts, r, stored)
<1>1. ASSUME NEW t \in new
      PROVE  /\ Lawful(t, 6) /\ t.name \notin Names(kept)
             /\ \A n \in t.refs : Earlier(n, t, kept, new, inserts, r)
  <2>1. TableOf(t) \in ToSet(deletes) /\ t \in RowsOf(TableOf(t), r, stored)  BY NewRowsOK
  <2>2. Lawful(t, 6)  BY <2>1, LawfulRows
  <2>3. t.name \notin Names(kept)  BY <2>1, NamesApart
  <2>4. \A n \in t.refs : Placed(n, t, r)  BY <2>1, RefsPlaced DEF SaveReady
  <2> QED  BY <2>2, <2>3, <2>4
<1> HIDE DEF new
<1>2. Fits(kept, new, inserts, r)  BY <1>1 DEF Fits
<1>3. InsertsInOrder(kept, new, inserts, r)  BY <1>2, InsertsFit DEF SaveReady, new
<1> QED  BY <1>3, ReplacedIs DEF new

\* A part of a save that inserts what is not there.
LEMMA MergedFits ==
  ASSUME NEW done, done.ok = TRUE, NEW inserts, NEW r, NEW stored, SaveReady(r, stored),
         NEW new, new = {t \in NewRows(inserts, r, stored) : t.name \notin Names(done.rows)},
         \A t \in new : \A n \in t.refs : Placed(n, t, r) => Earlier(n, t, done.rows, new, inserts, r)
  PROVE  Merged(done, inserts, r, stored).ok = TRUE
<1>1. ASSUME NEW t \in new
      PROVE  /\ Lawful(t, 6) /\ t.name \notin Names(done.rows)
             /\ \A n \in t.refs : Earlier(n, t, done.rows, new, inserts, r)
  <2>1. t \in RowsOf(TableOf(t), r, stored)  BY NewRowsOK
  <2>2. Lawful(t, 6)  BY <2>1, LawfulRows
  <2>3. \A n \in t.refs : Placed(n, t, r)  BY <2>1, RefsPlaced DEF SaveReady
  <2> QED  BY <2>2, <2>3
<1>2. Fits(done.rows, new, inserts, r)  BY <1>1 DEF Fits
<1>3. new \subseteq NewRows(inserts, r, stored)  OBVIOUS
<1>4. InsertsInOrder(done.rows, new, inserts, r)  BY <1>2, <1>3, InsertsFit DEF SaveReady
<1> QED  BY <1>4, MergedIs

Plain == {"run_actor_states", "run_daily_schedules", "run_state_items", "world_events", "run_events",
          "command_records"}

LEMMA PlainPlaced ==
  ASSUME NEW n, NEW t, NEW r, Placed(n, t, r), TableOf(t) \in Plain
  PROVE  n \in {Chapter, Npc, Board, Definition, Topic}
<1>1. ~Sequenced(n[1], TableOf(t))  BY DEF Sequenced, Plain, LinkNames
<1> QED  BY <1>1 DEF Placed, Plain

\* The rows every run refers to are in every part of a save.
LEMMA SaveBased ==
  ASSUME NEW r, NEW stored, SaveReady(r, stored), NEW all, all = SaveRows(r, stored)
  PROVE  /\ Based(all.first) /\ Based(all.unseen) /\ Based(all.told) /\ Based(all.whole)
         /\ Based(all.events)
         /\ Based({t \in stored : TableOf(t) \notin ToSet(Direct)})
         /\ Based({t \in all.told : TableOf(t) \notin ToSet(DeleteOrder)})
         /\ Based({t \in all.events : TableOf(t) \notin ToSet(<<"command_records">>)})
<1>1. \A v :
        /\ v \in all.first <=> \/ v \in stored /\ TableOf(v) \notin Firsts
                               \/ TableOf(v) \in Firsts /\ v \in RowsOf(TableOf(v), r, stored)
        /\ v \in all.unseen <=> v \in all.first /\ TableOf(v) # "world_event_observers"
        /\ v \in all.told <=> \/ v \in all.unseen
                              \/ /\ TableOf(v) \in {"world_events", "world_event_observers"}
                                 /\ v \in RowsOf(TableOf(v), r, stored) /\ v.name \notin Names(all.unseen)
        /\ v \in all.whole <=> \/ v \in all.told /\ TableOf(v) \notin Wholes
                               \/ TableOf(v) \in Wholes /\ v \in RowsOf(TableOf(v), r, stored)
        /\ v \in all.events <=> \/ v \in all.whole
                                \/ /\ TableOf(v) = "run_events"
                                   /\ v \in RowsOf(TableOf(v), r, stored) /\ v.name \notin Names(all.whole)
        /\ v \in all.saved <=> \/ v \in all.events /\ TableOf(v) # "command_records"
                               \/ TableOf(v) = "command_records" /\ v \in RowsOf(TableOf(v), r, stored)
  BY SaveParts
<1> DEFINE base == {Chapter, Npc, Board, Definition, Topic}
<1>2. ASSUME NEW x \in base
      PROVE  \E v \in stored : v.name = x /\ TableOf(v) \in {"chapter_runs", "actors", "agendas",
                                                             "goal_definitions", "topics"}
  <2>1. PICK v \in stored : v.name = x  BY DEF SaveReady, Based, Names
  <2>2. TableOf(v) \in {"chapter_runs", "actors", "agendas", "goal_definitions", "topics"}
    BY <2>1 DEF TableOf, Chapter, Npc, Board, Definition, Topic
  <2> QED  BY <2>1, <2>2
<1>3. ASSUME NEW v \in stored, TableOf(v) \in {"chapter_runs", "actors", "agendas", "goal_definitions",
                                               "topics"}
      PROVE  /\ v \in all.first /\ v \in all.unseen /\ v \in all.told /\ v \in all.whole /\ v \in all.events
             /\ TableOf(v) \notin ToSet(Direct) /\ TableOf(v) \notin ToSet(DeleteOrder)
             /\ TableOf(v) \notin ToSet(<<"command_records">>)
  <2>1. TableOf(v) \notin Firsts /\ TableOf(v) # "world_event_observers" /\ TableOf(v) \notin Wholes
    BY <1>3 DEF Firsts, Wholes
  <2>2. v \in all.first  BY <1>1, <2>1
  <2>3. v \in all.unseen /\ v \in all.told  BY <1>1, <2>1, <2>2
  <2>4. v \in all.whole /\ v \in all.events  BY <1>1, <2>1, <2>3
  <2>5. TableOf(v) \notin ToSet(Direct) /\ TableOf(v) \notin ToSet(<<"command_records">>)
    BY <1>3, SaveLists DEF SaveListSets
  <2>6. TableOf(v) \notin ToSet(DeleteOrder)  BY <2>1, WholesAre
  <2> QED  BY <2>2, <2>3, <2>4, <2>5, <2>6
<1> HIDE DEF base
<1>4. ASSUME NEW rs, \A v \in stored : TableOf(v) \in {"chapter_runs", "actors", "agendas",
                                                      "goal_definitions", "topics"} => v \in rs
      PROVE  Based(rs)
  <2>1. base \subseteq Names(rs)  BY <1>2, <1>4 DEF Names
  <2> QED  BY <2>1 DEF Based, base
<1> DEFINE list == <<"command_records">>
           direct == {t \in stored : TableOf(t) \notin ToSet(Direct)}
           whole  == {t \in all.told : TableOf(t) \notin ToSet(DeleteOrder)}
           last   == {t \in all.events : TableOf(t) \notin ToSet(list)}
<1>5. \A v \in stored : TableOf(v) \in {"chapter_runs", "actors", "agendas", "goal_definitions", "topics"}
        => v \in direct /\ v \in whole /\ v \in last
  BY <1>3
<1> HIDE DEF list, direct, whole, last
<1>6. Based(direct) /\ Based(whole) /\ Based(last)  BY <1>4, <1>5
<1>7. Based(all.first) /\ Based(all.unseen) /\ Based(all.told) /\ Based(all.whole) /\ Based(all.events)
  BY <1>3, <1>4
<1> QED  BY <1>6, <1>7 DEF direct, whole, last, list

LEMMA BasedEarlier ==
  ASSUME NEW kept, Based(kept), NEW n \in {Chapter, Npc, Board, Definition, Topic}, NEW t, NEW new,
         NEW inserts, NEW r
  PROVE  Earlier(n, t, kept, new, inserts, r)
  BY DEF Based, Earlier

LEMMA FirstFits ==
  ASSUME NEW r, NEW stored, SaveReady(r, stored)
  PROVE  SaveFirst(r, stored).ok = TRUE
<1> DEFINE done == [rows |-> stored, ok |-> TRUE]
           kept == {t \in stored : TableOf(t) \notin ToSet(Direct)}
           new == NewRows(Direct, r, stored)
<1>1. done.rows = stored /\ done.ok = TRUE  OBVIOUS
<1>2. Based(kept)  BY SaveBased
<1>3. \A a, b : b \in ToSet(Direct) => ~Restricts(a, b)
  BY SaveLists DEF SaveListSets, Restricts
<1>4. DeletesInOrder(stored, Direct)  BY <1>3, FreeDeletes
<1>5. ASSUME NEW t \in new, NEW n \in t.refs, Placed(n, t, r)
      PROVE  Earlier(n, t, kept, new, Direct, r)
  <2>1. TableOf(t) \in ToSet(Direct)  BY NewRowsOK
  <2>2. TableOf(t) \in Plain  BY <2>1, SaveLists DEF SaveListSets, Plain
  <2>3. n \in {Chapter, Npc, Board, Definition, Topic}  BY <1>5, <2>2, PlainPlaced
  <2> HIDE DEF kept, new
  <2> QED  BY <1>2, <2>3, BasedEarlier
<1>6. Closed(Direct)  BY SaveListsClosed
<1>7. kept = {t \in done.rows : TableOf(t) \notin ToSet(Direct)}  BY <1>1
<1> HIDE DEF done, kept
<1>8. Replaced(done, Direct, Direct, r, stored).ok = TRUE
  BY <1>1, <1>4, <1>5, <1>6, <1>7, ReplacedFits
<1> QED  BY <1>8 DEF SaveFirst, done

LEMMA UnseenFits ==
  ASSUME NEW r, NEW stored, SaveReady(r, stored)
  PROVE  SaveUnseen(r, stored).ok = TRUE
<1> DEFINE done == SaveFirst(r, stored)
           deletes == <<"world_event_observers">>
           none == <<>>
           kept == {t \in done.rows : TableOf(t) \notin ToSet(deletes)}
           new == NewRows(none, r, stored)
<1>1. done.ok = TRUE  BY FirstFits
<1>2. \A a, b : b \in ToSet(deletes) => ~Restricts(a, b)
  BY SaveLists DEF SaveListSets, Restricts
<1>3. \A x : x \notin ToSet(none)  BY SaveLists DEF SaveListSets
<1>4. Closed(deletes)  BY SaveListsClosed
<1>5. SaveUnseen(r, stored) = Replaced(done, deletes, none, r, stored)  BY DEF SaveUnseen
<1> HIDE DEF done, deletes, none
<1>6. DeletesInOrder(done.rows, deletes)  BY <1>2, FreeDeletes
<1>7. ASSUME NEW t \in new PROVE FALSE  BY <1>3, NewRowsOK
<1>8. ToSet(none) \subseteq ToSet(deletes)  BY <1>3
<1>9. \A t \in NewRows(none, r, stored) : \A n \in t.refs :
        Placed(n, t, r) => Earlier(n, t, kept, NewRows(none, r, stored), none, r)
  BY <1>7
<1> HIDE DEF kept, new
<1>10. kept = {t \in done.rows : TableOf(t) \notin ToSet(deletes)}  BY DEF kept
<1>11. Replaced(done, deletes, none, r, stored).ok = TRUE
  BY <1>1, <1>4, <1>6, <1>8, <1>9, <1>10, ReplacedFits
<1> QED  BY <1>5, <1>11

LEMMA ToldFits ==
  ASSUME NEW r, NEW stored, SaveReady(r, stored)
  PROVE  SaveTold(r, stored).ok = TRUE
<1> DEFINE done == SaveUnseen(r, stored)
           s == <<"world_events", "world_event_observers">>
           new == {t \in NewRows(s, r, stored) : t.name \notin Names(done.rows)}
           rows == SaveRows(r, stored)
<1>1. done.ok = TRUE /\ SaveTold(r, stored) = Merged(done, s, r, stored)  BY UnseenFits DEF SaveTold
<1>2. Based(done.rows)
  <2>1. Based(rows.unseen)  BY SaveBased
  <2> QED  BY <2>1 DEF SaveRows
<1>3. \A x : x \in ToSet(s) <=> x \in {"world_events", "world_event_observers"}
  BY SaveLists DEF SaveListSets
<1>4. s[1] = "world_events" /\ DOMAIN s = {1, 2} /\ s[2] = "world_event_observers"  OBVIOUS
<1> HIDE DEF done, s, rows
<1>5. ASSUME NEW t \in new, NEW n \in t.refs, Placed(n, t, r)
      PROVE  Earlier(n, t, done.rows, new, s, r)
  <2>1. TableOf(t) \in {"world_events", "world_event_observers"}  BY <1>3, NewRowsOK
  <2>2. CASE n \in {Chapter, Npc, Board, Definition, Topic}
    <3> HIDE DEF new
    <3> QED  BY <1>2, <2>2, BasedEarlier
  <2>3. CASE n \notin {Chapter, Npc, Board, Definition, Topic}
    <3>1. n = Event /\ r.event = TRUE /\ TableOf(t) = "world_event_observers"
      <4>1. ~Sequenced(n[1], TableOf(t)) /\ TableOf(t) # "goals"  BY <2>1 DEF Sequenced, LinkNames
      <4> QED  BY <1>5, <2>1, <2>3, <4>1 DEF Placed
    <3>2. CASE Event \in Names(done.rows)  BY <3>1, <3>2 DEF Earlier
    <3>3. CASE Event \notin Names(done.rows)
      <4> DEFINE u == Row("world_events", "event", {Chapter})
      <4>1. u.name = Event /\ TableOf(u) = "world_events"  BY DEF Row, TableOf, Event
      <4>2. u \in RowsOf("world_events", r, stored)  BY <3>1, EventRow
      <4>3. u \in NewRows(s, r, stored)  BY <1>3, <4>2 DEF NewRows
      <4>4. u \in new  BY <3>3, <4>1, <4>3
      <4> HIDE DEF u, new
      <4>5. ASSUME NEW i \in DOMAIN s, s[i] = TableOf(t)
            PROVE  \E j \in 1..(i - 1) : s[j] = TableOf(u)
        <5>1. i = 2  BY <1>4, <3>1, <4>5
        <5>2. 1 \in 1..(i - 1)  BY <5>1
        <5> QED  BY <1>4, <4>1, <5>2
      <4> QED  BY <3>1, <4>1, <4>4, <4>5 DEF Earlier
    <3> QED  BY <3>2, <3>3
  <2> QED  BY <2>2, <2>3
<1>6. Merged(done, s, r, stored).ok = TRUE  BY <1>1, <1>5, MergedFits
<1> QED  BY <1>1, <1>6

LEMMA EventTold ==
  ASSUME NEW r, NEW stored, r.event = TRUE
  PROVE  \E u \in SaveTold(r, stored).rows : u.name = Event /\ TableOf(u) = "world_events"
<1> DEFINE done == SaveUnseen(r, stored)
           s == <<"world_events", "world_event_observers">>
           t == Row("world_events", "event", {Chapter})
<1>1. SaveTold(r, stored) = Merged(done, s, r, stored)  BY DEF SaveTold
<1>2. "world_events" \in ToSet(s)  BY SaveLists DEF SaveListSets
<1>3. t.name = Event  BY DEF Row, Event
<1>4. t \in RowsOf("world_events", r, stored)  BY EventRow
<1> HIDE DEF done, s, t
<1>5. t \in NewRows(s, r, stored)  BY <1>2, <1>4 DEF NewRows
<1>6. \A v : v \in Merged(done, s, r, stored).rows <=>
        v \in done.rows \/ (v \in NewRows(s, r, stored) /\ v.name \notin Names(done.rows))
  BY MergedRow
<1>7. \E u \in SaveTold(r, stored).rows : u.name = Event
  BY <1>1, <1>3, <1>5, <1>6 DEF Names
<1> QED  BY <1>7 DEF TableOf, Event

LEMMA WholeFits ==
  ASSUME NEW r, NEW stored, SaveReady(r, stored)
  PROVE  SaveWhole(r, stored).ok = TRUE
<1> DEFINE done == SaveTold(r, stored)
           kept == {t \in done.rows : TableOf(t) \notin ToSet(DeleteOrder)}
           new == NewRows(InsertOrder, r, stored)
           rows == SaveRows(r, stored)
<1>1. done.ok = TRUE /\ SaveWhole(r, stored) = Replaced(done, DeleteOrder, InsertOrder, r, stored)
  BY ToldFits DEF SaveWhole
<1>2. Based(kept)
  <2>1. Based({t \in rows.told : TableOf(t) \notin ToSet(DeleteOrder)})  BY SaveBased
  <2>2. rows.told = done.rows  BY DEF SaveRows
  <2> HIDE DEF rows, done
  <2> QED  BY <2>1, <2>2
<1>3. r.event = TRUE => Event \in Names(kept)
  <2>1. "world_events" \notin ToSet(DeleteOrder)  BY DeleteOrderHas
  <2> QED  BY <2>1, EventTold DEF Names
<1>4. DeletesInOrder(done.rows, DeleteOrder)  BY WholeDeletes
<1>5. Closed(DeleteOrder) /\ ToSet(InsertOrder) \subseteq ToSet(DeleteOrder)
  BY SaveListsClosed, InsertOrderHas
<1> HIDE DEF done, rows
<1>6. ASSUME NEW t \in new, NEW n \in t.refs, Placed(n, t, r)
      PROVE  Earlier(n, t, kept, new, InsertOrder, r)
  <2>1. CASE n \in {Chapter, Npc, Board, Definition, Topic}
    <3> HIDE DEF kept, new
    <3> QED  BY <1>2, <2>1, BasedEarlier
  <2>2. CASE n = Event /\ r.event = TRUE  BY <1>3, <2>2 DEF Earlier
  <2>3. CASE Parent(n, t, r)  BY <2>3, GoalsPlaced DEF Earlier, SaveReady
  <2>4. CASE Sequenced(n[1], TableOf(t)) /\ Owned(n, r)
    <3>1. PICK u \in RowsOf(n[1], r, stored) : u.name = n  BY <2>4, OwnedHas
    <3>2. TableOf(u) = n[1]  BY <3>1 DEF TableOf
    <3>3. n[1] \in ToSet(InsertOrder)  BY <2>4, SequencedWholes
    <3>4. u \in new  BY <3>1, <3>3 DEF NewRows
    <3> HIDE DEF new
    <3>5. \A i \in DOMAIN InsertOrder : InsertOrder[i] = TableOf(t) =>
            \E j \in 1..(i - 1) : InsertOrder[j] = TableOf(u)
      BY <2>4, <3>2, SequencedInserts
    <3> QED  BY <3>1, <3>4, <3>5 DEF Earlier
  <2> QED  BY <1>6, <2>1, <2>2, <2>3, <2>4 DEF Placed
<1>7. kept = {t \in done.rows : TableOf(t) \notin ToSet(DeleteOrder)}  OBVIOUS
<1> HIDE DEF kept
<1>8. Replaced(done, DeleteOrder, InsertOrder, r, stored).ok = TRUE
  BY <1>1, <1>4, <1>5, <1>6, <1>7, ReplacedFits
<1> QED  BY <1>1, <1>8

LEMMA EventsFits ==
  ASSUME NEW r, NEW stored, SaveReady(r, stored)
  PROVE  SaveEvents(r, stored).ok = TRUE
<1> DEFINE done == SaveWhole(r, stored)
           s == <<"run_events">>
           new == {t \in NewRows(s, r, stored) : t.name \notin Names(done.rows)}
           rows == SaveRows(r, stored)
<1>1. done.ok = TRUE /\ SaveEvents(r, stored) = Merged(done, s, r, stored)  BY WholeFits DEF SaveEvents
<1>2. Based(done.rows)
  <2>1. Based(rows.whole)  BY SaveBased
  <2> QED  BY <2>1 DEF SaveRows
<1>3. \A x : x \in ToSet(s) <=> x = "run_events"  BY SaveLists DEF SaveListSets
<1> HIDE DEF done, s, rows
<1>4. ASSUME NEW t \in new, NEW n \in t.refs, Placed(n, t, r)
      PROVE  Earlier(n, t, done.rows, new, s, r)
  <2>1. TableOf(t) \in Plain  BY <1>3, NewRowsOK DEF Plain
  <2>2. n \in {Chapter, Npc, Board, Definition, Topic}  BY <1>4, <2>1, PlainPlaced
  <2> HIDE DEF new
  <2> QED  BY <1>2, <2>2, BasedEarlier
<1>5. Merged(done, s, r, stored).ok = TRUE  BY <1>1, <1>4, MergedFits
<1> QED  BY <1>1, <1>5

\* A save is refused for one of the known reasons only.
LEMMA SaveFits ==
  ASSUME NEW r, NEW stored, SaveReady(r, stored)
  PROVE  SavedRows(r, stored).ok = TRUE
<1> DEFINE done == SaveEvents(r, stored)
           s == <<"command_records">>
           kept == {t \in done.rows : TableOf(t) \notin ToSet(s)}
           new == NewRows(s, r, stored)
           rows == SaveRows(r, stored)
<1>1. done.ok = TRUE /\ SavedRows(r, stored) = Replaced(done, s, s, r, stored)
  BY EventsFits, SavedRowsAre
<1>2. \A x : x \in ToSet(s) <=> x = "command_records"  BY SaveLists DEF SaveListSets
<1>3. Based(kept)
  <2>1. Based({t \in rows.events : TableOf(t) \notin ToSet(s)})  BY SaveBased
  <2>2. rows.events = done.rows  BY DEF SaveRows
  <2> HIDE DEF rows, done
  <2> QED  BY <2>1, <2>2
<1>4. Closed(s)  BY SaveListsClosed
<1> HIDE DEF done, s, rows
<1>5. \A a, b : b \in ToSet(s) => ~Restricts(a, b)  BY <1>2 DEF Restricts
<1>6. DeletesInOrder(done.rows, s)  BY <1>5, FreeDeletes
<1>7. ASSUME NEW t \in new, NEW n \in t.refs, Placed(n, t, r)
      PROVE  Earlier(n, t, kept, new, s, r)
  <2>1. TableOf(t) \in Plain  BY <1>2, NewRowsOK DEF Plain
  <2>2. n \in {Chapter, Npc, Board, Definition, Topic}  BY <1>7, <2>1, PlainPlaced
  <2> HIDE DEF kept, new
  <2> QED  BY <1>3, <2>2, BasedEarlier
<1>8. kept = {t \in done.rows : TableOf(t) \notin ToSet(s)}  OBVIOUS
<1> HIDE DEF kept
<1>9. Replaced(done, s, s, r, stored).ok = TRUE
  BY <1>1, <1>4, <1>6, <1>7, <1>8, ReplacedFits
<1> QED  BY <1>1, <1>9

-----------------------------------------------------------------------------
(* Every step                                                                *)

\* What every step promises of the rows, and of what is refused.
Promise ==
    /\ moves' = moves /\ revision' = revision => Outlives(tuples, tuples')
    /\ refused' \notin {"migration", "deletion"}
    /\ refused' = "save" => Misordered(run) \/ Outdated(run) \/ run.ahead

\* A step that leaves the rows where they are.
LEMMA StillOutlives ==
  ASSUME tuples' = tuples
  PROVE  Outlives(tuples, tuples')
  BY DEF Outlives

LEMMA ChangedPromise ==
  ASSUME NEW s, Changed(s)
  PROVE  Promise
  BY StillOutlives DEF Changed, Promise

LEMMA GrowOutlives ==
  ASSUME NEW rs, NEW after, rs \subseteq after
  PROVE  Outlives(rs, after)
  BY DEF Outlives

LEMMA SavePromise ==
  ASSUME TablesInv, Save
  PROVE  TablesInv' /\ Promise
<1>1. /\ TablesInv' /\ Outlives(tuples, tuples')
      /\ refused' = "save" => ~(SavedRows(run, tuples).ok /\ ~run.ahead)
  BY SaveTablesInv
<1>2. refused' \in {"nothing", "save"}
  <2>1. CASE SavedRows(run, tuples).ok /\ ~run.ahead  BY <2>1 DEF Save
  <2>2. CASE ~(SavedRows(run, tuples).ok /\ ~run.ahead)  BY <2>2 DEF Save
  <2> QED  BY <2>1, <2>2
<1>3. RunOK(run) /\ RowsOK(tuples, 6) /\ RunAhead(tuples, run) /\ ScenarioRows \subseteq tuples
  BY DEF TablesInv, DatabaseOK, RunOK, RunAhead, Save
<1>4. Based(tuples)
  <2>1. Names(ScenarioRows) \subseteq Names(tuples)  BY <1>3 DEF Names
  <2>2. Chapter \in Names(tuples)  BY <1>3 DEF RunAhead
  <2> QED  BY <2>1, <2>2, ScenarioNames DEF Based
<1>5. ASSUME ~Misordered(run), ~Outdated(run) PROVE SavedRows(run, tuples).ok = TRUE
  BY <1>3, <1>4, <1>5, SaveFits DEF SaveReady
<1>6. refused' = "save" => Misordered(run) \/ Outdated(run) \/ run.ahead
  BY <1>1, <1>5
<1> QED  BY <1>1, <1>2, <1>6 DEF Promise

LEMMA TablesStep ==
  ASSUME TablesInv, TablesNext
  PROVE  TablesInv' /\ Promise
<1>1. ASSUME NEW c \in Talks, NEW g \in GoalIds(run), Invite(c, g) PROVE TablesInv' /\ Promise
  BY <1>1, InviteInv, ChangedPromise DEF Invite
<1>2. ASSUME NEW c \in Talks, Join(c) PROVE TablesInv' /\ Promise
  BY <1>2, JoinInv, ChangedPromise DEF Join
<1>3. ASSUME NEW c \in Talks, Speak(c) PROVE TablesInv' /\ Promise
  BY <1>3, SpeakInv, ChangedPromise DEF Speak
<1>4. ASSUME Happen PROVE TablesInv' /\ Promise
  BY <1>4, HappenInv, ChangedPromise DEF Happen
<1>5. ASSUME NEW c \in Talks, NEW about \in {{}} \cup {{g} : g \in GoalIds(run)}, Remember(c, about)
      PROVE  TablesInv' /\ Promise
  <2>1. about \subseteq GoalIds(run)  OBVIOUS
  <2>2. Promise  BY <1>5, ChangedPromise DEF Remember
  <2> QED  BY <1>5, <2>1, <2>2, RememberInv
<1>6. ASSUME NEW c \in Talks, NEW about \in {{}} \cup {{g} : g \in GoalIds(run)},
             RememberAndWant(c, about)
      PROVE  TablesInv' /\ Promise
  <2>1. about \subseteq GoalIds(run)  OBVIOUS
  <2>2. Promise  BY <1>6, ChangedPromise DEF RememberAndWant
  <2> QED  BY <1>6, <2>1, <2>2, RememberAndWantInv
<1>7. ASSUME NEW i \in DOMAIN run.goals, NEW status \in Statuses, SettleGoal(i, status)
      PROVE  TablesInv' /\ Promise
  BY <1>7, SettleGoalInv, ChangedPromise DEF SettleGoal
<1>8. ASSUME EndChapter PROVE TablesInv' /\ Promise
  BY <1>8, EndChapterInv, ChangedPromise DEF EndChapter
<1>9. ASSUME SyncScenario PROVE TablesInv' /\ Promise
  <2>1. Outlives(tuples, tuples')  BY <1>9, GrowOutlives DEF SyncScenario
  <2>2. refused' = "nothing"  BY <1>9 DEF SyncScenario
  <2> QED  BY <1>9, <2>1, <2>2, SyncScenarioInv DEF Promise
<1>10. ASSUME Add PROVE TablesInv' /\ Promise
  BY <1>10, AddInv DEF Promise
<1>11. ASSUME Save PROVE TablesInv' /\ Promise
  BY <1>11, SavePromise
<1>12. ASSUME Backfill PROVE TablesInv' /\ Promise
  <2>1. RowsOK(tuples, 6)  BY <1>12 DEF Backfill, TablesInv, DatabaseOK
  <2>2. Outlives(tuples, tuples')  BY <1>12, <2>1, IndexedOutlives DEF Backfill
  <2>3. refused' = "nothing"  BY <1>12 DEF Backfill
  <2> QED  BY <1>12, <2>2, <2>3, BackfillInv DEF Promise
<1>13. ASSUME Load PROVE TablesInv' /\ Promise
  <2>1. tuples' = tuples /\ refused' = "nothing"  BY <1>13 DEF Load
  <2> QED  BY <1>13, <2>1, LoadInv, StillOutlives DEF Promise
<1>14. ASSUME Upgrade PROVE TablesInv' /\ Promise
  <2>1. revision' # revision
    <3>1. refused' = "nothing"  BY <1>14, UpgradeInv
    <3>2. revision' = revision + 1  BY <1>14, <3>1 DEF Upgrade
    <3> QED  BY <3>2 DEF TablesInv
  <2> QED  BY <1>14, <2>1, UpgradeInv DEF Promise
<1>15. ASSUME Downgrade PROVE TablesInv' /\ Promise
  BY <1>15, DowngradeInv DEF Promise
<1>16. ASSUME DeleteRun PROVE TablesInv' /\ Promise
  BY <1>16, DeleteRunInv DEF Promise
<1> QED  BY <1>1, <1>2, <1>3, <1>4, <1>5, <1>6, <1>7, <1>8, <1>9, <1>10, <1>11, <1>12, <1>13, <1>14,
            <1>15, <1>16 DEF TablesNext

-----------------------------------------------------------------------------
(* What the tables promise                                                   *)

LEMMA TablesStutter ==
  ASSUME TablesInv, UNCHANGED tableVars
  PROVE  TablesInv'
  BY DEF TablesInv, tableVars

\* The inductive invariant of the tables.
THEOREM TablesInvariant == TablesSpec => []TablesInv
<1>1. TablesInit => TablesInv  BY TablesInitInv
<1>2. TablesInv /\ [TablesNext]_tableVars => TablesInv'  BY TablesStep, TablesStutter
<1> QED  BY <1>1, <1>2, PTL DEF TablesSpec

\* Whatever the migrations, saves, loads and deletions, in any order: every row is in a table of
\* the schema of its revision and passes its checks, no row refers to one that is gone, and a
\* deleted run leaves only the scenario.
THEOREM TablesTypeCorrect == TablesSpec => []TablesTypeOK
<1>1. TablesInv => TablesTypeOK
  <2> SUFFICES ASSUME TablesInv PROVE TablesTypeOK  OBVIOUS
  <2>1. RowsOK(tuples, revision) /\ RunOK(run) /\ RunOK(items)  BY DEF TablesInv, DatabaseOK
  <2>2. run.present \in BOOLEAN /\ items.present \in BOOLEAN  BY <2>1 DEF RunOK
  <2>3. /\ \A t \in tuples : TableOf(t) \in TablesAt(revision) /\ Lawful(t, revision)
        /\ \A t \in tuples : t.refs \subseteq Names(tuples)
    BY <2>1 DEF RowsOK
  <2>4. Chapter \notin Names(tuples) => tuples \subseteq ScenarioRows  BY <2>1, RunLeavesRows
  <2> QED  BY <2>2, <2>3, <2>4 DEF TablesInv, TablesTypeOK
<1> QED  BY <1>1, TablesInvariant, PTL

\* No save, load, index pass, addition or start of the service loses an answered command or a
\* vector of a memory: only a migration or the deletion of the run does.
THEOREM AnswersAndVectorsKept == TablesSpec => AnswersAndVectorsSurvive
<1>1. ASSUME TablesInv, TablesNext, moves' = moves, revision' = revision, NEW t \in tuples,
             TableOf(t) = "command_records" \/ t.status = Vector(6)
      PROVE  t.name \in Names(tuples') /\ \E u \in tuples' : u.name = t.name /\ u.status = t.status
  <2>1. Outlives(tuples, tuples')  BY <1>1, TablesStep DEF Promise
  <2>2. Lasting(t)  BY <1>1 DEF Lasting
  <2>3. PICK u \in tuples' : u.name = t.name /\ u.status = t.status  BY <2>1, <2>2 DEF Outlives
  <2> QED  BY <2>3 DEF Names
<1>2. TablesInv /\ [TablesNext]_tableVars =>
        [moves' = moves /\ revision' = revision =>
           \A t \in tuples : TableOf(t) = "command_records" \/ t.status = Vector(6) =>
             t.name \in Names(tuples') /\ \E u \in tuples' : u.name = t.name /\ u.status = t.status]_tableVars
  BY <1>1
<1> QED  BY <1>2, TablesInvariant, PTL DEF TablesSpec, AnswersAndVectorsSurvive

\* The order of the statements of a save and of an addition, the references of the rows they
\* build, the migrations and the cascades fit the foreign keys for every run.
THEOREM RefusalsAreKnown == TablesSpec => OnlyKnownRefusals
<1>1. TablesInv /\ [TablesNext]_tableVars =>
        [/\ refused' \notin {"migration", "deletion"}
         /\ refused' = "save" => Misordered(run) \/ Outdated(run) \/ run.ahead]_tableVars
  BY TablesStep DEF Promise
<1> QED  BY <1>1, TablesInvariant, PTL DEF TablesSpec, OnlyKnownRefusals
=============================================================================
