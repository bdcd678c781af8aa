--------------------------- MODULE ChatRoundProofs ---------------------------
(***************************************************************************)
(* Proofs about ChatRound, for any set of NPCs, any safety limit and any   *)
(* number of messages, changes, failures and restarts: its types, and what *)
(* the rounds of a conversation say.  Rounds do not overlap, nobody speaks *)
(* twice in one of them, no speech is out of date when it is said, no      *)
(* round waits without anybody to run it, and nothing is said while the    *)
(* conversation closes.                                                    *)
(*                                                                         *)
(* The argument: speeches wait only under the status "publishing", and     *)
(* while a worker prepares a round nothing waits, so a round begins with   *)
(* nothing left of the one before it and everything said carries a smaller *)
(* number; the speeches it then stores have distinct authors and its own   *)
(* number, and each moves from the waiting list to the messages in one     *)
(* step.  Every other step either leaves the waiting list alone or empties *)
(* it.  The version of the round only grows and a player message raises    *)
(* it, so a round whose tokens still hold has missed nothing.              *)
(***************************************************************************)
EXTENDS ChatRound, FiniteSetTheorems, TLAPS

\* the applicant of a join that waits for the summary
Joiner == leave.api.stage = "join" => leave.api.who \in Actors

Types == TypeOK /\ Joiner

-----------------------------------------------------------------------------
(* The operators on round states *)

\* The set of round states, with the type of each field by its name only.
LEMMA RoundFields ==
    \E S, T, L, O, P, N :
        /\ S = Statuses /\ T = SUBSET Nat /\ L = SUBSET NPCs /\ O = NPCs \cup {None}
        /\ P = Seq(Publication) /\ N = Nat
        /\ Round = [status: S, trigger: T, rid: N, ver: N, pver: N, seg: N, pend: P,
                    published: T, attempt: N, leavers: L, post: L, npcOnly: N, opener: O]
  BY DEF Round

LEMMA RoundOperators ==
    ASSUME NEW r \in Round
    PROVE  /\ NoRecovery(r) \in Round /\ NoTail(r) \in Round
           /\ EnterCooldown(r) \in Round /\ Begun(r) \in Round
           /\ \A st \in Statuses : [r EXCEPT !.status = st] \in Round
           /\ \A p \in Seq(Publication) : [r EXCEPT !.pend = p] \in Round
  <1>1. PICK S, T, L, O, P, N :
            /\ S = Statuses /\ T = SUBSET Nat /\ L = SUBSET NPCs /\ O = NPCs \cup {None}
            /\ P = Seq(Publication) /\ N = Nat
            /\ Round = [status: S, trigger: T, rid: N, ver: N, pver: N, seg: N, pend: P,
                        published: T, attempt: N, leavers: L, post: L, npcOnly: N,
                        opener: O]
    BY RoundFields
  <1>2. /\ <<>> \in P /\ {} \in L /\ {} \in T /\ 0 \in N /\ r.rid + 1 \in N
        /\ "deciding" \in S /\ "cooldown" \in S
    BY <1>1 DEF Statuses, Active, Round
  <1> DEFINE q == NoRecovery(r)
  <1>3. q \in Round /\ q.rid = r.rid
    BY ONLY <1>1, <1>2, r \in Round DEF q, NoRecovery
  <1> HIDE DEF q
  <1>4. [r EXCEPT !.pend = <<>>, !.leavers = {}, !.post = {}] \in Round
    BY ONLY <1>1, <1>2, r \in Round
  <1>5. [r EXCEPT !.status = "cooldown", !.trigger = {}] \in Round
    BY ONLY <1>1, <1>2, r \in Round
  <1>6. [q EXCEPT !.rid = @ + 1, !.status = "deciding"] \in Round
    BY ONLY <1>1, <1>2, <1>3
  <1>7. /\ \A st \in S : [r EXCEPT !.status = st] \in Round
        /\ \A p \in P : [r EXCEPT !.pend = p] \in Round
    BY ONLY <1>1, <1>2, r \in Round, ZenonT(60)
  <1> QED BY <1>1, <1>3, <1>4, <1>5, <1>6, <1>7 DEF NoTail, EnterCooldown, Begun, q

LEMMA DefaultRoundType == ASSUME NEW s \in Nat PROVE DefaultRound(s) \in Round
  BY DEF DefaultRound, Round, Statuses

LEMMA ResetRoundType ==
    ASSUME NEW r \in Round, NEW s \in Nat, NEW st \in Statuses, NEW op \in NPCs \cup {None}
    PROVE  ResetRound(r, s, st, op) \in Round
  <1>1. PICK S, T, L, O, P, N :
            /\ S = Statuses /\ T = SUBSET Nat /\ L = SUBSET NPCs /\ O = NPCs \cup {None}
            /\ P = Seq(Publication) /\ N = Nat
            /\ Round = [status: S, trigger: T, rid: N, ver: N, pver: N, seg: N, pend: P,
                        published: T, attempt: N, leavers: L, post: L, npcOnly: N,
                        opener: O]
    BY RoundFields
  <1> DEFINE q == NoTail(NoRecovery(r))
  <1>2. q \in Round
    BY RoundOperators
  <1> HIDE DEF q
  <1>3. /\ st \in S /\ {} \in T /\ 0 \in N /\ s \in N /\ op \in O
        /\ q.ver + 1 \in N /\ q.pver + 1 \in N
    BY <1>1, <1>2, SMTT(30) DEF Round
  <1>4. [q EXCEPT !.ver = @ + 1, !.pver = @ + 1, !.status = st, !.trigger = {},
                  !.seg = s, !.npcOnly = 0, !.opener = op] \in Round
    BY ONLY <1>1, <1>2, <1>3
  <1> QED BY <1>4 DEF ResetRound, q

LEMMA QueueRoundType ==
    ASSUME NEW r \in Round, NEW m \in Nat, NEW M \in SUBSET Nat
    PROVE  QueueRound(r, m, M) \in Round
  <1>1. PICK S, T, L, O, P, N :
            /\ S = Statuses /\ T = SUBSET Nat /\ L = SUBSET NPCs /\ O = NPCs \cup {None}
            /\ P = Seq(Publication) /\ N = Nat
            /\ Round = [status: S, trigger: T, rid: N, ver: N, pver: N, seg: N, pend: P,
                        published: T, attempt: N, leavers: L, post: L, npcOnly: N,
                        opener: O]
    BY RoundFields
  <1> DEFINE q == NoTail(NoRecovery(r))
  <1>2. q \in Round
    BY RoundOperators
  <1> HIDE DEF q
  <1>3. /\ "queued" \in S /\ 0 \in N /\ q.ver + 1 \in N /\ r.ver + 1 \in N
    BY <1>1, <1>2, SMTT(30) DEF Round, Statuses
  <1>4. \A t \in T :
            /\ [q EXCEPT !.ver = @ + 1, !.status = "queued", !.npcOnly = 0,
                         !.trigger = t] \in Round
            /\ [r EXCEPT !.ver = @ + 1, !.status = "queued", !.npcOnly = 0,
                         !.trigger = t] \in Round
    BY ONLY <1>1, <1>2, <1>3, r \in Round, ZenonT(60)
  <1>5. /\ {m} \in T /\ r.trigger \cup {m} \in T
        /\ {m} \cup (r.trigger \cap M) \in T /\ {m} \cup {} \in T
    BY <1>1 DEF Round
  <1>6. CASE r.status \in Active
    BY <1>4, <1>5, <1>6, ZenonT(60) DEF QueueRound, q
  <1>7. CASE r.status \notin Active
    BY <1>4, <1>5, <1>7 DEF QueueRound
  <1> QED BY <1>6, <1>7

-----------------------------------------------------------------------------
(* Type correctness *)

LEMMA InitTypes == Init => Types
  <1> SUFFICES ASSUME Init PROVE Types
    OBVIOUS
  <1>1. rs \in Round
    <2>1. PICK first \in Actors : rs = [DefaultRound(1) EXCEPT
                !.status = IF first = Player THEN "awaiting_player_opener" ELSE "opener",
                !.opener = IF first = Player THEN None ELSE first]
      BY DEF Init
    <2>2. \A st \in Statuses, op \in NPCs \cup {None} :
              [DefaultRound(1) EXCEPT !.status = st, !.opener = op] \in Round
      <3> DEFINE d == DefaultRound(1)
      <3>1. d \in Round
        BY DefaultRoundType
      <3> HIDE DEF d
      <3>2. PICK S, T, L, O, P, N :
                /\ S = Statuses /\ O = NPCs \cup {None}
                /\ Round = [status: S, trigger: T, rid: N, ver: N, pver: N, seg: N,
                            pend: P, published: T, attempt: N, leavers: L, post: L,
                            npcOnly: N, opener: O]
        BY RoundFields, ZenonT(60)
      <3>3. \A st \in S, op \in O : [d EXCEPT !.status = st, !.opener = op] \in Round
        BY ONLY <3>1, <3>2, ZenonT(60)
      <3> QED BY <3>2, <3>3 DEF d
    <2> QED BY <2>1, <2>2 DEF Actors, Statuses
  <1>2. leave \in [Procs -> Leave] /\ Joiner
    BY DEF Init, NoLeave, Leave, Joiner, Procs
  <1>3. /\ frozen \in Frozen /\ msgs \in Seq(Message)
        /\ used \in [{"changes", "fails", "crashes"} -> Nat]
        /\ parts \in SUBSET Actors
    BY DEF Init, NoFrozen, Frozen
  <1>4. pc \in {"none", "top"}
    BY DEF Init
  <1> QED BY <1>1, <1>2, <1>3, <1>4 DEF Init, Types, TypeOK

\* The actions of the player and of the commands.
LEMMA CommandTypes ==
    ASSUME Types,
           \/ Request \/ PlayerMessage \/ ConversationIdle \/ PlayerLeaves
           \/ (\E n \in NPCs : ApiRemove(n)) \/ (\E a \in Actors : JoinBegin(a))
           \/ JoinFinish
    PROVE  Types'
  <1> USE DEF Types, TypeOK, convVars, dayVars, workerVars
  <1>0. /\ rs \in Round /\ leave["api"] \in Leave /\ "api" \in Procs
        /\ PlayerMsgs \in SUBSET Nat /\ NoLeave \in Leave
    BY DEF Procs, PlayerMsgs, MsgIds, NoLeave, Leave
  <1>1. CASE Request
    BY <1>1 DEF Request, EnsureTask, Joiner
  <1>2. CASE PlayerMessage
    <2>1. [by |-> Player, seg |-> seg, rid |-> 0, seen |-> Len(msgs)] \in Message
      BY DEF Message, Actors
    <2>2. msgs' \in Seq(Message)
      BY <1>2, <2>1 DEF PlayerMessage
    <2>3. rs' \in Round
      BY <1>0, <1>2, QueueRoundType DEF PlayerMessage
    <2> QED BY <1>2, <2>2, <2>3 DEF PlayerMessage, EnsureTask, Joiner
  <1>3. CASE ConversationIdle
    <2>1. rs' \in Round
      BY <1>0, <1>3, RoundOperators DEF ConversationIdle
    <2> QED BY <1>3, <2>1 DEF ConversationIdle, EnsureTask, Use, Joiner
  <1>4. CASE PlayerLeaves
    <2>1. rs' \in Round
      <3>1. /\ seg + 1 \in Nat /\ "idle" \in Statuses /\ None \in NPCs \cup {None}
            /\ "closed_maintenance" \in Statuses
        BY DEF Statuses
      <3>2. ResetRound(rs, seg + 1, "idle", None) \in Round
        BY <1>0, <3>1, ResetRoundType
      <3>3. [rs EXCEPT !.status = "closed_maintenance"] \in Round
        BY <1>0, <3>1, RoundOperators
      <3>4. rs' \in {ResetRound(rs, seg + 1, "idle", None),
                     [rs EXCEPT !.status = "closed_maintenance"]}
        BY ONLY <1>4 DEF PlayerLeaves
      <3> QED BY ONLY <3>2, <3>3, <3>4
    <2>2. seg' \in Nat /\ segEnded' \in BOOLEAN /\ open' \in BOOLEAN
      <3>1. CASE Cardinality(parts) > 2
        <4>1. seg' = seg + 1 /\ segEnded' = FALSE /\ open' = open
          BY ONLY <1>4, <3>1 DEF PlayerLeaves
        <4>2. seg \in Nat /\ open \in BOOLEAN
          OBVIOUS
        <4>3. open' \in BOOLEAN /\ segEnded' \in BOOLEAN
          BY ONLY <4>1, <4>2, Zenon
        <4>4. seg' \in Nat
          BY <4>1
        <4> QED BY ONLY <4>3, <4>4, Zenon
      <3>2. CASE ~(Cardinality(parts) > 2)
        <4>1. seg' = seg /\ segEnded' = TRUE /\ open' = FALSE
          BY ONLY <1>4, <3>2 DEF PlayerLeaves
        <4>2. seg' \in Nat
          BY <4>1
        <4>3. segEnded' \in BOOLEAN /\ open' \in BOOLEAN
          BY ONLY <4>1, Zenon
        <4> QED BY ONLY <4>2, <4>3, Zenon
      <3> QED BY <3>1, <3>2
    <2> QED BY <1>4, <2>1, <2>2 DEF PlayerLeaves, Use, Joiner
  <1>5. ASSUME NEW n \in NPCs, ApiRemove(n) PROVE Types'
    <2>1. leave' \in [Procs -> Leave] /\ Joiner'
      BY <1>0, <1>5 DEF ApiRemove, Leave, Actors, Joiner
    <2>2. used' \in [{"changes", "fails", "crashes"} -> Nat]
      BY <1>5 DEF ApiRemove, Use
    <2>3. /\ lock' = "api"
          /\ UNCHANGED <<convVars, rs, dayVars, piped, workerVars, wake, fails, triggered>>
      BY ONLY <1>5 DEF ApiRemove
    <2> HIDE DEF Joiner
    <2> QED BY ONLY <2>1, <2>2, <2>3, Types
            DEF Types, TypeOK, convVars, dayVars, workerVars
  <1>6. ASSUME NEW a \in Actors, JoinBegin(a) PROVE Types'
    <2>1. leave' \in [Procs -> Leave] /\ Joiner'
      BY <1>0, <1>6 DEF JoinBegin, Leave, Joiner
    <2>2. used' \in [{"changes", "fails", "crashes"} -> Nat]
      BY <1>6 DEF JoinBegin, Use
    <2>3. lock' \in {"free", "worker", "api"} /\ segEnded' \in BOOLEAN
      BY ONLY <1>6 DEF JoinBegin
    <2>4. UNCHANGED <<open, parts, seg, msgs, rs, dayVars, piped, workerVars, wake,
                      fails, triggered>>
      BY ONLY <1>6 DEF JoinBegin
    <2> QED BY ONLY <2>1, <2>2, <2>3, <2>4, Types
            DEF Types, TypeOK, dayVars, workerVars
  <1>7. CASE JoinFinish
    <2>1. leave' \in [Procs -> Leave] /\ Joiner'
      BY <1>0, <1>7 DEF JoinFinish, NoLeave, Joiner
    <2>2. leave["api"].who \in Actors
      BY <1>7 DEF JoinFinish, Joiner
    <2>3. rs' \in Round
      <3> DEFINE a == leave["api"].who
      <3>1. /\ seg + 1 \in Nat /\ "awaiting_player_opener" \in Statuses
            /\ "opener" \in Statuses /\ None \in NPCs \cup {None}
            /\ a # Player => a \in NPCs \cup {None}
        BY <2>2 DEF Statuses, Actors
      <3>2. ResetRound(rs, seg + 1, "awaiting_player_opener", None) \in Round
        BY <1>0, <3>1, ResetRoundType
      <3>3. a # Player => ResetRound(rs, seg + 1, "opener", a) \in Round
        BY <1>0, <3>1, ResetRoundType
      <3>4. \/ rs' = rs
            \/ rs' = ResetRound(rs, seg + 1, "awaiting_player_opener", None)
            \/ a # Player /\ rs' = ResetRound(rs, seg + 1, "opener", a)
        BY ONLY <1>7 DEF JoinFinish
      <3> QED BY ONLY <1>0, <3>2, <3>3, <3>4
    <2>4. parts' \in SUBSET Actors /\ seg' \in Nat /\ segEnded' \in BOOLEAN
      <3>1. \/ UNCHANGED <<parts, seg, segEnded>>
            \/ /\ parts' = parts \cup {leave["api"].who}
               /\ seg' = seg + 1 /\ segEnded' = FALSE
        BY ONLY <1>7 DEF JoinFinish
      <3>2. parts' \in SUBSET Actors
        BY <2>2, <3>1
      <3>3. seg' \in Nat
        BY <3>1
      <3>4. segEnded \in BOOLEAN /\ (segEnded' = segEnded \/ segEnded' = FALSE)
        BY <3>1
      <3>5. segEnded' \in BOOLEAN
        BY ONLY <3>4, Zenon
      <3> QED BY <3>2, <3>3, <3>5
    <2>5. wake' \in BOOLEAN /\ pc' \in {pc, "top"}
      BY <1>7 DEF JoinFinish, EnsureTask
    <2>6. /\ lock' = "free"
          /\ UNCHANGED <<open, msgs, dayVars, piped, frozen, cast, pubd, item, raised,
                         fails, used, triggered>>
      BY <1>7 DEF JoinFinish
    <2> HIDE DEF Joiner
    <2> QED BY ONLY <2>1, <2>3, <2>4, <2>5, <2>6, Types DEF Types, TypeOK, dayVars
  <1> QED BY <1>1, <1>2, <1>3, <1>4, <1>5, <1>6, <1>7

\* Leaving, and the end of a removal.
LEMMA LeavingTypes ==
    ASSUME Types, Leaving \/ ApiRemoved PROVE Types'
  <1> USE DEF Types, TypeOK, convVars, dayVars, workerVars
  <1>0. rs \in Round /\ "api" \in Procs /\ NoLeave \in Leave
    BY DEF Procs, NoLeave, Leave
  <1>1. ASSUME NEW p \in Procs,
               NEW x \in {"consolidate", "done", "summarise"},
               leave' = [leave EXCEPT ![p].stage = x]
        PROVE  leave' \in [Procs -> Leave] /\ Joiner'
    <2>1. leave[p] \in Leave /\ [leave[p] EXCEPT !.stage = x] \in Leave
      BY DEF Leave
    <2> QED BY <1>1, <2>1 DEF Joiner, Procs
  <1>2. ASSUME NEW p \in Procs, Depart(p)
        PROVE  /\ leave' \in [Procs -> Leave] /\ Joiner'
               /\ parts' \in SUBSET Actors /\ open' \in BOOLEAN
               /\ seg' \in Nat /\ segEnded' \in BOOLEAN /\ lock' = "free"
    <2>1. leave' \in [Procs -> Leave] /\ Joiner'
      BY <1>1, <1>2 DEF Depart
    <2>2. /\ parts' \in SUBSET Actors /\ lock' = "free"
          /\ seg' \in {seg, seg + 1} /\ segEnded' \in BOOLEAN
      BY <1>2 DEF Depart
    <2>3. open' \in BOOLEAN
      BY <1>2, Zenon DEF Depart
    <2> QED BY <2>1, <2>2, <2>3
  <1>3. ASSUME NEW p \in Procs, LeaveBegin(p) PROVE Types'
    <2>1. /\ leave' \in [Procs -> Leave] /\ Joiner'
          /\ parts' \in SUBSET Actors /\ open' \in BOOLEAN
          /\ seg' \in Nat /\ segEnded' \in BOOLEAN /\ lock' \in {"free", "worker", "api"}
      <3>1. CASE leave[p].who \notin parts
        BY <1>1, <1>3, <3>1 DEF LeaveBegin
      <3>2. CASE leave[p].who \in parts /\ SegmentTalked /\ ~segEnded
        BY <1>1, <1>3, <3>2 DEF LeaveBegin
      <3>3. CASE leave[p].who \in parts /\ ~(SegmentTalked /\ ~segEnded)
        BY <1>2, <1>3, <3>3 DEF LeaveBegin
      <3> QED BY <3>1, <3>2, <3>3
    <2> HIDE DEF Joiner
    <2> QED BY <1>3, <2>1 DEF LeaveBegin
  <1>4. ASSUME NEW p \in Procs, LeaveSummarised(p) PROVE Types'
    <2>1. /\ leave' \in [Procs -> Leave] /\ Joiner'
          /\ parts' \in SUBSET Actors /\ open' \in BOOLEAN
          /\ seg' \in Nat /\ segEnded' \in BOOLEAN /\ lock' \in {"free", "worker", "api"}
      <3>1. CASE leave[p].who \in parts
        BY <1>2, <1>4, <3>1 DEF LeaveSummarised
      <3>2. CASE leave[p].who \notin parts
        <4>1. /\ leave' = [leave EXCEPT ![p] = NoLeave]
              /\ UNCHANGED <<lock, open, parts, seg, segEnded>>
          BY ONLY <1>4, <3>2 DEF LeaveSummarised
        <4>2. leave' \in [Procs -> Leave] /\ Joiner'
          BY <1>0, <4>1 DEF NoLeave, Joiner, Procs
        <4> QED BY ONLY <4>1, <4>2, TypeOK DEF TypeOK
      <3> QED BY <3>1, <3>2
    <2>2. pc' \in {pc, "finally", "none"} /\ raised' \in BOOLEAN /\ fails' \in Nat
      <3>1. UNCHANGED <<raised, pc, fails>> \/ Unwind
        BY ONLY <1>4 DEF LeaveSummarised
      <3>2. fails' \in Nat /\ pc' \in {pc, "finally", "none"}
        BY <3>1 DEF Unwind
      <3>3. raised \in BOOLEAN /\ (raised' = raised \/ raised' = TRUE)
        BY <3>1 DEF Unwind
      <3>4. raised' \in BOOLEAN
        BY ONLY <3>3, Zenon
      <3> QED BY ONLY <3>2, <3>4
    <2> HIDE DEF Joiner
    <2> QED BY ONLY <1>4, <2>1, <2>2, Types
            DEF LeaveSummarised, Types, TypeOK, dayVars
  <1>5. ASSUME NEW p \in Procs, LeaveConsolidated(p) PROVE Types'
    <2>1. leave' \in [Procs -> Leave] /\ Joiner'
      BY <1>1, <1>5 DEF LeaveConsolidated
    <2>2. rs' \in Round
      <3>1. ResetRound(rs, seg, "idle", None) \in Round
        BY <1>0, ResetRoundType DEF Statuses
      <3>2. rs' \in {rs, ResetRound(rs, seg, "idle", None)}
        BY ONLY <1>5 DEF LeaveConsolidated
      <3> QED BY ONLY <1>0, <3>1, <3>2
    <2>3. wake' \in BOOLEAN /\ lock' \in {"free", "worker", "api"}
      BY <1>5 DEF LeaveConsolidated, Procs
    <2> QED BY <1>5, <2>1, <2>2, <2>3 DEF LeaveConsolidated
  <1>6. CASE ApiRemoved
    <2>1. leave' \in [Procs -> Leave] /\ Joiner'
      BY <1>0, <1>6 DEF ApiRemoved, NoLeave, Joiner
    <2> QED BY <1>6, <2>1 DEF ApiRemoved
  <1> QED BY <1>3, <1>4, <1>5, <1>6 DEF Leaving

\* The publications of a round that keeps the speeches of "kept".
LEMMA PendingType ==
    ASSUME NEW kept \in SUBSET NPCs, NEW order \in Orders(kept), NEW f \in Frozen
    PROVE  /\ Cardinality(kept) \in Nat /\ DOMAIN order = 1..Cardinality(kept)
           /\ [k \in DOMAIN order |->
                 [by |-> order[k], rid |-> f.rid, seen |-> f.seen]] \in Seq(Publication)
  <1>1. Cardinality(kept) \in Nat
    BY FS_Subset, FS_CardinalityType, ConstantsAssumption
  <1>2. order \in [1..Cardinality(kept) -> kept]
    BY DEF Orders
  <1>3. f.rid \in Nat /\ f.seen \in Nat
    BY DEF Frozen
  <1>4. \A k \in 1..Cardinality(kept) :
           [by |-> order[k], rid |-> f.rid, seen |-> f.seen] \in Publication
    BY <1>2, <1>3 DEF Publication
  <1> QED BY <1>1, <1>2, <1>4

\* The worker up to the publication.
LEMMA RoundTypes ==
    ASSUME Types,
           \/ WorkerTop \/ CooldownWoken \/ CooldownExpired
           \/ BeginRound \/ BeginOpener \/ Decide \/ DecideOpener
           \/ PromptSpeech \/ SpeechDone \/ DropStale
    PROVE  Types'
  <1> USE DEF Types, TypeOK, convVars, dayVars, workerVars
  <1>0. /\ rs \in Round /\ rs.status \in Statuses /\ rs.leavers \in SUBSET NPCs
        /\ NoFrozen \in Frozen /\ leave["worker"] \in Leave /\ "worker" \in Procs
        /\ frozen \in Frozen /\ frozen.rid \in Nat /\ frozen.seen \in Nat
        /\ msgs \in Seq(Message) /\ cast \in SUBSET NPCs
    BY DEF Round, NoFrozen, Frozen, Procs
  <1>1. CASE WorkerTop
    <2>1. rs' \in Round
      <3>1. DefaultRound(seg) \in Round
        BY DefaultRoundType
      <3>2. \A st \in Statuses : [rs EXCEPT !.status = st] \in Round
        BY <1>0, RoundOperators
      <3>3. Normalised(rs) \in Statuses /\ "idle" \in Statuses
        BY <1>0 DEF Normalised, Statuses
      <3> QED BY <1>1, <3>1, <3>2, <3>3 DEF WorkerTop
    <2>2. pc' \in {"none", "cooling", "publish", "opener", "round"}
      BY ONLY <1>1 DEF WorkerTop
    <2> QED BY <1>0, <1>1, <2>1, <2>2, ZenonT(60) DEF WorkerTop, Joiner
  <1>2. CASE CooldownWoken
    BY <1>2 DEF CooldownWoken, Joiner
  <1>3. CASE CooldownExpired
    <2>1. rs' \in Round
      <3>1. rs.ver + 1 \in Nat /\ "final_check" \in Statuses
        BY DEF Round, Statuses
      <3>2. PICK S, T, L, O, P, N :
                /\ S = Statuses /\ N = Nat
                /\ Round = [status: S, trigger: T, rid: N, ver: N, pver: N, seg: N,
                            pend: P, published: T, attempt: N, leavers: L, post: L,
                            npcOnly: N, opener: O]
        BY RoundFields, ZenonT(60)
      <3>3. [rs EXCEPT !.ver = @ + 1, !.status = "final_check"] \in Round
        BY ONLY <1>0, <3>1, <3>2
      <3> QED BY <1>3, <3>3 DEF CooldownExpired
    <2>2. pc' \in {"none", "top"}
      BY ONLY <1>3 DEF CooldownExpired
    <2> QED BY <1>3, <2>1, <2>2 DEF CooldownExpired, Joiner
  <1>4. ASSUME NEW kind \in {"message", "opener"}, NEW fc \in BOOLEAN,
               NEW invited \in SUBSET NPCs, StartRound(kind, fc, invited)
        PROVE  /\ rs' \in Round /\ frozen' \in Frozen /\ cast' \in SUBSET NPCs
               /\ piped' \in BOOLEAN /\ pc' = "deciding"
    <2>1. Begun(rs) \in Round
      BY <1>0, RoundOperators
    <2>2. Freeze(Begun(rs), kind, fc) \in Frozen
      <3> DEFINE q == Begun(rs)
      <3>1. /\ q.rid \in Nat /\ q.ver \in Nat /\ q.pver \in Nat /\ q.seg \in Nat
            /\ Len(msgs) \in Nat
        BY <2>1 DEF Round
      <3> HIDE DEF q
      <3>2. Freeze(q, kind, fc) \in Frozen
        BY ONLY <3>1, kind \in {"message", "opener"}, fc \in BOOLEAN DEF Freeze, Frozen
      <3> QED BY <3>2 DEF q
    <2> QED BY <1>4, <2>1, <2>2 DEF StartRound
  <1>5. CASE BeginRound
    <2>1. Invited \in SUBSET NPCs /\ (rs.status = "final_check") \in BOOLEAN
      BY DEF Invited, NpcParts, Actors
    <2>2. /\ rs' \in Round /\ frozen' \in Frozen /\ cast' \in SUBSET NPCs
          /\ piped' \in BOOLEAN /\ pc' \in {"deciding", "top"}
      <3>1. CASE open /\ ~late
        BY <1>4, <1>5, <2>1, <3>1 DEF BeginRound
      <3>2. CASE ~(open /\ ~late)
        <4>1. [rs EXCEPT !.status = "idle"] \in Round
          BY <1>0, RoundOperators DEF Statuses
        <4> QED BY <1>5, <3>2, <4>1 DEF BeginRound
      <3> QED BY <3>1, <3>2
    <2>3. triggered' \in SUBSET Nat
      BY <1>5 DEF BeginRound, PlayerMsgs, MsgIds
    <2> QED BY <1>5, <2>2, <2>3 DEF BeginRound, Joiner
  <1>6. CASE BeginOpener
    <2>1. /\ rs' \in Round /\ frozen' \in Frozen /\ cast' \in SUBSET NPCs
          /\ piped' \in BOOLEAN /\ pc' \in {"deciding", "top"}
      <3>1. CASE open /\ rs.opener \in parts
        <4>1. {rs.opener} \in SUBSET NPCs
          BY <3>1, ConstantsAssumption DEF Round, Actors
        <4> QED BY <1>4, <1>6, <3>1, <4>1 DEF BeginOpener
      <3>2. CASE ~(open /\ rs.opener \in parts)
        <4>1. [rs EXCEPT !.status = "idle"] \in Round
          BY <1>0, RoundOperators DEF Statuses
        <4> QED BY <1>6, <3>2, <4>1 DEF BeginOpener
      <3> QED BY <3>1, <3>2
    <2> QED BY <1>6, <2>1 DEF BeginOpener, Joiner
  <1>7. ASSUME NEW todo \in SUBSET NPCs, NEW after \in {"noSpeech", "finalCheck", "tail"},
               BeginLeaving(todo, after)
        PROVE  /\ leave' \in [Procs -> Leave] /\ Joiner'
               /\ lock' = "worker" /\ pc' = "leaving"
    <2>1. [stage |-> "next", who |-> None, todo |-> todo, after |-> after] \in Leave
      BY DEF Leave
    <2> QED BY <1>0, <1>7, <2>1 DEF BeginLeaving, Joiner
  <1>8. CASE Decide
    <2>1. PICK speak \in SUBSET (cast \cap parts), go \in SUBSET (cast \cap parts) :
             \/ BeginLeaving(go, NoSpeech) /\ UNCHANGED <<rs, cast>>
             \/ /\ \E post \in SUBSET speak :
                     rs' = [rs EXCEPT !.status = "generating", !.leavers = go, !.post = post]
                /\ cast' = speak /\ pc' = "examples" /\ UNCHANGED <<lock, leave>>
      BY <1>8 DEF Decide
    <2>2. /\ speak \in SUBSET NPCs /\ go \in SUBSET NPCs
          /\ NoSpeech \in {"noSpeech", "finalCheck", "tail"}
      BY <1>0 DEF NoSpeech
    <2>3. /\ rs' \in Round /\ cast' \in SUBSET NPCs /\ pc' \in {"leaving", "examples"}
          /\ lock' \in {"free", "worker", "api"} /\ leave' \in [Procs -> Leave] /\ Joiner'
      <3>1. CASE BeginLeaving(go, NoSpeech) /\ UNCHANGED <<rs, cast>>
        BY <1>7, <2>2, <3>1
      <3>2. CASE /\ \E post \in SUBSET speak :
                      rs' = [rs EXCEPT !.status = "generating", !.leavers = go, !.post = post]
                 /\ cast' = speak /\ pc' = "examples" /\ UNCHANGED <<lock, leave>>
        <4>1. PICK post \in SUBSET NPCs :
                 rs' = [rs EXCEPT !.status = "generating", !.leavers = go, !.post = post]
          BY <2>2, <3>2
        <4>2. PICK S, T, L, O, P, N :
                  /\ S = Statuses /\ L = SUBSET NPCs
                  /\ Round = [status: S, trigger: T, rid: N, ver: N, pver: N, seg: N,
                              pend: P, published: T, attempt: N, leavers: L, post: L,
                              npcOnly: N, opener: O]
          BY RoundFields, ZenonT(60)
        <4>3. "generating" \in S /\ go \in L /\ post \in L
          BY <2>2, <4>1, <4>2 DEF Statuses, Active
        <4>4. rs' \in Round
          BY ONLY <1>0, <4>1, <4>2, <4>3
        <4> QED BY <2>2, <3>2, <4>4 DEF Joiner
      <3> QED BY <2>1, <3>1, <3>2
    <2> HIDE DEF Joiner
    <2> QED BY ONLY <1>8, <2>3, Types, ZenonT(60) DEF Decide, Types, TypeOK, convVars, dayVars
  <1>9. CASE DecideOpener
    <2>1. rs' \in Round
      <3>1. \A st \in Statuses : [rs EXCEPT !.status = st] \in Round
        BY <1>0, RoundOperators
      <3> QED BY <1>9, <3>1 DEF DecideOpener, Statuses, Active
    <2>2. pc' \in {"finally", "examples"}
      BY ONLY <1>9 DEF DecideOpener
    <2> QED BY <1>9, <2>1, <2>2 DEF DecideOpener, Joiner
  <1>10. CASE PromptSpeech
    BY <1>10 DEF PromptSpeech, Joiner
  <1>11. CASE DropStale
    BY <1>11 DEF DropStale, Joiner
  <1>12. CASE SpeechDone
    <2>1. PICK kept \in SUBSET (cast \cap parts) : \E order \in Orders(kept) :
             IF kept # {}
             THEN rs' = Prepared(order) /\ pc' = "publish" /\ UNCHANGED <<lock, leave>>
             ELSE IF frozen.kind = "opener"
             THEN rs' = EnterCooldown(rs) /\ pc' = "finally" /\ UNCHANGED <<lock, leave>>
             ELSE rs' = Prepared(order) /\ BeginLeaving(rs.leavers, NoSpeech)
      BY ONLY <1>12 DEF SpeechDone
    <2>2. \A order \in Orders(kept) : Prepared(order) \in Round
      <3> TAKE order \in Orders(kept)
      <3> DEFINE pend == [k \in DOMAIN order |-> [by |-> order[k], rid |-> frozen.rid,
                                                  seen |-> frozen.seen]]
      <3>1. pend \in Seq(Publication)
        BY <1>0, PendingType
      <3> HIDE DEF pend
      <3>2. PICK S, T, L, O, P, N :
                /\ S = Statuses /\ P = Seq(Publication)
                /\ Round = [status: S, trigger: T, rid: N, ver: N, pver: N, seg: N,
                            pend: P, published: T, attempt: N, leavers: L, post: L,
                            npcOnly: N, opener: O]
        BY RoundFields, ZenonT(60)
      <3>3. "publishing" \in S /\ pend \in P
        BY <3>1, <3>2 DEF Statuses, Active
      <3>4. [rs EXCEPT !.pend = pend, !.status = "publishing"] \in Round
        BY ONLY <1>0, <3>2, <3>3
      <3> QED BY <3>4 DEF Prepared, pend
    <2>3. EnterCooldown(rs) \in Round
      BY <1>0, RoundOperators
    <2>4. NoSpeech \in {"noSpeech", "finalCheck", "tail"}
      BY DEF NoSpeech
    <2>5. /\ rs' \in Round /\ pc' \in {"publish", "finally", "leaving"}
          /\ lock' \in {"free", "worker", "api"} /\ leave' \in [Procs -> Leave] /\ Joiner'
      <3>1. CASE kept # {}
        <4>1. /\ pc' = "publish" /\ UNCHANGED <<lock, leave>>
              /\ \E order \in Orders(kept) : rs' = Prepared(order)
          BY ONLY <2>1, <3>1
        <4> QED BY <2>2, <4>1 DEF Joiner
      <3>2. CASE kept = {} /\ frozen.kind = "opener"
        <4>1. rs' = EnterCooldown(rs) /\ pc' = "finally" /\ UNCHANGED <<lock, leave>>
          BY ONLY <2>1, <3>2
        <4> QED BY <2>3, <4>1 DEF Joiner
      <3>3. CASE kept = {} /\ frozen.kind # "opener"
        <4>1. /\ BeginLeaving(rs.leavers, NoSpeech)
              /\ \E order \in Orders(kept) : rs' = Prepared(order)
          BY ONLY <2>1, <3>3
        <4>2. /\ leave' \in [Procs -> Leave] /\ Joiner'
              /\ lock' = "worker" /\ pc' = "leaving"
          BY <1>0, <1>7, <2>4, <4>1
        <4> QED BY ONLY <2>2, <4>1, <4>2
      <3> QED BY ONLY <3>1, <3>2, <3>3
    <2> HIDE DEF Joiner
    <2> QED BY ONLY <1>12, <2>5, Types DEF SpeechDone, Types, TypeOK, convVars, dayVars
  <1> QED BY <1>1, <1>2, <1>3, <1>5, <1>6, <1>8, <1>9, <1>10, <1>11, <1>12

\* The publication of a round, and the leavers after it.
LEMMA PublicationTypes ==
    ASSUME Types,
           \/ PublishEnter \/ PickPublication \/ PublishItem \/ PublishTail
           \/ DropStalePublication \/ NextLeaver
    PROVE  Types'
  <1> USE DEF Types, TypeOK, convVars, dayVars, workerVars
  <1>0. /\ rs \in Round /\ rs.pend \in Seq(Publication) /\ rs.published \in SUBSET Nat
        /\ rs.npcOnly \in Nat /\ rs.leavers \in SUBSET NPCs /\ rs.post \in SUBSET NPCs
        /\ leave["worker"] \in Leave /\ "worker" \in Procs /\ NoLeave \in Leave
        /\ msgs \in Seq(Message) /\ pubd \in SUBSET Nat /\ seg \in Nat
    BY DEF Round, NoLeave, Leave, Procs
  <1>1. CASE PublishEnter
    <2>1. frozen' \in Frozen
      <3>1. rs.rid \in Nat /\ rs.ver \in Nat /\ rs.pver \in Nat /\ rs.seg \in Nat
        BY <1>0 DEF Round
      <3>2. frozen' = frozen \/ frozen' = [frozen EXCEPT !.rid = rs.rid, !.ver = rs.ver,
                                              !.pver = rs.pver, !.seg = rs.seg]
        BY ONLY <1>1 DEF PublishEnter
      <3> QED BY <3>1, <3>2 DEF Frozen
    <2>2. pubd' \in SUBSET Nat
      BY <1>0, <1>1 DEF PublishEnter
    <2>3. pc' \in {"pick", "finally", "top"}
      BY ONLY <1>1 DEF PublishEnter, AfterPublish
    <2> QED BY <1>1, <2>1, <2>2, <2>3 DEF PublishEnter, Joiner
  <1>2. CASE PickPublication
    <2>1. item' \in NPCs \cup {None} /\ pc' \in {"tail", "gap"}
      <3>1. rs.pend # <<>> => Head(rs.pend) \in Publication
        BY <1>0
      <3> QED BY <1>2, <3>1 DEF PickPublication, Publication
    <2> QED BY <1>2, <2>1 DEF PickPublication, Joiner
  <1>3. CASE PublishItem
    <2>1. rs' \in Round /\ msgs' \in Seq(Message) /\ pubd' \in SUBSET Nat
      <3>1. CASE rs.pend = <<>> \/ Head(rs.pend).by # item
        BY <1>0, <1>3, <3>1 DEF PublishItem
      <3>2. CASE rs.pend # <<>> /\ Head(rs.pend).by = item
        <4> DEFINE p == Head(rs.pend)
                   m == [by |-> p.by, seg |-> seg, rid |-> p.rid, seen |-> p.seen]
        <4>1. p \in Publication /\ Tail(rs.pend) \in Seq(Publication)
          BY <1>0, <3>2
        <4>2. /\ msgs' \in {msgs, Append(msgs, m)}
              /\ pubd' \in {pubd, pubd \cup {Len(msgs) + 1}}
              /\ rs' \in {[rs EXCEPT !.pend = Tail(@)],
                         [rs EXCEPT !.pend = Tail(@), !.published = pubd']}
          BY <1>3, <3>2 DEF PublishItem
        <4>3. m \in Message
          BY <1>0, <4>1 DEF Publication, Message, Actors
        <4>4. pubd' \in SUBSET Nat
          BY <1>0, <4>2
        <4>5. rs' \in Round
          <5>1. PICK S, T, L, O, P, N :
                    /\ T = SUBSET Nat /\ P = Seq(Publication)
                    /\ Round = [status: S, trigger: T, rid: N, ver: N, pver: N, seg: N,
                                pend: P, published: T, attempt: N, leavers: L, post: L,
                                npcOnly: N, opener: O]
            BY RoundFields, ZenonT(60)
          <5>2. Tail(rs.pend) \in P /\ pubd' \in T
            BY <4>1, <4>4, <5>1
          <5> QED BY ONLY <1>0, <4>2, <5>1, <5>2, ZenonT(60)
        <4> HIDE DEF m, p
        <4>6. msgs' \in Seq(Message)
          BY ONLY <1>0, <4>2, <4>3
        <4> QED BY ONLY <4>4, <4>5, <4>6
      <3> QED BY <3>1, <3>2
    <2> QED BY <1>3, <2>1 DEF PublishItem, Joiner
  <1>4. CASE PublishTail
    <2>1. rs' \in Round
      <3> DEFINE q == NoTail(NoRecovery(rs))
      <3>1. q \in Round
        BY <1>0, RoundOperators
      <3> HIDE DEF q
      <3>2. PICK S, T, L, O, P, N :
                /\ N = Nat
                /\ Round = [status: S, trigger: T, rid: N, ver: N, pver: N, seg: N,
                            pend: P, published: T, attempt: N, leavers: L, post: L,
                            npcOnly: N, opener: O]
        BY RoundFields, ZenonT(60)
      <3>3. q.npcOnly + 1 \in N
        BY <3>1, <3>2, SMTT(30)
      <3>4. [q EXCEPT !.npcOnly = @ + 1] \in Round
        BY ONLY <3>1, <3>2, <3>3
      <3> QED BY <1>4, <3>4 DEF PublishTail, q
    <2>2. /\ leave' \in [Procs -> Leave] /\ Joiner'
          /\ lock' = "worker" /\ pc' = "leaving"
      <3> DEFINE todo == rs.leavers \cup (rs.post \cap {msgs[i].by : i \in pubd})
      <3>1. [stage |-> "next", who |-> None, todo |-> todo, after |-> "tail"] \in Leave
        BY <1>0 DEF Leave
      <3>2. BeginLeaving(todo, "tail")
        BY <1>4 DEF PublishTail
      <3> HIDE DEF todo
      <3> QED BY <1>0, <3>1, <3>2, SMTT(30) DEF BeginLeaving, Joiner
    <2> QED BY <1>4, <2>1, <2>2 DEF PublishTail
  <1>5. CASE DropStalePublication
    <2>1. pc' \in {"finally", "top"}
      BY ONLY <1>5 DEF DropStalePublication, AfterPublish
    <2> QED BY <1>5, <2>1 DEF DropStalePublication, Joiner
  <1>6. CASE NextLeaver
    <2>1. /\ leave' \in [Procs -> Leave] /\ Joiner'
          /\ lock' \in {lock, "free"} /\ pc' \in {pc, "finally", "top"}
      <3> DEFINE l == leave["worker"]
      <3>1. CASE l.todo # {}
        <4>1. PICK n \in l.todo :
                 leave' = [leave EXCEPT !.worker = [l EXCEPT !.stage = "begin", !.who = n,
                                                             !.todo = @ \ {n}]]
          BY <1>6, <3>1 DEF NextLeaver
        <4>2. [l EXCEPT !.stage = "begin", !.who = n, !.todo = @ \ {n}] \in Leave
          BY <1>0, <4>1 DEF Leave, Actors
        <4>3. UNCHANGED <<lock, pc>>
          BY ONLY <1>6, <3>1 DEF NextLeaver
        <4> HIDE DEF l
        <4> QED BY <1>0, <4>1, <4>2, <4>3, SMTT(30) DEF Joiner
      <3>2. CASE l.todo = {} /\ l.after = "finalCheck" /\ open
        <4>1. [l EXCEPT !.stage = "next", !.who = None, !.todo = NpcParts,
                        !.after = "checked"] \in Leave
          BY <1>0 DEF Leave, NpcParts, Actors
        <4>2. /\ leave' = [leave EXCEPT !.worker =
                             [l EXCEPT !.stage = "next", !.who = None, !.todo = NpcParts,
                                       !.after = "checked"]]
              /\ UNCHANGED <<lock, pc>>
          BY ONLY <1>6, <3>2 DEF NextLeaver
        <4> HIDE DEF l
        <4> QED BY <1>0, <4>1, <4>2 DEF Joiner
      <3>3. CASE l.todo = {} /\ ~(l.after = "finalCheck" /\ open)
        <4>1. /\ leave' = [leave EXCEPT !.worker = NoLeave] /\ lock' = "free"
              /\ pc' \in {"finally", "top"}
          BY ONLY <1>6, <3>3 DEF NextLeaver, AfterPublish
        <4> QED BY <1>0, <4>1 DEF Joiner
      <3> QED BY <3>1, <3>2, <3>3
    <2>2. rs' \in Round
      <3>1. /\ EnterCooldown(rs) \in Round
            /\ \A st \in Statuses : [rs EXCEPT !.status = st] \in Round
        BY <1>0, RoundOperators
      <3>2. AfterTail(rs) \in Round
        <4>1. PICK S, T, L, O, P, N :
                  /\ S = Statuses /\ T = SUBSET Nat /\ N = Nat
                  /\ Round = [status: S, trigger: T, rid: N, ver: N, pver: N, seg: N,
                              pend: P, published: T, attempt: N, leavers: L, post: L,
                              npcOnly: N, opener: O]
          BY RoundFields, ZenonT(60)
        <4>2. rs.ver + 1 \in N /\ pubd \in T /\ "queued" \in S
          BY <1>0, <4>1 DEF Round, Statuses
        <4>3. [rs EXCEPT !.ver = @ + 1, !.trigger = pubd, !.status = "queued"] \in Round
          BY ONLY <1>0, <4>1, <4>2
        <4> QED BY <3>1, <4>3 DEF AfterTail, Statuses
      <3>3. rs' \in {rs, AfterTail(rs), EnterCooldown(rs), [rs EXCEPT !.status = "idle"]}
        BY ONLY <1>6 DEF NextLeaver
      <3>4. "idle" \in Statuses
        BY DEF Statuses
      <3> QED BY ONLY <1>0, <3>1, <3>2, <3>3, <3>4
    <2>3. /\ UNCHANGED <<convVars, dayVars, piped, frozen, cast, pubd, item, wake, raised,
                         fails, used, triggered>>
      BY ONLY <1>6 DEF NextLeaver
    <2> HIDE DEF Joiner
    <2> QED BY ONLY <2>1, <2>2, <2>3, Types DEF Types, TypeOK, convVars, dayVars
  <1> QED BY <1>1, <1>2, <1>3, <1>4, <1>5, <1>6

\* The end of a pipeline, failures, the end of the day and crashes.
LEMMA EndTypes ==
    ASSUME Types,
           Finally \/ WorkerRaises \/ RecordFailure \/ DayEnds \/ CloseFinish \/ Crash
    PROVE  Types'
  <1> USE DEF Types, TypeOK, convVars, dayVars, workerVars
  <1>0. /\ rs \in Round /\ rs.attempt \in Nat /\ fails \in Nat /\ fails + 1 \in Nat
        /\ NoLeave \in Leave /\ NoFrozen \in Frozen
        /\ AfterTask \in {"none", "top"}
    <2>1. /\ rs \in Round /\ fails \in Nat /\ fails + 1 \in Nat
          /\ NoLeave \in Leave /\ NoFrozen \in Frozen
      BY DEF NoLeave, Leave, NoFrozen, Frozen
    <2>2. rs.attempt \in Nat
      BY ONLY <2>1 DEF Round
    <2>3. AfterTask \in {"none", "top"}
      BY ONLY Zenon DEF AfterTask
    <2> QED BY ONLY <2>1, <2>2, <2>3
  <1>1. CASE Finally
    <2>1. /\ closing' \in {"no", "world", "worker"} /\ pc' \in {"closing", "none", "top"}
          /\ fails' \in Nat
      BY <1>0, <1>1 DEF Finally
    <2>2. /\ segEnded' = segEnded \/ segEnded' = TRUE
          /\ raised' = raised \/ raised' = FALSE
          /\ segEnded \in BOOLEAN /\ raised \in BOOLEAN
      BY <1>1 DEF Finally
    <2>3. segEnded' \in BOOLEAN /\ raised' \in BOOLEAN
      BY ONLY <2>2, Zenon
    <2>4. /\ piped' = FALSE /\ deferred' = FALSE
          /\ UNCHANGED <<lock, open, parts, seg, msgs, rs, late, frozen, cast, pubd, item,
                         wake, leave, used, triggered>>
      BY ONLY <1>1 DEF Finally
    <2> QED BY ONLY <2>1, <2>3, <2>4, Types DEF Types, TypeOK, Joiner
  <1>2. CASE WorkerRaises
    <2>1. /\ pc' \in {"none", "finally"} /\ fails' \in Nat
          /\ used' \in [{"changes", "fails", "crashes"} -> Nat]
      BY <1>0, <1>2 DEF WorkerRaises, Unwind, Use
    <2>2. /\ raised' = raised \/ raised' = TRUE
          /\ raised \in BOOLEAN
      BY <1>2 DEF WorkerRaises, Unwind
    <2>3. raised' \in BOOLEAN
      BY ONLY <2>2, Zenon
    <2>4. UNCHANGED <<lock, convVars, rs, dayVars, piped, frozen, cast, pubd, item, wake,
                      leave, triggered>>
      BY ONLY <1>2 DEF WorkerRaises
    <2> QED BY ONLY <2>1, <2>3, <2>4, Types DEF Types, TypeOK, Joiner, convVars, dayVars
  <1>3. CASE RecordFailure
    <2>1. rs' \in Round
      <3>1. RetryStatus(rs) \in Statuses /\ rs.attempt + 1 \in Nat
        BY <1>0 DEF RetryStatus, Statuses, Active
      <3> DEFINE q == EnterCooldown(NoTail(rs))
                 st == RetryStatus(rs)
      <3>2. q \in Round /\ q.attempt + 1 \in Nat
        <4>1. q \in Round
          BY <1>0, RoundOperators
        <4> HIDE DEF q
        <4>2. q.attempt \in Nat
          BY ONLY <4>1 DEF Round
        <4> QED BY ONLY <4>1, <4>2
      <3>3. rs' \in {rs, [rs EXCEPT !.attempt = 1, !.status = st],
                     [q EXCEPT !.attempt = @ + 1]}
        BY ONLY <1>3 DEF RecordFailure
      <3>4. st \in Statuses
        BY <3>1
      <3> HIDE DEF q, st
      <3>5. PICK S, T, L, O, P, N :
                /\ S = Statuses /\ N = Nat
                /\ Round = [status: S, trigger: T, rid: N, ver: N, pver: N, seg: N,
                            pend: P, published: T, attempt: N, leavers: L, post: L,
                            npcOnly: N, opener: O]
        BY RoundFields, ZenonT(60)
      <3>6. st \in S /\ 1 \in N /\ q.attempt + 1 \in N
        BY <3>2, <3>4, <3>5
      <3> QED BY ONLY <1>0, <3>2, <3>3, <3>5, <3>6, ZenonT(60)
    <2>2. fails' \in Nat /\ pc' \in {pc, "top"}
      BY <1>3 DEF RecordFailure, EnsureTask
    <2>3. /\ wake' = wake \/ wake' = TRUE
          /\ wake \in BOOLEAN
      BY <1>3 DEF RecordFailure, EnsureTask
    <2>4. wake' \in BOOLEAN
      BY ONLY <2>3, Zenon
    <2>5. UNCHANGED <<lock, convVars, dayVars, piped, frozen, cast, pubd, item, raised,
                      leave, used, triggered>>
      BY ONLY <1>3 DEF RecordFailure
    <2> QED BY ONLY <2>1, <2>2, <2>4, <2>5, Types DEF Types, TypeOK, Joiner, convVars, dayVars
  <1>4. CASE DayEnds
    <2>1. /\ closing' \in {"no", "world", "worker"}
          /\ UNCHANGED <<lock, open, parts, seg, msgs, rs, piped, workerVars, wake, fails,
                         leave, used, triggered>>
      BY <1>4 DEF DayEnds
    <2>2. /\ segEnded' = segEnded \/ segEnded' = TRUE
          /\ segEnded \in BOOLEAN /\ piped \in BOOLEAN
          /\ deferred' = piped /\ late' = TRUE
      BY <1>4 DEF DayEnds, PipelineActive
    <2>3. segEnded' \in BOOLEAN /\ deferred' \in BOOLEAN /\ late' \in BOOLEAN
      BY ONLY <2>2, Zenon
    <2> QED BY ONLY <2>1, <2>3, Types DEF Types, TypeOK, Joiner, workerVars
  <1>5. CASE CloseFinish
    <2>1. rs' \in Round
      BY <1>5, DefaultRoundType DEF CloseFinish
    <2>2. /\ pc' \in {pc, "none", "top"} /\ fails' \in Nat /\ closing' = "no"
      BY <1>0, <1>5 DEF CloseFinish
    <2>3. /\ raised' = raised \/ raised' = FALSE
          /\ raised \in BOOLEAN
          /\ open' = FALSE /\ segEnded' = TRUE /\ wake' = TRUE
      BY <1>5 DEF CloseFinish
    <2>4. /\ raised' \in BOOLEAN /\ open' \in BOOLEAN /\ segEnded' \in BOOLEAN
          /\ wake' \in BOOLEAN
      BY ONLY <2>3, Zenon
    <2>5. UNCHANGED <<lock, parts, seg, msgs, late, deferred, piped, frozen, cast, pubd,
                      item, leave, used, triggered>>
      BY ONLY <1>5 DEF CloseFinish
    <2> QED BY ONLY <2>1, <2>2, <2>4, <2>5, Types DEF Types, TypeOK, Joiner
  <1>6. CASE Crash
    <2>1. leave' \in [Procs -> Leave] /\ Joiner'
      BY <1>0, <1>6 DEF Crash, Joiner, NoLeave, Procs
    <2>2. used' \in [{"changes", "fails", "crashes"} -> Nat] /\ pc' \in {"top", "none"}
      BY <1>6 DEF Crash, Use
    <2>3. frozen' \in Frozen
      BY <1>0, <1>6 DEF Crash
    <2>4. /\ lock' = "free" /\ piped' = FALSE /\ raised' = FALSE /\ fails' = 0
          /\ closing' = "no" /\ cast' = {} /\ pubd' = {} /\ item' = None /\ wake' = FALSE
          /\ UNCHANGED <<convVars, rs, late, deferred, triggered>>
      BY ONLY <1>6 DEF Crash
    <2> HIDE DEF Joiner
    <2> QED BY ONLY <2>1, <2>2, <2>3, <2>4, Types DEF Types, TypeOK, convVars
  <1> QED BY <1>1, <1>2, <1>3, <1>4, <1>5, <1>6

LEMMA NextTypes == Types /\ [Next]_vars => Types'
  <1> SUFFICES ASSUME Types, [Next]_vars PROVE Types'
    OBVIOUS
  <1>1. CASE Next
    BY <1>1, CommandTypes, LeavingTypes, RoundTypes, PublicationTypes, EndTypes
       DEF Next, Worker
  <1>2. CASE UNCHANGED vars
    BY <1>2 DEF vars, convVars, Types, TypeOK, Joiner
  <1> QED BY <1>1, <1>2

\* The round state machine keeps its types: whatever interleaves, the round
\* state is one _default_round_state could have become, and no section leaves
\* a lock, a stage of a leave or a worker step that no other section knows.
THEOREM ChatTypeCorrect == Spec => []TypeOK
  <1>1. Init => Types
    BY InitTypes
  <1>2. Types /\ [Next]_vars => Types'
    BY NextTypes
  <1>3. Types => TypeOK
    BY DEF Types
  <1> QED BY <1>1, <1>2, <1>3, PTL DEF Spec

-----------------------------------------------------------------------------
(* What is said *)

\* a worker here has not stored the speeches of its round yet, or is past their
\* publication
Preparing == {"round", "opener", "deciding", "examples", "speech", "leaving"}

\* a worker here waits for the answers of the models
Asking == {"deciding", "examples", "speech"}

\* What waits to be published: only under the status that says so, never while
\* a worker prepares a round, one speech per author and no author who already
\* spoke in the round.
Pending ==
    /\ open /\ rs.pend # <<>> => rs.status = "publishing"
    /\ pc \in Preparing => rs.pend = <<>>
    /\ \A j, k \in DOMAIN rs.pend : rs.pend[j].by = rs.pend[k].by => j = k
    /\ \A k \in DOMAIN rs.pend, i \in SpokenMsgs :
          msgs[i].rid = rs.rid => msgs[i].by # rs.pend[k].by

\* Round numbers: nothing was said under a later number than the last one, and
\* nothing yet under the number of a round that still asks.
Numbers ==
    /\ open => \A i \in SpokenMsgs : msgs[i].rid <= rs.rid
    /\ pc \in Asking => \A i \in SpokenMsgs : msgs[i].rid < frozen.rid

\* The version of the round only grows, and while it is the one a round that
\* asks has frozen, nothing was said since; after a speech was asked for, nothing
\* was said but by its own round.
Listening ==
    /\ pc \in Asking /\ open =>
          frozen.ver <= rs.ver /\ (frozen.ver = rs.ver => frozen.seen = Len(msgs))
    /\ open => \A k \in DOMAIN rs.pend, j \in MsgIds :
                  rs.pend[k].seen < j => j \in SpokenMsgs /\ msgs[j].rid = rs.rid

\* Between the question a speech answers and the speech itself only the other
\* speeches of its round were said.
Heard ==
    \A i \in SpokenMsgs, j \in MsgIds :
        msgs[i].seen < j /\ j <= i => j \in SpokenMsgs /\ msgs[j].rid = msgs[i].rid

Inv == Pending /\ Numbers /\ Listening /\ RoundsDoNotOverlap /\ OneSpeechPerRound /\ Heard

\* A step that says nothing, begins no round and stores no speech.
Quiet ==
    /\ msgs' = msgs
    /\ open' => open /\ rs'.rid = rs.rid /\ rs.ver <= rs'.ver
    /\ rs'.pend = <<>> \/ (rs'.pend = rs.pend /\ rs'.rid = rs.rid)
    /\ open' /\ rs'.pend # <<>> => rs'.status = "publishing"
    /\ pc' \in Preparing => rs'.pend = <<>>
    /\ pc' \in Asking => pc \in Asking /\ frozen' = frozen

-----------------------------------------------------------------------------

LEMMA QuietKeepsInv == ASSUME Types, Types', Inv, Quiet PROVE Inv'
  <1>1. SpokenMsgs' = SpokenMsgs /\ MsgIds' = MsgIds
    BY DEF SpokenMsgs, MsgIds, Quiet
  <1>0. rs.ver \in Nat /\ rs'.ver \in Nat /\ frozen.ver \in Nat
    BY DEF Types, TypeOK, Round, Frozen
  <1>2. Pending'
    BY <1>1 DEF Inv, Pending, Quiet
  <1>3. Numbers'
    BY <1>1 DEF Inv, Numbers, Quiet, Asking
  <1>4. RoundsDoNotOverlap'
    BY <1>1 DEF Inv, RoundsDoNotOverlap, Quiet
  <1>5. OneSpeechPerRound'
    BY <1>1 DEF Inv, OneSpeechPerRound, Quiet
  <1>6. Listening'
    BY <1>0, <1>1 DEF Inv, Listening, Quiet
  <1>7. Heard'
    BY <1>1 DEF Inv, Heard, Quiet
  <1> QED BY <1>2, <1>3, <1>4, <1>5, <1>6, <1>7 DEF Inv

\* What the operators on round states do to the number, the version and the
\* waiting list.
LEMMA RoundOperatorsKeep ==
    ASSUME NEW r \in Round
    PROVE  /\ \A st : LET q == [r EXCEPT !.status = st]
                      IN  /\ q.rid = r.rid /\ q.pend = r.pend /\ q.status = st
                          /\ q.ver = r.ver /\ q.pver = r.pver /\ q.seg = r.seg
           /\ EnterCooldown(r).rid = r.rid /\ EnterCooldown(r).pend = r.pend
           /\ NoRecovery(r).rid = r.rid /\ NoRecovery(r).pend = r.pend
           /\ NoTail(r).rid = r.rid /\ NoTail(r).pend = <<>>
           /\ Begun(r).rid = r.rid + 1 /\ Begun(r).pend = r.pend
           /\ \A q \in {EnterCooldown(r), NoRecovery(r), NoTail(r), Begun(r)} :
                 q.ver = r.ver /\ q.pver = r.pver /\ q.seg = r.seg
           /\ r.ver \in Nat
  BY DEF EnterCooldown, NoRecovery, NoTail, Begun, Round

LEMMA ResetRoundEmpties ==
    ASSUME NEW r \in Round, NEW s, NEW st, NEW op
    PROVE  /\ ResetRound(r, s, st, op).rid = r.rid /\ ResetRound(r, s, st, op).pend = <<>>
           /\ ResetRound(r, s, st, op).ver = r.ver + 1 /\ r.ver <= r.ver + 1
           /\ ResetRound(r, s, st, op).status = st /\ ResetRound(r, s, st, op).seg = s
  <1> DEFINE q == NoTail(NoRecovery(r))
  <1>1. q \in Round /\ q.rid = r.rid /\ q.pend = <<>> /\ q.ver = r.ver /\ r.ver \in Nat
    BY RoundOperators, RoundOperatorsKeep
  <1> HIDE DEF q
  <1>2. LET x == [q EXCEPT !.ver = @ + 1, !.pver = @ + 1, !.status = st, !.trigger = {},
                           !.seg = s, !.npcOnly = 0, !.opener = op]
        IN  x.rid = q.rid /\ x.pend = q.pend /\ x.ver = q.ver + 1 /\ x.status = st /\ x.seg = s
    BY ONLY <1>1 DEF Round
  <1> QED BY <1>1, <1>2 DEF ResetRound, q

LEMMA QueueRoundEmpties ==
    ASSUME NEW r \in Round, NEW m, NEW M,
           r.pend # <<>> => r.status = "publishing"
    PROVE  /\ QueueRound(r, m, M).rid = r.rid /\ QueueRound(r, m, M).pend = <<>>
           /\ QueueRound(r, m, M).ver = r.ver + 1 /\ QueueRound(r, m, M).seg = r.seg
  <1> DEFINE q == NoTail(NoRecovery(r))
  <1>1. /\ q \in Round /\ q.rid = r.rid /\ q.pend = <<>> /\ q.ver = r.ver
        /\ q.seg = r.seg
    BY RoundOperators, RoundOperatorsKeep
  <1> HIDE DEF q
  <1>2. \A z \in {q, r} : \A t :
          LET x == [z EXCEPT !.ver = @ + 1, !.status = "queued", !.npcOnly = 0, !.trigger = t]
          IN  x.rid = z.rid /\ x.pend = z.pend /\ x.ver = z.ver + 1 /\ x.seg = z.seg
    BY ONLY <1>1, r \in Round DEF Round
  <1>3. CASE r.status \in Active
    BY <1>1, <1>2, <1>3 DEF QueueRound, q
  <1>4. CASE r.status \notin Active
    <2>1. r.pend = <<>>
      BY <1>4 DEF Active
    <2>2. QueueRound(r, m, M) =
            [r EXCEPT !.ver = @ + 1, !.status = "queued", !.npcOnly = 0,
                      !.trigger = IF r.status = "queued" THEN @ \cup {m} ELSE {m}]
      BY <1>4 DEF QueueRound
    <2> QED BY <1>2, <2>1, <2>2
  <1> QED BY <1>3, <1>4

-----------------------------------------------------------------------------
(* The quiet steps *)

\* A step that leaves the messages and the round state alone, and the worker
\* where it is or outside a round.
LEMMA StillIsQuiet ==
    ASSUME Types, Inv, UNCHANGED <<msgs, rs, frozen>>, open' => open,
           pc' = pc \/ pc' \notin Preparing
    PROVE  Quiet
  <1>1. rs.ver <= rs.ver
    BY DEF Types, TypeOK, Round
  <1> QED BY <1>1 DEF Inv, Pending, Quiet, Preparing, Asking

\* A step that empties the waiting list without beginning a round.
LEMMA EmptyingIsQuiet ==
    ASSUME Inv, UNCHANGED <<msgs, frozen>>,
           open' => open /\ rs'.rid = rs.rid /\ rs.ver <= rs'.ver,
           rs'.pend = <<>>, pc' = pc \/ pc' \notin Asking
    PROVE  Quiet
  BY DEF Inv, Quiet

LEMMA CommandsAreQuiet ==
    ASSUME Types, Inv,
           \/ Request \/ ConversationIdle \/ PlayerLeaves
           \/ (\E n \in NPCs : ApiRemove(n)) \/ (\E a \in Actors : JoinBegin(a))
           \/ JoinFinish \/ ApiRemoved \/ Leaving
    PROVE  Quiet
  <1>0. rs \in Round /\ "top" \notin Preparing
    BY DEF Types, TypeOK, Preparing
  <1>1. CASE Request
    BY <1>0, <1>1, StillIsQuiet DEF Request, EnsureTask, convVars
  <1>2. CASE ConversationIdle
    <2>1. rs.pend = <<>>
      BY <1>2 DEF ConversationIdle, Inv, Pending
    <2>2. rs'.pend = <<>> /\ rs'.rid = rs.rid /\ rs.ver <= rs'.ver
      BY <1>0, <1>2, <2>1, RoundOperatorsKeep DEF ConversationIdle
    <2>3. UNCHANGED <<msgs, frozen, open>> /\ pc' \in {pc, "top"}
      BY <1>2 DEF ConversationIdle, EnsureTask, convVars
    <2> QED BY <2>2, <2>3, EmptyingIsQuiet DEF Asking
  <1>3. CASE PlayerLeaves
    <2>1. UNCHANGED <<msgs, frozen, pc>>
      BY <1>3 DEF PlayerLeaves, workerVars
    <2>2. CASE Cardinality(parts) > 2
      <3>1. rs' = ResetRound(rs, seg + 1, "idle", None) /\ open' = open
        BY ONLY <1>3, <2>2 DEF PlayerLeaves
      <3>2. rs'.pend = <<>> /\ rs'.rid = rs.rid /\ rs.ver <= rs'.ver
        BY <1>0, <3>1, ResetRoundEmpties
      <3> QED BY <2>1, <3>1, <3>2, EmptyingIsQuiet
    <2>3. CASE ~(Cardinality(parts) > 2)
      <3>1. rs' = [rs EXCEPT !.status = "closed_maintenance"] /\ open' = FALSE
        BY ONLY <1>3, <2>3 DEF PlayerLeaves
      <3>2. rs'.pend = rs.pend /\ rs'.rid = rs.rid
        BY <1>0, <3>1, RoundOperatorsKeep
      <3> QED BY <2>1, <3>1, <3>2 DEF Quiet, Inv, Pending, Preparing, Asking
    <2> QED BY <2>2, <2>3
  <1>4. ASSUME NEW n \in NPCs, ApiRemove(n) PROVE Quiet
    BY <1>4, StillIsQuiet DEF ApiRemove, convVars, workerVars
  <1>5. ASSUME NEW a \in Actors, JoinBegin(a) PROVE Quiet
    BY <1>5, StillIsQuiet DEF JoinBegin, workerVars
  <1>6. CASE JoinFinish
    <2>1. UNCHANGED <<msgs, frozen, open>> /\ pc' \in {pc, "top"}
      BY <1>6 DEF JoinFinish, EnsureTask
    <2>2. \/ rs' = rs
          \/ rs' = ResetRound(rs, seg + 1, "awaiting_player_opener", None)
          \/ rs' = ResetRound(rs, seg + 1, "opener", leave["api"].who)
      BY ONLY <1>6 DEF JoinFinish
    <2>3. CASE rs' = rs
      BY <1>0, <2>1, <2>3, StillIsQuiet
    <2>4. CASE rs' # rs
      <3>1. rs'.pend = <<>> /\ rs'.rid = rs.rid /\ rs.ver <= rs'.ver
        BY <1>0, <2>2, <2>4, ResetRoundEmpties
      <3> QED BY <2>1, <3>1, EmptyingIsQuiet DEF Asking
    <2> QED BY <2>3, <2>4
  <1>7. CASE ApiRemoved
    BY <1>7, StillIsQuiet DEF ApiRemoved, convVars, workerVars
  <1>8. ASSUME NEW p \in Procs, LeaveBegin(p) PROVE Quiet
    <2>1. UNCHANGED <<msgs, rs, frozen, pc>>
      BY <1>8 DEF LeaveBegin, workerVars
    <2>2. open' => open
      BY <1>8 DEF LeaveBegin, Depart
    <2> QED BY <2>1, <2>2, StillIsQuiet
  <1>9. ASSUME NEW p \in Procs, LeaveSummarised(p) PROVE Quiet
    <2>1. UNCHANGED <<msgs, rs, frozen>>
      BY <1>9 DEF LeaveSummarised
    <2>2. open' => open
      BY <1>9 DEF LeaveSummarised, Depart
    <2>3. pc' \in {pc, "finally", "none"}
      BY <1>9 DEF LeaveSummarised, Unwind
    <2> QED BY <2>1, <2>2, <2>3, StillIsQuiet DEF Preparing
  <1>10. ASSUME NEW p \in Procs, LeaveConsolidated(p) PROVE Quiet
    <2>1. UNCHANGED <<msgs, frozen, open, pc>>
      BY <1>10 DEF LeaveConsolidated, convVars, workerVars
    <2>2. rs' = rs \/ rs' = ResetRound(rs, seg, "idle", None)
      BY ONLY <1>10 DEF LeaveConsolidated
    <2>3. CASE rs' = rs
      BY <2>1, <2>3, StillIsQuiet
    <2>4. CASE rs' # rs
      <3>1. rs'.pend = <<>> /\ rs'.rid = rs.rid /\ rs.ver <= rs'.ver
        BY <1>0, <2>2, <2>4, ResetRoundEmpties
      <3> QED BY <2>1, <3>1, EmptyingIsQuiet
    <2> QED BY <2>3, <2>4
  <1> QED BY <1>1, <1>2, <1>3, <1>4, <1>5, <1>6, <1>7, <1>8, <1>9, <1>10 DEF Leaving

\* What the worker does before, between and after its sections that begin a
\* round, store speeches or publish them.
LEMMA WorkerIsQuiet ==
    ASSUME Types, Inv,
           \/ WorkerTop \/ CooldownWoken \/ CooldownExpired
           \/ Decide \/ DecideOpener \/ PromptSpeech \/ DropStale
           \/ PublishEnter \/ PickPublication \/ DropStalePublication
           \/ PublishTail \/ NextLeaver
    PROVE  Quiet
  <1>0. rs \in Round
    BY DEF Types, TypeOK
  <1>1. CASE WorkerTop
    <2>1. msgs' = msgs /\ open' = open
      BY <1>1 DEF WorkerTop, convVars
    <2>2. CASE ~open
      <3>1. pc' = "none" /\ rs' = DefaultRound(seg)
        BY ONLY <1>1, <2>2 DEF WorkerTop
      <3>2. rs'.pend = <<>>
        BY ONLY <3>1 DEF DefaultRound
      <3> QED BY <2>1, <2>2, <3>1, <3>2 DEF Quiet, Preparing, Asking
    <2>3. CASE open
      <3> DEFINE st == Normalised(rs)
      <3>1. /\ rs' = [rs EXCEPT !.status = IF st = "closed_maintenance" THEN "idle" ELSE st]
            /\ pc' = CASE st = "cooldown" -> "cooling"
                       [] st = "publishing" -> "publish"
                       [] st = "opener" -> "opener"
                       [] st \in {"queued", "final_check"} -> "round"
                       [] OTHER -> "none"
        BY ONLY <1>1, <2>3 DEF WorkerTop
      <3>2. rs.pend # <<>> => st = "publishing"
        BY <2>3 DEF Inv, Pending, Normalised
      <3> HIDE DEF st
      <3>3. rs'.rid = rs.rid /\ rs'.pend = rs.pend /\ rs.ver <= rs'.ver
        BY <1>0, <3>1, RoundOperatorsKeep
      <3>4. rs.pend # <<>> => rs'.status = "publishing" /\ pc' = "publish"
        BY ONLY <1>0, <3>1, <3>2 DEF Round
      <3>5. pc' \notin Asking
        BY ONLY <3>1 DEF Asking
      <3> QED BY <2>1, <2>3, <3>3, <3>4, <3>5 DEF Quiet, Preparing
    <2> QED BY <2>2, <2>3
  <1>2. CASE CooldownWoken
    BY <1>2, StillIsQuiet DEF CooldownWoken, convVars, Preparing
  <1>3. CASE CooldownExpired
    <2>1. UNCHANGED <<msgs, open, frozen>> /\ pc' \in {"none", "top"}
      BY <1>3 DEF CooldownExpired, convVars
    <2>2. CASE open /\ rs.status = "cooldown"
      <3>1. rs.pend = <<>>
        BY <2>2 DEF Inv, Pending
      <3>2. rs' = [rs EXCEPT !.ver = @ + 1, !.status = "final_check"]
        BY ONLY <1>3, <2>2 DEF CooldownExpired
      <3>3. rs'.pend = rs.pend /\ rs'.rid = rs.rid /\ rs.ver <= rs'.ver
        BY ONLY <1>0, <3>2 DEF Round
      <3> QED BY <2>1, <3>1, <3>3, EmptyingIsQuiet DEF Asking
    <2>3. CASE ~(open /\ rs.status = "cooldown")
      BY <1>3, <2>1, <2>3, StillIsQuiet DEF CooldownExpired, Preparing
    <2> QED BY <2>2, <2>3
  <1>4. CASE Decide
    <2>1. rs.pend = <<>> /\ pc \in Asking
      BY <1>4 DEF Decide, Inv, Pending, Preparing, Asking
    <2>2. UNCHANGED <<msgs, open, frozen>> /\ pc' \in {"leaving", "examples"}
      BY <1>4 DEF Decide, BeginLeaving, convVars
    <2>3. \/ rs' = rs
          \/ \E go, post : rs' = [rs EXCEPT !.status = "generating",
                                           !.leavers = go, !.post = post]
      BY ONLY <1>4 DEF Decide
    <2>4. rs'.pend = rs.pend /\ rs'.rid = rs.rid /\ rs'.ver = rs.ver
      BY ONLY <1>0, <2>3 DEF Round
    <2>5. rs.ver <= rs'.ver
      BY ONLY <1>0, <2>4 DEF Round
    <2> QED BY <2>1, <2>2, <2>4, <2>5 DEF Quiet
  <1>5. CASE DecideOpener
    <2>1. rs.pend = <<>> /\ pc \in Asking
      BY <1>5 DEF DecideOpener, Inv, Pending, Preparing, Asking
    <2>2. UNCHANGED <<msgs, open, frozen>>
      BY <1>5 DEF DecideOpener, convVars
    <2>3. rs'.pend = rs.pend /\ rs'.rid = rs.rid /\ rs.ver <= rs'.ver
      BY <1>0, <1>5, RoundOperatorsKeep DEF DecideOpener
    <2> QED BY <2>1, <2>2, <2>3 DEF Quiet
  <1>6. CASE PromptSpeech
    <2>1. rs.pend = <<>> /\ pc \in Asking
      BY <1>6 DEF PromptSpeech, Inv, Pending, Preparing, Asking
    <2>2. rs.ver <= rs.ver
      BY <1>0 DEF Round
    <2> QED BY <1>6, <2>1, <2>2 DEF PromptSpeech, convVars, Quiet
  <1>7. CASE DropStale
    BY <1>7, StillIsQuiet DEF DropStale, convVars, Preparing
  <1>8. CASE PublishEnter
    <2>1. UNCHANGED <<msgs, rs, open>> /\ pc' \in {"pick", "finally", "top"}
      BY <1>8 DEF PublishEnter, AfterPublish, convVars
    <2>2. rs.ver <= rs.ver
      BY <1>0 DEF Round
    <2> QED BY <2>1, <2>2 DEF Quiet, Inv, Pending, Preparing, Asking
  <1>9. CASE PickPublication
    BY <1>9, StillIsQuiet DEF PickPublication, convVars, Preparing
  <1>10. CASE DropStalePublication
    BY <1>10, StillIsQuiet DEF DropStalePublication, AfterPublish, convVars, Preparing
  <1>11. CASE PublishTail
    <2> DEFINE q == NoTail(NoRecovery(rs))
    <2>1. /\ q \in Round /\ q.rid = rs.rid /\ q.pend = <<>> /\ q.ver = rs.ver
          /\ rs.ver \in Nat
      BY <1>0, RoundOperators, RoundOperatorsKeep
    <2>2. rs' = [q EXCEPT !.npcOnly = @ + 1]
      BY <1>11 DEF PublishTail
    <2> HIDE DEF q
    <2>3. rs'.rid = rs.rid /\ rs'.pend = <<>> /\ rs.ver <= rs'.ver
      BY ONLY <2>1, <2>2 DEF Round
    <2>4. UNCHANGED <<msgs, open, frozen>> /\ pc' = "leaving"
      BY <1>11 DEF PublishTail, BeginLeaving, convVars
    <2> QED BY <2>3, <2>4, EmptyingIsQuiet DEF Asking
  <1>12. CASE NextLeaver
    <2>1. rs.pend = <<>> /\ pc = "leaving"
      BY <1>12 DEF NextLeaver, Inv, Pending, Preparing
    <2>2. UNCHANGED <<msgs, open, frozen>>
      BY <1>12 DEF NextLeaver, convVars
    <2>3. pc' \in {"leaving", "finally", "top"}
      BY ONLY <1>12 DEF NextLeaver, AfterPublish
    <2>4. rs' \in {rs, AfterTail(rs), EnterCooldown(rs), [rs EXCEPT !.status = "idle"]}
      BY ONLY <1>12 DEF NextLeaver
    <2>5. /\ AfterTail(rs).rid = rs.rid /\ AfterTail(rs).pend = rs.pend
          /\ rs.ver <= AfterTail(rs).ver
      <3>1. LET x == [rs EXCEPT !.ver = @ + 1, !.trigger = pubd, !.status = "queued"]
            IN  x.rid = rs.rid /\ x.pend = rs.pend /\ rs.ver <= x.ver
        BY ONLY <1>0 DEF Round
      <3> QED BY <1>0, <3>1, RoundOperatorsKeep DEF AfterTail
    <2>6. rs'.rid = rs.rid /\ rs'.pend = <<>> /\ rs.ver <= rs'.ver
      <3>1. /\ EnterCooldown(rs).rid = rs.rid /\ EnterCooldown(rs).pend = rs.pend
            /\ [rs EXCEPT !.status = "idle"].rid = rs.rid
            /\ [rs EXCEPT !.status = "idle"].pend = rs.pend
            /\ EnterCooldown(rs).ver = rs.ver /\ [rs EXCEPT !.status = "idle"].ver = rs.ver
            /\ rs.ver <= rs.ver
        BY ONLY <1>0, RoundOperatorsKeep
      <3> QED BY ONLY <2>1, <2>4, <2>5, <3>1
    <2> QED BY <2>2, <2>3, <2>6, EmptyingIsQuiet, SMTT(30) DEF Asking
  <1> QED BY <1>1, <1>2, <1>3, <1>4, <1>5, <1>6, <1>7, <1>8, <1>9, <1>10, <1>11, <1>12

LEMMA EndsAreQuiet ==
    ASSUME Types, Inv,
           Finally \/ WorkerRaises \/ RecordFailure \/ DayEnds \/ CloseFinish \/ Crash
    PROVE  Quiet
  <1>0. rs \in Round
    BY DEF Types, TypeOK
  <1>1. CASE Finally
    <2>1. pc' \in {"closing", "none", "top"}
      BY ONLY <1>1 DEF Finally, AfterTask
    <2> QED BY <1>1, <2>1, StillIsQuiet DEF Finally, Preparing
  <1>2. CASE WorkerRaises
    BY <1>2, StillIsQuiet DEF WorkerRaises, Unwind, convVars, Preparing
  <1>3. CASE RecordFailure
    <2>1. UNCHANGED <<msgs, open, frozen>> /\ pc' \in {pc, "top"}
      BY <1>3 DEF RecordFailure, EnsureTask, convVars
    <2>2. CASE ~open
      BY <1>3, <2>1, <2>2, StillIsQuiet DEF RecordFailure, Preparing
    <2>3. CASE open /\ rs.attempt = 0
      <3> DEFINE st == RetryStatus(rs)
      <3>1. rs' = [rs EXCEPT !.attempt = 1, !.status = st]
        BY ONLY <1>3, <2>3 DEF RecordFailure
      <3>2. rs.pend # <<>> => st = "publishing"
        BY <2>3 DEF Inv, Pending, RetryStatus
      <3> HIDE DEF st
      <3>3. rs'.rid = rs.rid /\ rs'.pend = rs.pend /\ rs'.status = st /\ rs.ver <= rs'.ver
        BY ONLY <1>0, <3>1 DEF Round
      <3> QED BY <2>1, <3>2, <3>3 DEF Quiet, Inv, Pending, Preparing, Asking
    <2>4. CASE open /\ rs.attempt # 0
      <3> DEFINE q == EnterCooldown(NoTail(rs))
      <3>1. /\ q \in Round /\ q.rid = rs.rid /\ q.pend = <<>> /\ q.ver = rs.ver
            /\ rs.ver \in Nat
        BY <1>0, RoundOperators, RoundOperatorsKeep, ZenonT(60)
      <3>2. rs' = [q EXCEPT !.attempt = @ + 1]
        BY ONLY <1>3, <2>4 DEF RecordFailure
      <3> HIDE DEF q
      <3>3. rs'.rid = rs.rid /\ rs'.pend = <<>> /\ rs.ver <= rs'.ver
        BY ONLY <3>1, <3>2 DEF Round
      <3> QED BY <2>1, <3>3, EmptyingIsQuiet DEF Asking
    <2> QED BY <2>2, <2>3, <2>4
  <1>4. CASE DayEnds
    BY <1>4, StillIsQuiet DEF DayEnds, workerVars
  <1>5. CASE CloseFinish
    <2>1. rs'.pend = <<>> /\ open' = FALSE
      BY <1>5 DEF CloseFinish, DefaultRound
    <2>2. UNCHANGED <<msgs, frozen>> /\ pc' \in {pc, "none", "top"}
      BY <1>5 DEF CloseFinish, AfterTask
    <2> QED BY <2>1, <2>2, EmptyingIsQuiet DEF Asking
  <1>6. CASE Crash
    <2>1. UNCHANGED <<msgs, rs, open>> /\ pc' \in {"none", "top"}
      BY <1>6 DEF Crash, convVars
    <2>2. rs.ver <= rs.ver
      BY <1>0 DEF Round
    <2> QED BY <2>1, <2>2 DEF Quiet, Inv, Pending, Preparing, Asking
  <1> QED BY <1>1, <1>2, <1>3, <1>4, <1>5, <1>6

-----------------------------------------------------------------------------
(* The steps that are not quiet *)

LEMMA PlayerMessageKeepsInv == ASSUME Types, Types', Inv, PlayerMessage PROVE Inv'
  <1>0. rs \in Round /\ msgs \in Seq(Message) /\ rs.ver \in Nat /\ frozen.ver \in Nat
    BY DEF Types, TypeOK, Round, Frozen
  <1>1. rs.pend # <<>> => rs.status = "publishing"
    BY DEF PlayerMessage, Inv, Pending
  <1>2. rs'.rid = rs.rid /\ rs'.pend = <<>> /\ rs'.ver = rs.ver + 1
    BY <1>0, <1>1, QueueRoundEmpties DEF PlayerMessage
  <1>3. UNCHANGED <<open, frozen>> /\ pc' \in {pc, "top"}
    BY DEF PlayerMessage, EnsureTask
  <1>4. /\ SpokenMsgs' = SpokenMsgs /\ \A i \in SpokenMsgs : msgs'[i] = msgs[i]
        /\ \A i \in SpokenMsgs, j \in MsgIds' : j <= i => j \in MsgIds
    <2>1. msgs' = Append(msgs, [by |-> Player, seg |-> seg, rid |-> 0, seen |-> Len(msgs)])
      BY DEF PlayerMessage
    <2>2. /\ Len(msgs') = Len(msgs) + 1 /\ msgs'[Len(msgs) + 1].by = Player
          /\ \A i \in 1..Len(msgs) : msgs'[i] = msgs[i]
          /\ Len(msgs) \in Nat
      BY ONLY <1>0, <2>1
    <2> QED BY <2>2 DEF SpokenMsgs, MsgIds
  <1>5. Pending'
    BY <1>2 DEF Pending
  <1>6. Numbers'
    BY <1>2, <1>3, <1>4 DEF Inv, Numbers, Asking
  <1>7. RoundsDoNotOverlap'
    BY <1>2, <1>4 DEF Inv, RoundsDoNotOverlap
  <1>8. OneSpeechPerRound'
    BY <1>4 DEF Inv, OneSpeechPerRound
  <1>9. Listening'
    BY <1>0, <1>2, <1>3 DEF Inv, Listening, Asking
  <1>10. Heard'
    BY <1>4 DEF Inv, Heard
  <1> QED BY <1>5, <1>6, <1>7, <1>8, <1>9, <1>10 DEF Inv

\* A round that begins takes a number nothing was said under.
LEMMA RoundStartKeepsInv == ASSUME Types, Types', Inv, BeginRound \/ BeginOpener PROVE Inv'
  <1>0. rs \in Round /\ msgs \in Seq(Message)
    BY DEF Types, TypeOK
  <1>1. /\ UNCHANGED <<msgs, open>> /\ pc \in {"round", "opener"}
        /\ rs.pend = <<>>
    BY DEF BeginRound, BeginOpener, convVars, Inv, Pending, Preparing
  <1>2. CASE /\ open
             /\ \E kind, fc, invited : StartRound(kind, fc, invited)
    <2>1. /\ rs' = Begun(rs) /\ pc' = "deciding"
          /\ frozen'.rid = Begun(rs).rid /\ frozen'.ver = Begun(rs).ver
          /\ frozen'.seen = Len(msgs)
      BY <1>2 DEF StartRound, Freeze
    <2>2. /\ rs'.rid = rs.rid + 1 /\ frozen'.rid = rs.rid + 1 /\ rs'.pend = <<>>
          /\ frozen'.ver = rs'.ver /\ rs'.ver \in Nat
      BY <1>0, <1>1, <2>1, RoundOperatorsKeep
    <2>3. SpokenMsgs' = SpokenMsgs /\ MsgIds' = MsgIds
      BY <1>1 DEF SpokenMsgs, MsgIds
    <2>4. \A i \in SpokenMsgs : msgs[i].rid \in Nat /\ msgs[i].rid <= rs.rid
      <3>1. \A i \in SpokenMsgs : msgs[i] \in Message
        BY ONLY <1>0 DEF SpokenMsgs, MsgIds
      <3>2. \A i \in SpokenMsgs : msgs[i].rid \in Nat
        BY ONLY <3>1 DEF Message
      <3> QED BY <1>2, <3>2 DEF Inv, Numbers
    <2>5. rs.rid \in Nat
      BY <1>0 DEF Round
    <2>6. Pending' /\ RoundsDoNotOverlap' /\ OneSpeechPerRound'
      BY <1>1, <2>2, <2>3 DEF Inv, Pending, RoundsDoNotOverlap, OneSpeechPerRound
    <2>7. Numbers'
      BY <1>1, <2>2, <2>3, <2>4, <2>5 DEF Numbers
    <2>8. Listening' /\ Heard'
      BY <1>1, <2>1, <2>2, <2>3 DEF Inv, Listening, Heard
    <2> QED BY <2>6, <2>7, <2>8 DEF Inv
  <1>3. CASE /\ pc' = "top" /\ UNCHANGED frozen
             /\ rs' \in {rs, [rs EXCEPT !.status = "idle"]}
    <2>1. rs'.rid = rs.rid /\ rs'.pend = <<>> /\ rs.ver <= rs'.ver
      <3>1. /\ [rs EXCEPT !.status = "idle"].rid = rs.rid
            /\ [rs EXCEPT !.status = "idle"].pend = rs.pend
            /\ [rs EXCEPT !.status = "idle"].ver = rs.ver /\ rs.ver <= rs.ver
        BY ONLY <1>0, RoundOperatorsKeep
      <3> QED BY ONLY <1>1, <1>3, <3>1
    <2> QED BY <1>1, <1>3, <2>1, EmptyingIsQuiet, QuietKeepsInv DEF Asking
  <1>4. \/ open /\ \E kind, fc, invited : StartRound(kind, fc, invited)
        \/ /\ pc' = "top" /\ UNCHANGED frozen
           /\ rs' \in {rs, [rs EXCEPT !.status = "idle"]}
    BY DEF BeginRound, BeginOpener
  <1> QED BY <1>2, <1>3, <1>4

\* The speeches of a round have distinct authors and its number.
LEMMA SpeechesKeepInv == ASSUME Types, Types', Inv, SpeechDone PROVE Inv'
  <1>0. rs \in Round /\ msgs \in Seq(Message) /\ cast \in SUBSET NPCs
    BY DEF Types, TypeOK
  <1>1. /\ UNCHANGED <<msgs, open, frozen>> /\ pc = "speech" /\ open
        /\ rs.pend = <<>> /\ rs.rid = frozen.rid /\ frozen.seen = Len(msgs)
        /\ \A i \in SpokenMsgs : msgs[i].rid < frozen.rid
    BY DEF SpeechDone, StillCurrent, convVars, Inv, Pending, Numbers, Listening,
           Preparing, Asking
  <1>2. SpokenMsgs' = SpokenMsgs /\ MsgIds' = MsgIds
    BY <1>1 DEF SpokenMsgs, MsgIds
  <1>3. PICK kept \in SUBSET (cast \cap parts) : \E order \in Orders(kept) :
             IF kept # {}
             THEN rs' = Prepared(order) /\ pc' = "publish" /\ UNCHANGED <<lock, leave>>
             ELSE IF frozen.kind = "opener"
             THEN rs' = EnterCooldown(rs) /\ pc' = "finally" /\ UNCHANGED <<lock, leave>>
             ELSE rs' = Prepared(order) /\ BeginLeaving(rs.leavers, NoSpeech)
    BY ONLY SpeechDone DEF SpeechDone
  <1>4. PICK order \in Orders(kept) :
             IF kept # {}
             THEN rs' = Prepared(order) /\ pc' = "publish" /\ UNCHANGED <<lock, leave>>
             ELSE IF frozen.kind = "opener"
             THEN rs' = EnterCooldown(rs) /\ pc' = "finally" /\ UNCHANGED <<lock, leave>>
             ELSE rs' = Prepared(order) /\ BeginLeaving(rs.leavers, NoSpeech)
    BY ONLY <1>3
  <1>5. /\ Prepared(order).rid = rs.rid /\ Prepared(order).status = "publishing"
        /\ DOMAIN Prepared(order).pend = DOMAIN order
        /\ \A k \in DOMAIN order : /\ Prepared(order).pend[k].by = order[k]
                                   /\ Prepared(order).pend[k].rid = frozen.rid
                                   /\ Prepared(order).pend[k].seen = frozen.seen
    BY ONLY <1>0 DEF Prepared, Round
  <1>6. /\ DOMAIN order = 1..Cardinality(kept)
        /\ \A j, k \in DOMAIN order : order[j] = order[k] => j = k
    BY DEF Orders
  <1>7. ASSUME rs' = Prepared(order), pc' \notin Asking,
               pc' \in Preparing => kept = {}
        PROVE  Inv'
    <2>1. pc' \in Preparing => rs'.pend = <<>>
      <3> SUFFICES ASSUME pc' \in Preparing PROVE rs'.pend = <<>>
        OBVIOUS
      <3>1. kept = {} /\ 1..Cardinality(kept) = {}
        BY <1>7, FS_EmptySet
      <3>2. rs'.pend \in Seq(Publication)
        BY RoundTypes, SpeechDone DEF Types, TypeOK, Round
      <3>3. DOMAIN rs'.pend = {}
        BY <1>5, <1>6, <1>7, <3>1
      <3>4. DOMAIN rs'.pend = 1..Len(rs'.pend) /\ Len(rs'.pend) \in Nat
        BY ONLY <3>2
      <3>5. Len(rs'.pend) = 0
        <4>1. SUFFICES ASSUME Len(rs'.pend) # 0 PROVE FALSE
          OBVIOUS
        <4>2. 1 \in 1..Len(rs'.pend)
          BY ONLY <3>4, <4>1
        <4> QED BY ONLY <3>3, <3>4, <4>2
      <3> QED BY ONLY <3>2, <3>5
    <2>2. Pending'
      <3>1. rs'.status = "publishing"
        BY <1>5, <1>7
      <3>2. \A j, k \in DOMAIN rs'.pend : rs'.pend[j].by = rs'.pend[k].by => j = k
        <4>1. rs' = Prepared(order)
          BY ONLY <1>7
        <4>2. DOMAIN rs'.pend = DOMAIN order
          BY ONLY <1>5, <4>1
        <4>3. \A k \in DOMAIN order : rs'.pend[k].by = order[k]
          BY ONLY <1>5, <4>1
        <4> QED BY ONLY <1>6, <4>2, <4>3
      <3>3. \A i \in SpokenMsgs : msgs[i].rid # rs'.rid
        <4>1. \A i \in SpokenMsgs : msgs[i] \in Message
          BY ONLY <1>0 DEF SpokenMsgs, MsgIds
        <4>2. \A i \in SpokenMsgs : msgs[i].rid \in Nat
          BY ONLY <4>1 DEF Message
        <4>3. rs.rid \in Nat
          BY ONLY <1>0 DEF Round
        <4> QED BY ONLY <1>1, <1>5, <1>7, <4>2, <4>3
      <3> QED BY ONLY <1>1, <1>2, <2>1, <3>1, <3>2, <3>3 DEF Pending
    <2>3. Numbers'
      BY <1>1, <1>2, <1>5, <1>7 DEF Inv, Numbers, Preparing, Asking
    <2>4. RoundsDoNotOverlap' /\ OneSpeechPerRound'
      BY <1>1, <1>2, <1>5, <1>7 DEF Inv, RoundsDoNotOverlap, OneSpeechPerRound
    <2>5. Listening' /\ Heard'
      <3>1. \A j \in MsgIds : ~(Len(msgs) < j)
        BY <1>0 DEF MsgIds
      <3>2. \A k \in DOMAIN rs'.pend : rs'.pend[k].seen = Len(msgs)
        BY ONLY <1>1, <1>5, <1>7
      <3> QED BY <1>1, <1>2, <1>7, <3>1, <3>2 DEF Inv, Listening, Heard
    <2> QED BY <2>2, <2>3, <2>4, <2>5 DEF Inv
  <1>8. CASE rs' = EnterCooldown(rs) /\ pc' = "finally"
    <2>1. rs'.rid = rs.rid /\ rs'.pend = <<>> /\ rs.ver <= rs'.ver
      BY <1>0, <1>1, <1>8, RoundOperatorsKeep
    <2> QED BY <1>1, <1>8, <2>1, EmptyingIsQuiet, QuietKeepsInv DEF Asking
  <1>9. CASE kept # {}
    <2>1. rs' = Prepared(order) /\ pc' = "publish"
      BY ONLY <1>4, <1>9
    <2>2. pc' \notin Preparing /\ pc' \notin Asking
      BY ONLY <2>1 DEF Preparing, Asking
    <2> QED BY <1>7, <2>1, <2>2
  <1>10. CASE kept = {} /\ frozen.kind = "opener"
    <2>1. rs' = EnterCooldown(rs) /\ pc' = "finally"
      BY ONLY <1>4, <1>10
    <2> QED BY <1>8, <2>1
  <1>11. CASE kept = {} /\ frozen.kind # "opener"
    <2>1. rs' = Prepared(order) /\ BeginLeaving(rs.leavers, NoSpeech)
      BY ONLY <1>4, <1>11
    <2>2. pc' \notin Asking
      BY ONLY <2>1 DEF BeginLeaving, Asking
    <2> QED BY <1>7, <1>11, <2>1, <2>2
  <1> QED BY <1>9, <1>10, <1>11

\* A speech moves from the waiting list to the messages in one step.
LEMMA PublishItemKeepsInv == ASSUME Types, Types', Inv, PublishItem PROVE Inv'
  <1>0. /\ rs \in Round /\ rs.pend \in Seq(Publication) /\ rs.rid \in Nat
        /\ msgs \in Seq(Message)
    BY DEF Types, TypeOK, Round
  <1>1. /\ UNCHANGED <<open, frozen>> /\ open /\ pc' = "pick"
    BY DEF PublishItem, StillCurrent
  <1>2. CASE rs.pend = <<>> \/ Head(rs.pend).by # item
    BY <1>1, <1>2, StillIsQuiet, QuietKeepsInv DEF PublishItem, Preparing
  <1>3. CASE rs.pend # <<>> /\ Head(rs.pend).by = item
    <2> DEFINE p == Head(rs.pend)
    <2>1. rs.status = "publishing"
      BY <1>1, <1>3 DEF Inv, Pending
    <2>2. /\ rs'.pend = Tail(rs.pend) /\ rs'.rid = rs.rid /\ rs'.status = rs.status
      <3>1. rs' \in {[rs EXCEPT !.pend = Tail(@)],
                    [rs EXCEPT !.pend = Tail(@), !.published = pubd']}
        BY ONLY <1>3 , PublishItem DEF PublishItem
      <3> QED BY ONLY <1>0, <3>1 DEF Round
    <2>3. /\ p = rs.pend[1] /\ 1 \in DOMAIN rs.pend
          /\ \A k \in DOMAIN Tail(rs.pend) :
                /\ k + 1 \in DOMAIN rs.pend /\ k + 1 # 1 /\ Tail(rs.pend)[k] = rs.pend[k + 1]
          /\ \A j, k \in DOMAIN Tail(rs.pend) : j + 1 = k + 1 => j = k
      BY ONLY <1>0, <1>3
    <2>4. \/ msgs' = msgs
          \/ msgs' = Append(msgs, [by |-> p.by, seg |-> seg, rid |-> p.rid, seen |-> p.seen])
      BY ONLY <1>3, PublishItem DEF PublishItem
    <2>5. p.rid = rs.rid
      BY <2>3 DEF Inv, RoundsDoNotOverlap
    <2>6. /\ \A k \in DOMAIN rs'.pend : rs'.pend[k].rid = rs'.rid
          /\ \A k \in DOMAIN rs'.pend : rs'.pend[k].by # p.by
          /\ \A k \in DOMAIN rs'.pend : \E m \in DOMAIN rs.pend : rs'.pend[k] = rs.pend[m]
          /\ \A j, k \in DOMAIN rs'.pend : rs'.pend[j].by = rs'.pend[k].by => j = k
      <3>1. \A k \in DOMAIN rs.pend : rs.pend[k].rid = rs.rid
        BY DEF Inv, RoundsDoNotOverlap
      <3>2. \A j, k \in DOMAIN rs.pend : rs.pend[j].by = rs.pend[k].by => j = k
        BY DEF Inv, Pending
      <3> QED BY ONLY <2>2, <2>3, <3>1, <3>2
    <2>7. CASE msgs' = msgs
      <3>1. SpokenMsgs' = SpokenMsgs
        BY <2>7 DEF SpokenMsgs, MsgIds
      <3>2. \A k \in DOMAIN rs'.pend, i \in SpokenMsgs :
               msgs[i].rid = rs'.rid => msgs[i].by # rs'.pend[k].by
        BY <2>2, <2>3 DEF Inv, Pending
      <3>3. Pending'
        BY <1>1, <2>1, <2>2, <2>6, <2>7, <3>1, <3>2 DEF Pending, Preparing
      <3>4. Numbers' /\ RoundsDoNotOverlap' /\ OneSpeechPerRound'
        BY <1>1, <2>2, <2>6, <2>7, <3>1
           DEF Inv, Numbers, RoundsDoNotOverlap, OneSpeechPerRound, Asking
      <3>5. Listening' /\ Heard'
        <4>1. MsgIds' = MsgIds
          BY <2>7 DEF MsgIds
        <4> QED BY <1>1, <2>2, <2>6, <2>7, <3>1, <4>1 DEF Inv, Listening, Heard, Asking
      <3> QED BY <3>3, <3>4, <3>5 DEF Inv
    <2>8. CASE msgs' = Append(msgs, [by |-> p.by, seg |-> seg, rid |-> p.rid, seen |-> p.seen])
      <3> DEFINE n == Len(msgs) + 1
      <3>1. /\ msgs'[n].by = p.by /\ msgs'[n].rid = rs.rid /\ msgs'[n].seen = p.seen
            /\ \A i \in 1..Len(msgs) : msgs'[i] = msgs[i] /\ i < n
            /\ n \in Nat /\ Len(msgs') = n
        BY ONLY <1>0, <2>5, <2>8
      <3>2. \A i \in SpokenMsgs' : i # n => /\ i \in SpokenMsgs /\ i \in Nat /\ i < n
                                            /\ msgs'[i] = msgs[i]
        BY <3>1 DEF SpokenMsgs, MsgIds
      <3>0. MsgIds' = MsgIds \cup {n} /\ \A j \in MsgIds : msgs'[j] = msgs[j] /\ j < n
        BY <1>0, <3>1 DEF MsgIds
      <3>3. \A i \in SpokenMsgs : /\ msgs[i].rid <= rs.rid
                                  /\ msgs[i].rid = rs.rid => msgs[i].by # p.by
        BY <1>1, <2>3 DEF Inv, Numbers, Pending
      <3> HIDE DEF n, p
      <3>4. Pending'
        <4>1. ASSUME NEW k \in DOMAIN rs'.pend, NEW i \in SpokenMsgs', msgs'[i].rid = rs'.rid
              PROVE  msgs'[i].by # rs'.pend[k].by
          <5>1. CASE i = n
            BY ONLY <2>6, <3>1, <5>1, k \in DOMAIN rs'.pend
          <5>2. CASE i # n
            <6>1. i \in SpokenMsgs /\ msgs'[i] = msgs[i] /\ msgs[i].rid = rs.rid
              BY ONLY <2>2, <3>2, <4>1, <5>2
            <6>2. k + 1 \in DOMAIN rs.pend /\ rs'.pend[k] = rs.pend[k + 1]
              BY ONLY <2>2, <2>3, k \in DOMAIN rs'.pend
            <6>3. msgs[i].by # rs.pend[k + 1].by
              BY <6>1, <6>2 DEF Inv, Pending
            <6> QED BY ONLY <6>1, <6>2, <6>3
          <5> QED BY <5>1, <5>2
        <4> QED BY <1>1, <2>1, <2>2, <2>6, <4>1 DEF Pending, Preparing
      <3>5. Numbers'
        <4>1. ASSUME NEW i \in SpokenMsgs' PROVE msgs'[i].rid <= rs'.rid
          <5>1. CASE i = n
            BY ONLY <1>0, <2>2, <3>1, <5>1
          <5>2. CASE i # n
            BY ONLY <2>2, <3>2, <3>3, i \in SpokenMsgs', <5>2
          <5> QED BY <5>1, <5>2
        <4> QED BY <1>1, <4>1 DEF Numbers, Asking
      <3>6. RoundsDoNotOverlap'
        <4>1. ASSUME NEW i \in SpokenMsgs', NEW j \in SpokenMsgs', i < j
              PROVE  msgs'[i].rid <= msgs'[j].rid
          <5>1. i # n
            BY ONLY <3>1, <3>2, <4>1
          <5>2. i \in SpokenMsgs /\ msgs'[i] = msgs[i] /\ msgs[i].rid <= rs.rid
            BY ONLY <3>2, <3>3, i \in SpokenMsgs', <5>1
          <5>3. CASE j = n
            BY ONLY <3>1, <5>2, <5>3
          <5>4. CASE j # n
            <6>1. j \in SpokenMsgs /\ msgs'[j] = msgs[j]
              BY ONLY <3>2, <4>1, <5>4
            <6> QED BY <4>1, <5>2, <6>1 DEF Inv, RoundsDoNotOverlap
          <5> QED BY <5>3, <5>4
        <4> QED BY <2>6, <4>1 DEF RoundsDoNotOverlap
      <3>7. OneSpeechPerRound'
        <4>1. ASSUME NEW i \in SpokenMsgs', i # n
              PROVE  /\ i \in SpokenMsgs /\ msgs'[i] = msgs[i]
                     /\ ~(msgs'[i].rid = msgs'[n].rid /\ msgs'[i].by = msgs'[n].by)
          BY ONLY <3>1, <3>2, <3>3, <4>1, i \in SpokenMsgs'
        <4>2. ASSUME NEW i \in SpokenMsgs', NEW j \in SpokenMsgs',
                     msgs'[i].rid = msgs'[j].rid, msgs'[i].by = msgs'[j].by
              PROVE  i = j
          <5>1. CASE i = n \/ j = n
            BY ONLY <4>1, <4>2, <5>1
          <5>2. CASE i # n /\ j # n
            BY <4>1, <4>2, <5>2 DEF Inv, OneSpeechPerRound
          <5> QED BY <5>1, <5>2
        <4> QED BY <4>2 DEF OneSpeechPerRound
      <3>8. ASSUME NEW j \in MsgIds', NEW k \in DOMAIN rs.pend, rs.pend[k].seen < j
            PROVE  j \in SpokenMsgs' /\ msgs'[j].rid = rs.rid
        <4>1. CASE j = n
          <5>1. p.by # Player
            <6>1. rs.pend[1] \in Publication
              BY ONLY <1>0, <2>3
            <6> QED BY <2>3, <6>1, ConstantsAssumption DEF Publication
          <5> QED BY <3>1, <3>8, <4>1, <5>1 DEF SpokenMsgs, MsgIds
        <4>2. CASE j # n
          <5>1. j \in MsgIds /\ msgs'[j] = msgs[j]
            BY <3>0, <4>2
          <5>2. j \in SpokenMsgs /\ msgs[j].rid = rs.rid
            BY <1>1, <3>8, <5>1 DEF Inv, Listening
          <5> QED BY <3>8, <5>1, <5>2 DEF SpokenMsgs
        <4> QED BY <4>1, <4>2
      <3>9. Listening'
        BY <1>1, <2>2, <2>6, <3>8 DEF Listening, Asking
      <3>10. Heard'
        <4>1. ASSUME NEW i \in SpokenMsgs', NEW j \in MsgIds', msgs'[i].seen < j, j <= i
              PROVE  j \in SpokenMsgs' /\ msgs'[j].rid = msgs'[i].rid
          <5>1. CASE i = n
            BY <2>3, <3>1, <3>8, <4>1, <5>1
          <5>2. CASE i # n
            <6>1. i \in SpokenMsgs /\ i \in Nat /\ i < n /\ msgs'[i] = msgs[i]
              BY ONLY <3>2, <4>1, <5>2
            <6>2. j \in MsgIds /\ msgs'[j] = msgs[j]
              <7>1. n \in Nat /\ j # n
                BY ONLY <3>1, <4>1, <6>1
              <7> QED BY <3>0, <7>1
            <6>3. j \in SpokenMsgs /\ msgs[j].rid = msgs[i].rid
              BY <4>1, <6>1, <6>2 DEF Inv, Heard
            <6> QED BY <4>1, <6>1, <6>2, <6>3 DEF SpokenMsgs
          <5> QED BY <5>1, <5>2
        <4> QED BY <4>1 DEF Heard
      <3> QED BY <3>4, <3>5, <3>6, <3>7, <3>9, <3>10 DEF Inv
    <2> QED BY <2>4, <2>7, <2>8
  <1> QED BY <1>2, <1>3

-----------------------------------------------------------------------------
(* Who attends to a round that waits *)

\* a worker runs, or the callback of a failed one is about to
Attended == pc # "none" \/ fails > 0

\* A step that leaves the worker alone and asks for no round.
LEMMA NothingAsked ==
    ASSUME NoOrphanedRound, UNCHANGED <<pc, fails>>, open' => open,
           open' => rs' = rs \/ rs'.status \notin Resumable
    PROVE  NoOrphanedRound'
  BY DEF NoOrphanedRound

LEMMA UnwindAttends == ASSUME Types, Unwind PROVE Attended'
  <1>1. fails \in Nat
    BY DEF Types, TypeOK
  <1> QED BY <1>1 DEF Unwind, Attended

LEMMA CommandsLeaveNoOrphan ==
    ASSUME Types, NoOrphanedRound,
           \/ Request \/ PlayerMessage \/ ConversationIdle \/ PlayerLeaves
           \/ (\E n \in NPCs : ApiRemove(n)) \/ (\E a \in Actors : JoinBegin(a))
           \/ JoinFinish \/ ApiRemoved \/ Leaving
    PROVE  NoOrphanedRound'
  <1>0. rs \in Round /\ "idle" \notin Resumable /\ "awaiting_player_opener" \notin Resumable
    BY DEF Types, TypeOK, Resumable, Active
  <1>1. CASE Request \/ PlayerMessage \/ ConversationIdle
    <2>1. pc' # "none"
      BY <1>1 DEF Request, PlayerMessage, ConversationIdle, EnsureTask
    <2> QED BY <2>1 DEF NoOrphanedRound
  <1>2. CASE PlayerLeaves
    <2>1. UNCHANGED <<pc, fails>>
      BY <1>2 DEF PlayerLeaves, workerVars
    <2>2. \/ rs' = ResetRound(rs, seg + 1, "idle", None) /\ open' = open
          \/ open' = FALSE
      BY ONLY <1>2 DEF PlayerLeaves
    <2>3. ResetRound(rs, seg + 1, "idle", None).status = "idle"
      BY <1>0, ResetRoundEmpties
    <2> QED BY <1>0, <2>1, <2>2, <2>3, NothingAsked
  <1>3. ASSUME NEW n \in NPCs, ApiRemove(n) PROVE NoOrphanedRound'
    BY <1>3, NothingAsked DEF ApiRemove, convVars, workerVars
  <1>4. ASSUME NEW a \in Actors, JoinBegin(a) PROVE NoOrphanedRound'
    BY <1>4, NothingAsked DEF JoinBegin, workerVars
  <1>5. CASE JoinFinish
    <2>1. UNCHANGED <<open, fails>>
      BY <1>5 DEF JoinFinish
    <2>2. \/ UNCHANGED <<rs, pc>>
          \/ rs' = ResetRound(rs, seg + 1, "awaiting_player_opener", None) /\ UNCHANGED pc
          \/ EnsureTask
      BY ONLY <1>5 DEF JoinFinish
    <2>3. ResetRound(rs, seg + 1, "awaiting_player_opener", None).status
             = "awaiting_player_opener"
      BY <1>0, ResetRoundEmpties
    <2>4. CASE EnsureTask
      BY <2>4 DEF EnsureTask, NoOrphanedRound
    <2> QED BY <1>0, <2>1, <2>2, <2>3, <2>4, NothingAsked
  <1>6. CASE ApiRemoved
    BY <1>6, NothingAsked DEF ApiRemoved, convVars, workerVars
  <1>7. ASSUME NEW p \in Procs, LeaveBegin(p) PROVE NoOrphanedRound'
    <2>1. UNCHANGED <<rs, pc, fails>>
      BY <1>7 DEF LeaveBegin, workerVars
    <2>2. open' => open
      BY <1>7 DEF LeaveBegin, Depart
    <2> QED BY <2>1, <2>2, NothingAsked
  <1>8. ASSUME NEW p \in Procs, LeaveSummarised(p) PROVE NoOrphanedRound'
    <2>1. UNCHANGED rs
      BY <1>8 DEF LeaveSummarised
    <2>2. open' => open
      BY <1>8 DEF LeaveSummarised, Depart
    <2>3. UNCHANGED <<pc, fails>> \/ Unwind
      BY <1>8 DEF LeaveSummarised
    <2> QED BY <2>1, <2>2, <2>3, NothingAsked, UnwindAttends DEF NoOrphanedRound, Attended
  <1>9. ASSUME NEW p \in Procs, LeaveConsolidated(p) PROVE NoOrphanedRound'
    <2>1. UNCHANGED <<open, pc, fails>>
      BY <1>9 DEF LeaveConsolidated, convVars, workerVars
    <2>2. rs' = rs \/ rs' = ResetRound(rs, seg, "idle", None)
      BY ONLY <1>9 DEF LeaveConsolidated
    <2>3. ResetRound(rs, seg, "idle", None).status = "idle"
      BY <1>0, ResetRoundEmpties
    <2> QED BY <1>0, <2>1, <2>2, <2>3, NothingAsked
  <1> QED BY <1>1, <1>2, <1>3, <1>4, <1>5, <1>6, <1>7, <1>8, <1>9 DEF Leaving

\* A worker ends only when it sees nothing to do, and no other section of a round
\* ends it.
LEMMA WorkerLeavesNoOrphan ==
    ASSUME Types, NoOrphanedRound, Worker
    PROVE  NoOrphanedRound'
  <1>0. rs \in Round /\ fails \in Nat
    BY DEF Types, TypeOK
  <1>1. CASE WorkerTop
    <2>1. CASE ~open
      <3>1. ~open'
        BY <1>1, <2>1 DEF WorkerTop, convVars
      <3> QED BY <3>1 DEF NoOrphanedRound
    <2>2. CASE open
      <3> DEFINE st == Normalised(rs)
      <3>1. /\ rs' = [rs EXCEPT !.status = IF st = "closed_maintenance" THEN "idle" ELSE st]
            /\ pc' = CASE st = "cooldown" -> "cooling"
                       [] st = "publishing" -> "publish"
                       [] st = "opener" -> "opener"
                       [] st \in {"queued", "final_check"} -> "round"
                       [] OTHER -> "none"
        BY ONLY <1>1, <2>2 DEF WorkerTop
      <3>2. st \notin {"deciding", "generating"}
        BY DEF Normalised
      <3> HIDE DEF st
      <3>3. rs'.status = IF st = "closed_maintenance" THEN "idle" ELSE st
        BY <1>0, <3>1, RoundOperatorsKeep
      <3>4. rs'.status \in Resumable => pc' # "none"
        BY ONLY <3>1, <3>2, <3>3 DEF Resumable, Active
      <3> QED BY <3>4 DEF NoOrphanedRound
    <2> QED BY <2>1, <2>2
  <1>2. CASE CooldownExpired
    <2>1. open' = open /\ (open => pc' = "top")
      BY <1>2 DEF CooldownExpired, convVars
    <2> QED BY <2>1 DEF NoOrphanedRound
  <1>3. CASE Finally
    <2>1. pc' = "closing" \/ pc' = "top" \/ fails' = fails + 1
      BY ONLY <1>3 DEF Finally, AfterTask
    <2> QED BY <1>0, <2>1 DEF NoOrphanedRound
  <1>4. CASE NextLeaver
    <2>1. pc' # "none"
      BY ONLY <1>4 DEF NextLeaver, AfterPublish
    <2> QED BY <2>1 DEF NoOrphanedRound
  <1>5. CASE \/ CooldownWoken \/ BeginRound \/ BeginOpener \/ DecideOpener
             \/ PromptSpeech \/ DropStale
    <2>1. pc' # "none"
      BY ONLY <1>5 DEF CooldownWoken, BeginRound, BeginOpener, StartRound, DecideOpener,
                       PromptSpeech, DropStale
    <2> QED BY <2>1 DEF NoOrphanedRound
  <1>6. CASE Decide \/ SpeechDone
    <2>1. pc' # "none"
      BY ONLY <1>6 DEF Decide, SpeechDone, BeginLeaving
    <2> QED BY <2>1 DEF NoOrphanedRound
  <1>7. CASE \/ PublishEnter \/ PickPublication \/ PublishItem \/ PublishTail
             \/ DropStalePublication
    <2>1. pc' # "none"
      BY ONLY <1>7 DEF PublishEnter, PickPublication, PublishItem, PublishTail,
                       DropStalePublication, AfterPublish, BeginLeaving
    <2> QED BY <2>1 DEF NoOrphanedRound
  <1> QED BY <1>1, <1>2, <1>3, <1>4, <1>5, <1>6, <1>7 DEF Worker

LEMMA EndsLeaveNoOrphan ==
    ASSUME Types, NoOrphanedRound,
           WorkerRaises \/ RecordFailure \/ DayEnds \/ CloseFinish \/ Crash
    PROVE  NoOrphanedRound'
  <1>0. rs \in Round /\ fails \in Nat
    BY DEF Types, TypeOK
  <1>1. CASE WorkerRaises
    BY <1>1, UnwindAttends DEF WorkerRaises, Attended, NoOrphanedRound
  <1>2. CASE RecordFailure
    <2>1. open' = open
      BY <1>2 DEF RecordFailure, convVars
    <2>2. CASE ~open
      BY <2>1, <2>2 DEF NoOrphanedRound
    <2>3. CASE open /\ rs.attempt = 0
      <3> DEFINE st == RetryStatus(rs)
      <3>1. /\ rs' = [rs EXCEPT !.attempt = 1, !.status = st]
            /\ Restarts(st) => pc' # "none"
        BY ONLY <1>2, <2>3 DEF RecordFailure, EnsureTask
      <3>2. st \in {"publishing", "queued", "opener", "idle"}
        BY DEF RetryStatus
      <3> HIDE DEF st
      <3>3. rs'.status = st
        BY ONLY <1>0, <3>1 DEF Round
      <3> QED BY <3>1, <3>2, <3>3 DEF NoOrphanedRound, Restarts, Resumable, Active
    <2>4. CASE open /\ rs.attempt # 0
      <3> DEFINE q == EnterCooldown(NoTail(rs))
      <3>1. q \in Round /\ q.status = "cooldown" /\ q.attempt = rs.attempt
        <4>1. q \in Round
          BY <1>0, RoundOperators, ZenonT(60)
        <4>2. q.status = "cooldown" /\ q.attempt = rs.attempt
          BY ONLY <1>0 DEF EnterCooldown, NoTail, Round
        <4> QED BY <4>1, <4>2
      <3>2. rs' = [q EXCEPT !.attempt = @ + 1]
        BY ONLY <1>2, <2>4 DEF RecordFailure
      <3>3. rs.attempt \in Nat
        BY <1>0 DEF Round
      <3> HIDE DEF q
      <3>4. rs'.status = "cooldown" /\ rs'.attempt = rs.attempt + 1
        BY ONLY <3>1, <3>2 DEF Round
      <3>5. rs'.attempt > 1
        BY <2>4, <3>3, <3>4
      <3> QED BY <3>4, <3>5 DEF NoOrphanedRound
    <2> QED BY <2>2, <2>3, <2>4
  <1>3. CASE DayEnds
    BY <1>3, NothingAsked DEF DayEnds, workerVars
  <1>4. CASE CloseFinish
    BY <1>4 DEF CloseFinish, NoOrphanedRound
  <1>5. CASE Crash
    BY <1>5 DEF Crash, convVars, NoOrphanedRound
  <1> QED BY <1>1, <1>2, <1>3, <1>4, <1>5

-----------------------------------------------------------------------------
(* Nothing is said while the conversation closes *)

\* no restart and no failing task
Faultless == MaxFails = 0 /\ MaxCrashes = 0

\* The worker is about to say what waits.
Saying == {"publish", "pick", "gap"}

\* What waits can be said only by a counted pipeline, under the tokens it froze;
\* everywhere else the segment it was meant for is over.
Counted ==
    /\ pc \in Asking => piped
    /\ open => rs.seg <= seg
    /\ open /\ rs.pend # <<>> => rs.seg < seg \/ (piped /\ pc \in Saying)
    /\ open /\ rs.pend # <<>> /\ pc \in {"pick", "gap"} =>
          /\ frozen.rid = rs.rid /\ frozen.ver = rs.ver
          /\ frozen.pver = rs.pver /\ frozen.seg = rs.seg

\* A conversation closes after the end of the day, when no pipeline is counted
\* and its worker cannot get as far as a speech any more, or by its worker at the
\* end of a pipeline; what then still waits is out of date.
ClosingIsSilent ==
    /\ deferred => late
    /\ closing # "no" => late
    /\ closing = "world" => pc \notin {"examples", "speech"}
    /\ closing = "worker" => pc = "closing"
    /\ open /\ closing # "no" => rs.pend = <<>> \/ rs.seg < seg
    /\ leave["worker"].stage # "none" => pc = "leaving"

Silence == Counted /\ ClosingIsSilent

\* What a step may do to what waits: leave it alone in a segment that may end, or
\* drop it.
Drops ==
    open' => /\ open /\ seg <= seg' /\ rs'.seg <= seg'
             /\ \/ rs'.pend = <<>>
                \/ /\ rs'.pend = rs.pend /\ rs'.rid = rs.rid /\ rs'.ver = rs.ver
                   /\ rs'.pver = rs.pver /\ rs'.seg = rs.seg

\* A step of anybody but the worker, which may start one.
LEMMA AsideKeepsSilence ==
    ASSUME Types, Types', Silence, Drops,
           UNCHANGED <<frozen, piped, late, deferred, closing>>,
           pc' = pc \/ (pc = "none" /\ pc' = "top"),
           leave'["worker"].stage = leave["worker"].stage
    PROVE  Silence'
  <1>1. /\ rs.seg \in Nat /\ seg \in Nat /\ rs'.seg \in Nat /\ seg' \in Nat
    BY DEF Types, TypeOK, Round
  <1>2. (piped => piped') /\ (late => late') /\ (deferred' => deferred)
    BY Zenon
  <1>3. pc' \in Asking => piped'
    BY <1>2 DEF Silence, Counted, Asking
  <1>4. open' => rs'.seg <= seg'
    BY DEF Drops
  <1>5. open' /\ rs'.pend # <<>> => rs'.seg < seg' \/ (piped' /\ pc' \in Saying)
    BY <1>1, <1>2 DEF Silence, Counted, Drops, Saying
  <1>6. open' /\ rs'.pend # <<>> /\ pc' \in {"pick", "gap"} =>
          /\ frozen'.rid = rs'.rid /\ frozen'.ver = rs'.ver
          /\ frozen'.pver = rs'.pver /\ frozen'.seg = rs'.seg
    BY DEF Silence, Counted, Drops
  <1>7. Counted'
    BY <1>3, <1>4, <1>5, <1>6 DEF Counted
  <1>8. open' /\ closing' # "no" => rs'.pend = <<>> \/ rs'.seg < seg'
    BY <1>1 DEF Silence, ClosingIsSilent, Drops
  <1>9. deferred' => late'
    BY <1>2 DEF Silence, ClosingIsSilent
  <1>10. /\ closing' # "no" => late'
         /\ closing' = "world" => pc' \notin {"examples", "speech"}
    BY <1>2 DEF Silence, ClosingIsSilent
  <1>11. ClosingIsSilent'
    BY <1>8, <1>9, <1>10 DEF Silence, ClosingIsSilent
  <1> QED BY <1>7, <1>11 DEF Silence

\* A step of the worker away from the publication.
LEMMA WorkerKeepsSilence ==
    ASSUME Types, Types', Silence, Drops,
           UNCHANGED <<late, deferred, closing>>,
           pc \notin Saying /\ pc # "closing", pc' \notin {"pick", "gap"},
           pc' \in Asking => piped',
           closing = "world" => pc' \notin {"examples", "speech"},
           leave'["worker"].stage = "none" \/ pc' = "leaving"
    PROVE  Silence'
  <1>1. /\ rs.seg \in Nat /\ seg \in Nat /\ rs'.seg \in Nat /\ seg' \in Nat
    BY DEF Types, TypeOK, Round
  <1>2. (late => late') /\ (deferred' => deferred)
    BY Zenon
  <1>4. open' => rs'.seg <= seg'
    BY DEF Drops
  <1>5. open' /\ rs'.pend # <<>> => rs'.seg < seg'
    BY <1>1 DEF Silence, Counted, Drops
  <1>7. Counted'
    BY <1>4, <1>5 DEF Counted
  <1>9. deferred' => late'
    BY <1>2 DEF Silence, ClosingIsSilent
  <1>10. /\ closing' # "no" => late'
         /\ closing' = "world" => pc' \notin {"examples", "speech"}
    BY <1>2 DEF Silence, ClosingIsSilent
  <1>11. ClosingIsSilent'
    BY <1>5, <1>9, <1>10 DEF Silence, ClosingIsSilent
  <1> QED BY <1>7, <1>11 DEF Silence

\* A step that leaves the round state alone, or its tokens and what waits.
LEMMA SameRoundDrops ==
    ASSUME Types, Silence, open' => open, open' => seg' = seg \/ seg' = seg + 1,
           /\ rs'.pend = rs.pend /\ rs'.rid = rs.rid /\ rs'.ver = rs.ver
           /\ rs'.pver = rs.pver /\ rs'.seg = rs.seg
    PROVE  Drops
  <1>1. rs.seg \in Nat /\ seg \in Nat
    BY DEF Types, TypeOK, Round
  <1>2. open' => seg <= seg' /\ rs.seg <= seg'
    BY <1>1 DEF Silence, Counted
  <1> QED BY <1>2 DEF Drops

\* A step that drops what waits, under the segment it was for or a new one.
LEMMA DroppingDrops ==
    ASSUME Types, Silence, open' => open, open' => seg' = seg \/ seg' = seg + 1,
           rs'.pend = <<>>, rs'.seg = seg' \/ rs'.seg = rs.seg
    PROVE  Drops
  <1>1. rs.seg \in Nat /\ seg \in Nat
    BY DEF Types, TypeOK, Round
  <1>2. open' => seg <= seg' /\ rs.seg <= seg' /\ seg' <= seg'
    BY <1>1 DEF Silence, Counted
  <1> QED BY <1>2 DEF Drops

LEMMA CommandsKeepSilence ==
    ASSUME Types, Types', Inv, Silence,
           \/ Request \/ PlayerMessage \/ ConversationIdle \/ PlayerLeaves
           \/ (\E n \in NPCs : ApiRemove(n)) \/ (\E a \in Actors : JoinBegin(a))
           \/ JoinFinish \/ ApiRemoved
           \/ LeaveBegin("api") \/ LeaveSummarised("api") \/ LeaveConsolidated("api")
    PROVE  Silence'
  <1>0. rs \in Round /\ leave \in [Procs -> Leave] /\ "worker" \in Procs /\ "api" \in Procs
    BY DEF Types, TypeOK, Procs
  <1>1. CASE Request
    <2>1. UNCHANGED <<open, seg, rs, frozen, piped, late, deferred, closing, leave>>
      BY <1>1 DEF Request, convVars, dayVars, EnsureTask
    <2>2. pc' = pc \/ (pc = "none" /\ pc' = "top")
      BY <1>1 DEF Request, EnsureTask
    <2>3. Drops
      BY <2>1, SameRoundDrops
    <2> QED BY <2>1, <2>2, <2>3, AsideKeepsSilence
  <1>2. CASE PlayerMessage
    <2>1. UNCHANGED <<open, seg, frozen, piped, late, deferred, closing, leave>>
      BY <1>2 DEF PlayerMessage
    <2>2. pc' = pc \/ (pc = "none" /\ pc' = "top")
      BY <1>2 DEF PlayerMessage, EnsureTask
    <2>3. rs'.pend = <<>> /\ rs'.seg = rs.seg
      BY <1>0, <1>2, QueueRoundEmpties DEF PlayerMessage, Inv, Pending
    <2>4. Drops
      BY <2>1, <2>3, DroppingDrops
    <2> QED BY <2>1, <2>2, <2>4, AsideKeepsSilence
  <1>3. CASE ConversationIdle
    <2>1. UNCHANGED <<open, seg, frozen, piped, late, deferred, closing, leave>>
      BY <1>3 DEF ConversationIdle, convVars, dayVars
    <2>2. pc' = pc \/ (pc = "none" /\ pc' = "top")
      BY <1>3 DEF ConversationIdle, EnsureTask
    <2>3. rs' = EnterCooldown(rs)
      BY <1>3 DEF ConversationIdle
    <2>4. /\ rs'.pend = rs.pend /\ rs'.rid = rs.rid /\ rs'.ver = rs.ver
          /\ rs'.pver = rs.pver /\ rs'.seg = rs.seg
      BY <1>0, <2>3, RoundOperatorsKeep
    <2>5. Drops
      BY <2>1, <2>4, SameRoundDrops
    <2> QED BY <2>1, <2>2, <2>5, AsideKeepsSilence
  <1>4. CASE PlayerLeaves
    <2>1. UNCHANGED <<frozen, piped, late, deferred, closing, leave, pc>>
      BY <1>4 DEF PlayerLeaves, dayVars, workerVars
    <2>2. \/ rs' = ResetRound(rs, seg + 1, "idle", None) /\ open' = open /\ seg' = seg + 1
          \/ open' = FALSE
      BY ONLY <1>4 DEF PlayerLeaves
    <2>3. CASE rs' = ResetRound(rs, seg + 1, "idle", None) /\ open' = open /\ seg' = seg + 1
      <3>1. rs'.pend = <<>> /\ rs'.seg = seg'
        BY <1>0, <2>3, ResetRoundEmpties
      <3>2. Drops
        BY <2>3, <3>1, DroppingDrops
      <3> QED BY <2>1, <3>2, AsideKeepsSilence
    <2>4. CASE open' = FALSE
      <3>1. Drops
        BY <2>4 DEF Drops
      <3> QED BY <2>1, <3>1, AsideKeepsSilence
    <2> QED BY <2>2, <2>3, <2>4
  <1>5. ASSUME NEW n \in NPCs, ApiRemove(n) PROVE Silence'
    <2>1. UNCHANGED <<open, seg, rs, frozen, piped, late, deferred, closing, pc>>
      BY <1>5 DEF ApiRemove, convVars, dayVars, workerVars
    <2>2. leave'["worker"] = leave["worker"]
      BY <1>0, <1>5 DEF ApiRemove
    <2>3. Drops
      BY <2>1, SameRoundDrops
    <2> QED BY <2>1, <2>2, <2>3, AsideKeepsSilence
  <1>6. ASSUME NEW a \in Actors, JoinBegin(a) PROVE Silence'
    <2>1. UNCHANGED <<open, seg, rs, frozen, piped, late, deferred, closing, pc>>
      BY <1>6 DEF JoinBegin, dayVars, workerVars
    <2>2. leave'["worker"] = leave["worker"]
      BY <1>0, <1>6 DEF JoinBegin
    <2>3. Drops
      BY <2>1, SameRoundDrops
    <2> QED BY <2>1, <2>2, <2>3, AsideKeepsSilence
  <1>7. CASE JoinFinish
    <2>1. UNCHANGED <<open, frozen, piped, late, deferred, closing>>
      BY <1>7 DEF JoinFinish, dayVars
    <2>2. leave'["worker"] = leave["worker"]
      BY <1>0, <1>7 DEF JoinFinish
    <2>3. pc' = pc \/ (pc = "none" /\ pc' = "top")
      BY <1>7 DEF JoinFinish, EnsureTask
    <2>4. \/ rs' = rs /\ seg' = seg
          \/ /\ seg' = seg + 1
             /\ \E st, op : rs' = ResetRound(rs, seg + 1, st, op)
      BY ONLY <1>7 DEF JoinFinish
    <2>5. CASE rs' = rs /\ seg' = seg
      <3>1. Drops
        BY <2>1, <2>5, SameRoundDrops
      <3> QED BY <2>1, <2>2, <2>3, <3>1, AsideKeepsSilence
    <2>6. CASE seg' = seg + 1 /\ \E st, op : rs' = ResetRound(rs, seg + 1, st, op)
      <3>1. rs'.pend = <<>> /\ rs'.seg = seg'
        BY <1>0, <2>6, ResetRoundEmpties
      <3>2. Drops
        BY <2>1, <2>6, <3>1, DroppingDrops
      <3> QED BY <2>1, <2>2, <2>3, <3>2, AsideKeepsSilence
    <2> QED BY <2>4, <2>5, <2>6
  <1>8. CASE ApiRemoved
    <2>1. UNCHANGED <<open, seg, rs, frozen, piped, late, deferred, closing, pc>>
      BY <1>8 DEF ApiRemoved, convVars, dayVars, workerVars
    <2>2. leave'["worker"] = leave["worker"]
      BY <1>0, <1>8 DEF ApiRemoved
    <2>3. Drops
      BY <2>1, SameRoundDrops
    <2> QED BY <2>1, <2>2, <2>3, AsideKeepsSilence
  <1>9. CASE LeaveBegin("api") \/ LeaveSummarised("api")
    <2>1. UNCHANGED <<rs, frozen, piped, late, deferred, closing, pc>>
      BY <1>9 DEF LeaveBegin, LeaveSummarised, dayVars, workerVars
    <2>2. open' => open /\ (seg' = seg \/ seg' = seg + 1)
      BY <1>9 DEF LeaveBegin, LeaveSummarised, Depart
    <2>3. leave'["worker"] = leave["worker"]
      BY <1>0, <1>9 DEF LeaveBegin, LeaveSummarised, Depart
    <2>4. Drops
      BY <2>1, <2>2, SameRoundDrops
    <2> QED BY <2>1, <2>3, <2>4, AsideKeepsSilence
  <1>10. CASE LeaveConsolidated("api")
    <2>1. UNCHANGED <<open, seg, frozen, piped, late, deferred, closing, pc>>
      BY <1>10 DEF LeaveConsolidated, convVars, dayVars, workerVars
    <2>2. leave'["worker"] = leave["worker"]
      BY <1>0, <1>10 DEF LeaveConsolidated
    <2>3. rs' = rs \/ rs' = ResetRound(rs, seg, "idle", None)
      BY ONLY <1>10 DEF LeaveConsolidated
    <2>4. CASE rs' = rs
      <3>1. Drops
        BY <2>1, <2>4, SameRoundDrops
      <3> QED BY <2>1, <2>2, <3>1, AsideKeepsSilence
    <2>5. CASE rs' = ResetRound(rs, seg, "idle", None)
      <3>1. rs'.pend = <<>> /\ rs'.seg = seg'
        BY <1>0, <2>1, <2>5, ResetRoundEmpties
      <3>2. Drops
        BY <2>1, <3>1, DroppingDrops
      <3> QED BY <2>1, <2>2, <3>2, AsideKeepsSilence
    <2> QED BY <2>3, <2>4, <2>5
  <1> QED BY <1>1, <1>2, <1>3, <1>4, <1>5, <1>6, <1>7, <1>8, <1>9, <1>10

LEMMA LeavingKeepsSilence ==
    ASSUME Types, Types', Inv, Silence,
           \/ LeaveBegin("worker") \/ LeaveSummarised("worker")
           \/ LeaveConsolidated("worker") \/ NextLeaver
    PROVE  Silence'
  <1>0. /\ rs \in Round /\ leave \in [Procs -> Leave] /\ "worker" \in Procs
        /\ "leaving" \notin Saying \cup Asking \cup {"closing", "pick", "gap"}
        /\ \A x \in {"finally", "none", "top", "leaving"} :
              x \notin Asking \cup {"examples", "speech", "pick", "gap"}
    BY DEF Types, TypeOK, Procs, Saying, Asking
  <1>1. pc = "leaving"
    <2>1. \/ leave["worker"].stage \in {"begin", "summarise", "consolidate"}
          \/ pc = "leaving"
      BY DEF LeaveBegin, LeaveSummarised, LeaveConsolidated, NextLeaver
    <2> QED BY <2>1 DEF Silence, ClosingIsSilent
  <1>2. CASE LeaveBegin("worker")
    <2>1. UNCHANGED <<rs, late, deferred, closing, pc>>
      BY <1>2 DEF LeaveBegin, dayVars, workerVars
    <2>2. open' => open /\ (seg' = seg \/ seg' = seg + 1)
      BY <1>2 DEF LeaveBegin, Depart
    <2>3. Drops
      BY <2>1, <2>2, SameRoundDrops
    <2> QED BY <1>0, <1>1, <2>1, <2>3, WorkerKeepsSilence
  <1>3. CASE LeaveSummarised("worker")
    <2>1. UNCHANGED <<rs, late, deferred, closing>>
      BY <1>3 DEF LeaveSummarised, dayVars
    <2>2. open' => open /\ (seg' = seg \/ seg' = seg + 1)
      BY <1>3 DEF LeaveSummarised, Depart
    <2>3. Drops
      BY <2>1, <2>2, SameRoundDrops
    <2>4. CASE leave["worker"].who \in parts
      <3>1. pc' = "leaving"
        BY <1>1, <1>3, <2>4 DEF LeaveSummarised
      <3> QED BY <1>0, <1>1, <2>1, <2>3, <3>1, WorkerKeepsSilence
    <2>5. CASE leave["worker"].who \notin parts
      <3>1. leave'["worker"] = NoLeave
        BY <1>0, <1>3, <2>5 DEF LeaveSummarised
      <3>2. pc' \in {"finally", "none"}
        BY <1>3, <2>5 DEF LeaveSummarised, Unwind
      <3>3. leave'["worker"].stage = "none"
        BY <3>1 DEF NoLeave
      <3> QED BY <1>0, <1>1, <2>1, <2>3, <3>2, <3>3, WorkerKeepsSilence
    <2> QED BY <2>4, <2>5
  <1>4. CASE LeaveConsolidated("worker")
    <2>1. UNCHANGED <<open, seg, late, deferred, closing, pc>>
      BY <1>4 DEF LeaveConsolidated, convVars, dayVars, workerVars
    <2>2. rs' = rs \/ rs' = ResetRound(rs, seg, "idle", None)
      BY ONLY <1>4 DEF LeaveConsolidated
    <2>3. Drops
      <3>1. CASE rs' = rs
        BY <2>1, <3>1, SameRoundDrops
      <3>2. CASE rs' = ResetRound(rs, seg, "idle", None)
        <4>1. rs'.pend = <<>> /\ rs'.seg = seg'
          BY <1>0, <2>1, <3>2, ResetRoundEmpties
        <4> QED BY <2>1, <4>1, DroppingDrops
      <3> QED BY <2>2, <3>1, <3>2
    <2> QED BY <1>0, <1>1, <2>1, <2>3, WorkerKeepsSilence
  <1>5. CASE NextLeaver
    <2>1. UNCHANGED <<open, seg, late, deferred, closing>>
      BY <1>5 DEF NextLeaver, convVars, dayVars
    <2>2. pc' = "leaving" \/ leave'["worker"] = NoLeave
      BY ONLY <1>0, <1>1, <1>5 DEF NextLeaver
    <2>3. pc' \in {"leaving", "finally", "top"}
      BY ONLY <1>1, <1>5 DEF NextLeaver, AfterPublish
    <2>4. leave'["worker"].stage = "none" \/ pc' = "leaving"
      BY <2>2 DEF NoLeave
    <2>5. rs'.pend = <<>> /\ rs'.seg = rs.seg
      <3>1. rs' \in {rs, AfterTail(rs), EnterCooldown(rs), [rs EXCEPT !.status = "idle"]}
        BY ONLY <1>5 DEF NextLeaver
      <3>2. AfterTail(rs).seg = rs.seg /\ AfterTail(rs).pend = rs.pend
        <4>1. LET x == [rs EXCEPT !.ver = @ + 1, !.trigger = pubd, !.status = "queued"]
              IN  x.seg = rs.seg /\ x.pend = rs.pend
          BY ONLY <1>0 DEF Round
        <4> QED BY <1>0, <4>1, RoundOperatorsKeep DEF AfterTail
      <3>3. /\ EnterCooldown(rs).seg = rs.seg /\ EnterCooldown(rs).pend = rs.pend
            /\ [rs EXCEPT !.status = "idle"].seg = rs.seg
            /\ [rs EXCEPT !.status = "idle"].pend = rs.pend
        BY ONLY <1>0, RoundOperatorsKeep
      <3>4. rs.pend = <<>>
        BY <1>1 DEF Inv, Pending, Preparing
      <3> QED BY ONLY <3>1, <3>2, <3>3, <3>4
    <2>6. Drops
      BY <2>1, <2>5, DroppingDrops
    <2>7. /\ pc \notin Saying /\ pc # "closing" /\ pc' \notin {"pick", "gap"}
          /\ pc' \notin Asking /\ pc' \notin {"examples", "speech"}
      BY ONLY <1>0, <1>1, <2>3
    <2> QED BY <2>1, <2>4, <2>6, <2>7, WorkerKeepsSilence
  <1> QED BY <1>2, <1>3, <1>4, <1>5

\* A worker before its round, and in it as long as it asks.
LEMMA RoundKeepsSilence ==
    ASSUME Types, Types', Inv, Silence,
           \/ WorkerTop \/ CooldownWoken \/ CooldownExpired \/ BeginRound \/ BeginOpener
           \/ Decide \/ DecideOpener \/ PromptSpeech \/ DropStale
    PROVE  Silence'
  <1>0. rs \in Round /\ leave \in [Procs -> Leave] /\ "worker" \in Procs
    BY DEF Types, TypeOK, Procs
  <1>1. /\ pc \in {"top", "cooling", "round", "opener", "deciding", "examples", "speech"}
        /\ UNCHANGED <<open, seg, late, deferred, closing>>
    BY DEF WorkerTop, CooldownWoken, CooldownExpired, BeginRound, BeginOpener, Decide,
           DecideOpener, PromptSpeech, DropStale, convVars, dayVars
  <1>2. leave["worker"].stage = "none" /\ pc \notin Saying /\ pc # "closing"
    BY <1>1 DEF Silence, ClosingIsSilent, Saying
  <1>3. ASSUME Drops, pc' \notin {"pick", "gap"}, pc' \in Asking => piped',
               closing = "world" => pc' \notin {"examples", "speech"},
               leave'["worker"].stage = "none" \/ pc' = "leaving"
        PROVE  Silence'
    BY <1>1, <1>2, <1>3, WorkerKeepsSilence
  <1>4. CASE WorkerTop
    <2>1. leave' = leave
      BY <1>4 DEF WorkerTop
    <2>2. CASE ~open
      <3>1. pc' = "none" /\ ~open'
        BY ONLY <1>1, <1>4, <2>2 DEF WorkerTop
      <3>2. Drops
        BY <3>1 DEF Drops
      <3> QED BY <1>2, <1>3, <2>1, <3>1, <3>2 DEF Asking
    <2>3. CASE open
      <3> DEFINE st == Normalised(rs)
      <3>1. /\ rs' = [rs EXCEPT !.status = IF st = "closed_maintenance" THEN "idle" ELSE st]
            /\ pc' = CASE st = "cooldown" -> "cooling"
                       [] st = "publishing" -> "publish"
                       [] st = "opener" -> "opener"
                       [] st \in {"queued", "final_check"} -> "round"
                       [] OTHER -> "none"
        BY ONLY <1>4, <2>3 DEF WorkerTop
      <3> HIDE DEF st
      <3>2. /\ rs'.pend = rs.pend /\ rs'.rid = rs.rid /\ rs'.ver = rs.ver
            /\ rs'.pver = rs.pver /\ rs'.seg = rs.seg
        BY <1>0, <3>1, RoundOperatorsKeep
      <3>3. pc' \in {"cooling", "publish", "opener", "round", "none"}
        BY ONLY <3>1
      <3>4. Drops
        BY <1>1, <3>2, SameRoundDrops
      <3> QED BY <1>2, <1>3, <2>1, <3>3, <3>4 DEF Asking
    <2> QED BY <2>2, <2>3
  <1>5. CASE CooldownWoken
    <2>1. UNCHANGED <<leave, rs>> /\ pc' = "top"
      BY <1>5 DEF CooldownWoken
    <2>2. Drops
      BY <1>1, <2>1, SameRoundDrops
    <2> QED BY <1>2, <1>3, <2>1, <2>2 DEF Asking
  <1>6. CASE CooldownExpired
    <2>1. leave' = leave /\ pc' \in {"none", "top"}
      BY <1>6 DEF CooldownExpired
    <2>2. Drops
      <3>1. CASE open /\ rs.status = "cooldown"
        <4>1. rs.pend = <<>>
          BY <3>1 DEF Inv, Pending
        <4>2. rs' = [rs EXCEPT !.ver = @ + 1, !.status = "final_check"]
          BY ONLY <1>6, <3>1 DEF CooldownExpired
        <4>3. rs'.pend = <<>> /\ rs'.seg = rs.seg
          BY ONLY <1>0, <4>1, <4>2 DEF Round
        <4> QED BY <1>1, <4>3, DroppingDrops
      <3>2. CASE ~(open /\ rs.status = "cooldown")
        <4>1. rs' = rs
          BY <1>6, <3>2 DEF CooldownExpired
        <4> QED BY <1>1, <4>1, SameRoundDrops
      <3> QED BY <3>1, <3>2
    <2> QED BY <1>2, <1>3, <2>1, <2>2 DEF Asking
  <1>7. CASE BeginRound \/ BeginOpener
    <2>1. leave' = leave
      BY <1>7 DEF BeginRound, BeginOpener
    <2>2. rs.pend = <<>>
      BY <1>7 DEF BeginRound, BeginOpener, Inv, Pending, Preparing
    <2>3. \/ rs' = Begun(rs) /\ piped' = TRUE /\ pc' = "deciding"
          \/ pc' = "top" /\ rs' \in {rs, [rs EXCEPT !.status = "idle"]}
      BY <1>7 DEF BeginRound, BeginOpener, StartRound
    <2>4. rs'.pend = <<>> /\ rs'.seg = rs.seg
      <3>1. /\ Begun(rs).pend = rs.pend /\ Begun(rs).seg = rs.seg
            /\ [rs EXCEPT !.status = "idle"].pend = rs.pend
            /\ [rs EXCEPT !.status = "idle"].seg = rs.seg
        BY ONLY <1>0, RoundOperatorsKeep
      <3> QED BY ONLY <2>2, <2>3, <3>1
    <2>5. Drops
      BY <1>1, <2>4, DroppingDrops
    <2> QED BY <1>2, <1>3, <2>1, <2>3, <2>5 DEF Asking
  <1>8. CASE Decide
    <2>1. rs.pend = <<>> /\ piped
      BY <1>8 DEF Decide, Inv, Pending, Preparing, Silence, Counted, Asking
    <2>2. \/ rs' = rs
          \/ \E go, post : rs' = [rs EXCEPT !.status = "generating",
                                           !.leavers = go, !.post = post]
      BY ONLY <1>8 DEF Decide
    <2>3. rs'.pend = <<>> /\ rs'.seg = rs.seg
      BY ONLY <1>0, <2>1, <2>2 DEF Round
    <2>4. Drops
      BY <1>1, <2>3, DroppingDrops
    <2>5. \/ pc' = "leaving"
          \/ pc' = "examples" /\ leave' = leave /\ ~late
      BY <1>8 DEF Decide, BeginLeaving
    <2>6. piped'
      <3>1. piped' = piped
        BY <1>8 DEF Decide
      <3> QED BY <2>1, <3>1
    <2> QED BY <1>2, <1>3, <2>4, <2>5, <2>6 DEF Silence, ClosingIsSilent
  <1>9. CASE DecideOpener
    <2>1. rs.pend = <<>> /\ piped
      BY <1>9 DEF DecideOpener, Inv, Pending, Preparing, Silence, Counted, Asking
    <2>2. rs'.pend = <<>> /\ rs'.seg = rs.seg
      BY <1>0, <1>9, <2>1, RoundOperatorsKeep DEF DecideOpener
    <2>4. Drops
      BY <1>1, <2>2, DroppingDrops
    <2>5. leave' = leave /\ (pc' = "finally" \/ (pc' = "examples" /\ ~late))
      BY <1>9 DEF DecideOpener
    <2>6. piped'
      <3>1. piped' = piped
        BY <1>9 DEF DecideOpener
      <3> QED BY <2>1, <3>1
    <2> QED BY <1>2, <1>3, <2>4, <2>5, <2>6 DEF Silence, ClosingIsSilent
  <1>10. CASE PromptSpeech \/ DropStale
    <2>1. UNCHANGED <<leave, rs>> /\ (pc' = "finally" \/ (pc = "examples" /\ pc' = "speech"))
      BY <1>10 DEF PromptSpeech, DropStale
    <2>2. pc \in Asking /\ piped
      BY <1>10 DEF PromptSpeech, DropStale, Silence, Counted, Asking
    <2>3. Drops
      BY <1>1, <2>1, SameRoundDrops
    <2>4. piped'
      <3>1. piped' = piped
        BY <1>10 DEF PromptSpeech, DropStale
      <3> QED BY <2>2, <3>1
    <2> QED BY <1>2, <1>3, <2>1, <2>3, <2>4 DEF Silence, ClosingIsSilent
  <1> QED BY <1>4, <1>5, <1>6, <1>7, <1>8, <1>9, <1>10

\* Speeches are stored by a counted pipeline, which a closing conversation lacks.
LEMMA SpeechesKeepSilence == ASSUME Types, Types', Inv, Silence, SpeechDone PROVE Silence'
  <1>0. rs \in Round /\ leave \in [Procs -> Leave] /\ "worker" \in Procs
    BY DEF Types, TypeOK, Procs
  <1>1. /\ UNCHANGED <<open, seg, frozen, late, deferred, closing>> /\ pc = "speech" /\ open
        /\ rs.rid = frozen.rid /\ rs.ver = frozen.ver /\ rs.pver = frozen.pver
        /\ rs.seg = frozen.seg /\ rs.pend = <<>>
    BY DEF SpeechDone, StillCurrent, convVars, dayVars, Inv, Pending, Preparing
  <1>2. piped /\ closing = "no" /\ leave["worker"].stage = "none"
    <2>1. closing \in {"no", "world", "worker"}
      BY DEF Types, TypeOK
    <2> QED BY <1>1, <2>1 DEF Silence, Counted, ClosingIsSilent, Asking
  <1>3. (piped => piped') /\ (late => late') /\ (deferred' => deferred)
    <2>1. piped' = piped
      BY DEF SpeechDone
    <2> QED BY <1>1, <2>1, Zenon
  <1>4. PICK order :
            \/ rs' = Prepared(order) /\ pc' = "publish" /\ UNCHANGED leave
            \/ rs' = EnterCooldown(rs) /\ pc' = "finally" /\ UNCHANGED leave
            \/ pc' = "leaving"
    BY ONLY SpeechDone DEF SpeechDone, BeginLeaving
  <1>5. pc' \in {"publish", "finally", "leaving"} /\ (leave' = leave \/ pc' = "leaving")
    BY ONLY <1>4
  <1>6. rs'.seg = rs.seg /\ (pc' # "publish" => rs'.pend = <<>>)
    <2>1. \A o : Prepared(o).seg = rs.seg
      BY ONLY <1>0 DEF Prepared, Round
    <2>2. EnterCooldown(rs).seg = rs.seg /\ EnterCooldown(rs).pend = rs.pend
      BY ONLY <1>0, RoundOperatorsKeep
    <2>3. \/ \E o : rs' = Prepared(o)
          \/ rs' = EnterCooldown(rs)
      BY ONLY SpeechDone DEF SpeechDone
    <2>4. rs'.seg = rs.seg
      BY ONLY <2>1, <2>2, <2>3
    <2>5. CASE pc' = "leaving"
      <3>1. Inv'
        BY SpeechesKeepInv
      <3> QED BY <2>4, <2>5, <3>1 DEF Inv, Pending, Preparing
    <2>6. CASE pc' = "finally"
      BY ONLY <1>1, <1>4, <2>2, <2>4, <2>6
    <2> QED BY ONLY <1>5, <2>4, <2>5, <2>6
  <1>7. Counted'
    <2>1. open' => rs'.seg <= seg'
      BY <1>1, <1>6 DEF Silence, Counted
    <2>2. piped'
      BY <1>2, <1>3
    <2> QED BY <1>5, <1>6, <2>1, <2>2 DEF Counted, Asking, Saying
  <1>8. ClosingIsSilent'
    BY <1>1, <1>2, <1>3, <1>5 DEF Silence, ClosingIsSilent
  <1> QED BY <1>7, <1>8 DEF Silence

\* The publication: it begins with the tokens of the moment, and a worker gives
\* it up only when they are out of date.
LEMMA PublicationKeepsSilence ==
    ASSUME Types, Types', Inv, Silence,
           PublishEnter \/ PickPublication \/ PublishItem \/ DropStalePublication
    PROVE  Silence'
  <1>0. /\ rs \in Round /\ frozen \in Frozen /\ rs.pend \in Seq(Publication)
        /\ rs.seg \in Nat /\ seg \in Nat
    BY DEF Types, TypeOK, Round
  <1>1. /\ UNCHANGED <<open, seg, late, deferred, closing, leave, piped>>
        /\ pc \in {"publish", "pick", "gap", "tail"}
    BY DEF PublishEnter, PickPublication, PublishItem, DropStalePublication, convVars,
           dayVars
  <1>2. leave'["worker"].stage = "none" /\ closing # "worker"
    BY <1>1 DEF Silence, ClosingIsSilent
  <1>3. (piped => piped') /\ (late => late') /\ (deferred' => deferred)
    BY <1>1, Zenon
  <1>4. ASSUME rs'.seg = rs.seg, rs.pend = <<>> => rs'.pend = <<>>,
               pc' \notin Asking /\ pc' # "leaving",
               open /\ rs'.pend # <<>> => rs.seg < seg \/ pc' \in Saying,
               open /\ rs'.pend # <<>> /\ pc' \in {"pick", "gap"} =>
                  /\ frozen'.rid = rs'.rid /\ frozen'.ver = rs'.ver
                  /\ frozen'.pver = rs'.pver /\ frozen'.seg = rs'.seg
        PROVE  Silence'
    <2>1. open' => rs'.seg <= seg'
      BY <1>1, <1>4 DEF Silence, Counted
    <2>2. open' /\ rs'.pend # <<>> => rs'.seg < seg' \/ (piped' /\ pc' \in Saying)
      <3> SUFFICES ASSUME open', rs'.pend # <<>>, ~(rs'.seg < seg')
                   PROVE  piped' /\ pc' \in Saying
        OBVIOUS
      <3>1. open /\ rs.pend # <<>> /\ ~(rs.seg < seg)
        BY <1>1, <1>4
      <3>2. piped
        BY <3>1 DEF Silence, Counted
      <3> QED BY <1>3, <1>4, <3>1, <3>2
    <2>3. Counted'
      BY <1>1, <1>4, <2>1, <2>2 DEF Counted
    <2>4. open' /\ closing' # "no" => rs'.pend = <<>> \/ rs'.seg < seg'
      BY <1>1, <1>4 DEF Silence, ClosingIsSilent
    <2>5. ClosingIsSilent'
      BY <1>1, <1>2, <1>3, <1>4, <2>4 DEF Silence, ClosingIsSilent, Asking
    <2> QED BY <2>3, <2>5 DEF Silence
  <1>5. CASE PublishEnter
    <2>1. rs' = rs
      BY <1>5 DEF PublishEnter
    <2>2. CASE open
      <3>1. pc' = "pick"
        BY ONLY <1>5, <2>2 DEF PublishEnter
      <3>2. frozen' = [frozen EXCEPT !.rid = rs.rid, !.ver = rs.ver,
                                     !.pver = rs.pver, !.seg = rs.seg]
        BY ONLY <1>5, <2>2 DEF PublishEnter
      <3>3. /\ frozen'.rid = rs.rid /\ frozen'.ver = rs.ver
            /\ frozen'.pver = rs.pver /\ frozen'.seg = rs.seg
        BY ONLY <1>0, <3>2 DEF Frozen
      <3> QED BY <1>4, <2>1, <3>1, <3>3 DEF Asking, Saying
    <2>3. CASE ~open
      <3>1. pc' \in {"finally", "top"}
        BY ONLY <1>5, <2>3 DEF PublishEnter, AfterPublish
      <3> QED BY <1>4, <2>1, <2>3, <3>1 DEF Asking
    <2> QED BY <2>2, <2>3
  <1>6. CASE PickPublication
    <2>1. UNCHANGED <<rs, frozen>> /\ pc = "pick"
      BY <1>6 DEF PickPublication
    <2>2. (pc' = "tail" /\ rs.pend = <<>>) \/ pc' = "gap"
      BY ONLY <1>6 DEF PickPublication
    <2>3. open /\ rs.pend # <<>> =>
             /\ frozen.rid = rs.rid /\ frozen.ver = rs.ver
             /\ frozen.pver = rs.pver /\ frozen.seg = rs.seg
      BY <2>1 DEF Silence, Counted
    <2> QED BY <1>4, <2>1, <2>2, <2>3 DEF Asking, Saying
  <1>7. CASE PublishItem
    <2>1. /\ frozen' = frozen /\ pc' = "pick"
          /\ frozen.rid = rs.rid /\ frozen.ver = rs.ver
          /\ frozen.pver = rs.pver /\ frozen.seg = rs.seg
      BY <1>7 DEF PublishItem, StillCurrent
    <2>2. \/ rs' = rs
          \/ /\ rs.pend # <<>>
             /\ rs' \in {[rs EXCEPT !.pend = Tail(@)],
                        [rs EXCEPT !.pend = Tail(@), !.published = pubd']}
      BY ONLY <1>7 DEF PublishItem
    <2>3. /\ rs'.rid = rs.rid /\ rs'.ver = rs.ver /\ rs'.pver = rs.pver /\ rs'.seg = rs.seg
          /\ rs.pend = <<>> => rs'.pend = <<>>
      BY ONLY <1>0, <2>2 DEF Round
    <2> QED BY <1>4, <2>1, <2>3 DEF Asking, Saying
  <1>8. CASE DropStalePublication
    <2>1. UNCHANGED <<rs, frozen>> /\ pc' \in {"finally", "top"} /\ ~StillCurrent(frozen)
      BY <1>8 DEF DropStalePublication, AfterPublish
    <2>2. open /\ rs.pend # <<>> => rs.seg < seg
      <3> SUFFICES ASSUME open, rs.pend # <<>>, ~(rs.seg < seg) PROVE FALSE
        OBVIOUS
      <3>1. pc \in {"pick", "gap"}
        BY <1>8 DEF DropStalePublication, Silence, Counted, Saying
      <3>2. /\ frozen.rid = rs.rid /\ frozen.ver = rs.ver
            /\ frozen.pver = rs.pver /\ frozen.seg = rs.seg /\ rs.seg <= seg
        BY <3>1 DEF Silence, Counted
      <3>3. seg = frozen.seg
        BY <1>0, <3>2
      <3> QED BY <2>1, <3>2, <3>3 DEF StillCurrent
    <2> QED BY <1>4, <2>1, <2>2 DEF Asking
  <1> QED BY <1>5, <1>6, <1>7, <1>8

LEMMA EndsKeepSilence ==
    ASSUME Types, Types', Inv, Silence, Faultless,
           \/ PublishTail \/ Finally \/ RecordFailure \/ DayEnds \/ CloseFinish
           \/ WorkerRaises \/ Crash
    PROVE  Silence'
  <1>0. /\ rs \in Round /\ leave \in [Procs -> Leave] /\ "worker" \in Procs
        /\ rs.seg \in Nat /\ seg \in Nat
    BY DEF Types, TypeOK, Procs, Round
  <1>1. CASE PublishTail
    <2>1. UNCHANGED <<open, seg, late, deferred, closing>> /\ pc = "tail" /\ pc' = "leaving"
      BY <1>1 DEF PublishTail, BeginLeaving, convVars, dayVars
    <2> DEFINE q == NoTail(NoRecovery(rs))
    <2>2. q \in Round /\ q.seg = rs.seg /\ q.pend = <<>>
      BY <1>0, RoundOperators, RoundOperatorsKeep
    <2>3. rs' = [q EXCEPT !.npcOnly = @ + 1]
      BY <1>1 DEF PublishTail
    <2> HIDE DEF q
    <2>4. rs'.seg = rs.seg /\ rs'.pend = <<>>
      BY ONLY <2>2, <2>3 DEF Round
    <2>5. Drops
      BY <2>1, <2>4, DroppingDrops
    <2> QED BY <2>1, <2>5, WorkerKeepsSilence DEF Saying, Asking
  <1>2. CASE Finally
    <2>1. UNCHANGED <<open, seg, rs, frozen, late, leave>> /\ pc = "finally"
      BY <1>2 DEF Finally
    <2>2. leave["worker"].stage = "none" /\ closing # "worker"
      BY <2>1 DEF Silence, ClosingIsSilent
    <2>3. open /\ rs.pend # <<>> => rs.seg < seg
      BY <2>1 DEF Silence, Counted, Saying
    <2>4. /\ pc' \in {"closing", "none", "top"}
          /\ (closing' = "worker" /\ pc' = "closing" /\ deferred) \/ closing' = closing
      BY ONLY <1>2 DEF Finally, AfterTask
    <2>5. ~deferred' /\ (late => late')
      <3>1. deferred' = FALSE
        BY <1>2 DEF Finally
      <3> QED BY <2>1, <3>1, Zenon
    <2>6. Counted'
      BY <2>1, <2>3, <2>4 DEF Silence, Counted, Asking
    <2>7. closing' # "no" => late'
      BY <2>4, <2>5 DEF Silence, ClosingIsSilent
    <2>8. ClosingIsSilent'
      BY <2>1, <2>2, <2>3, <2>4, <2>5, <2>7 DEF ClosingIsSilent
    <2> QED BY <2>6, <2>8 DEF Silence
  <1>3. CASE RecordFailure
    <2>1. UNCHANGED <<open, seg, frozen, piped, late, deferred, closing, leave>>
      BY <1>3 DEF RecordFailure, convVars, dayVars
    <2>2. pc' = pc \/ (pc = "none" /\ pc' = "top")
      BY <1>3 DEF RecordFailure, EnsureTask
    <2>3. Drops
      <3>1. CASE ~open
        BY <2>1, <3>1 DEF Drops
      <3>2. CASE open /\ rs.attempt = 0
        <4>1. \E st : rs' = [rs EXCEPT !.attempt = 1, !.status = st]
          BY ONLY <1>3, <3>2 DEF RecordFailure
        <4>2. /\ rs'.pend = rs.pend /\ rs'.rid = rs.rid /\ rs'.ver = rs.ver
              /\ rs'.pver = rs.pver /\ rs'.seg = rs.seg
          BY ONLY <1>0, <4>1 DEF Round
        <4> QED BY <2>1, <4>2, SameRoundDrops
      <3>3. CASE open /\ rs.attempt # 0
        <4> DEFINE q == EnterCooldown(NoTail(rs))
        <4>1. q \in Round /\ q.seg = rs.seg /\ q.pend = <<>>
          BY <1>0, RoundOperators, RoundOperatorsKeep, ZenonT(60)
        <4>2. rs' = [q EXCEPT !.attempt = @ + 1]
          BY ONLY <1>3, <3>3 DEF RecordFailure
        <4> HIDE DEF q
        <4>3. rs'.seg = rs.seg /\ rs'.pend = <<>>
          BY ONLY <4>1, <4>2 DEF Round
        <4> QED BY <2>1, <4>3, DroppingDrops
      <3> QED BY <3>1, <3>2, <3>3
    <2> QED BY <2>1, <2>2, <2>3, AsideKeepsSilence
  <1>4. CASE DayEnds
    <2>1. UNCHANGED <<open, seg, rs, frozen, leave, pc>>
      BY <1>4 DEF DayEnds, workerVars
    <2>2. late' /\ (piped => piped') /\ ~late
      <3>1. late' = TRUE /\ piped' = piped
        BY <1>4 DEF DayEnds
      <3>2. piped => piped'
        BY <3>1, Zenon
      <3>3. ~late
        BY <1>4 DEF DayEnds
      <3> QED BY <3>1, <3>2, <3>3
    <2>3. closing' = closing \/ (closing' = "world" /\ ~piped)
      BY <1>4 DEF DayEnds, PipelineActive
    <2>4. Counted'
      <3>1. pc' \in Asking => piped'
        BY <2>1, <2>2 DEF Silence, Counted
      <3>2. open' /\ rs'.pend # <<>> => rs'.seg < seg' \/ (piped' /\ pc' \in Saying)
        BY <2>1, <2>2 DEF Silence, Counted
      <3> QED BY <2>1, <3>1, <3>2 DEF Silence, Counted
    <2>5. closing' = "world" => pc' \notin {"examples", "speech"}
      BY <2>1, <2>3 DEF Silence, Counted, ClosingIsSilent, Asking
    <2>6. open' /\ closing' # "no" => rs'.pend = <<>> \/ rs'.seg < seg'
      BY <2>1, <2>3 DEF Silence, Counted, ClosingIsSilent
    <2>7. closing' = "worker" => pc' = "closing"
      BY <2>1, <2>3 DEF Silence, ClosingIsSilent
    <2>8. ClosingIsSilent'
      BY <2>1, <2>2, <2>5, <2>6, <2>7 DEF Silence, ClosingIsSilent
    <2> QED BY <2>4, <2>8 DEF Silence
  <1>5. CASE CloseFinish
    <2>1. UNCHANGED <<leave, piped, late, deferred>> /\ closing' = "no" /\ open' = FALSE
      BY <1>5 DEF CloseFinish
    <2>2. (piped => piped') /\ (late => late') /\ (deferred' => deferred)
      BY <2>1, Zenon
    <2>3. pc' = pc \/ (pc = "closing" /\ pc' \in {"none", "top"})
      BY <1>5 DEF CloseFinish, AfterTask, Silence, ClosingIsSilent
    <2>4. Counted'
      <3>1. pc' \in Asking => piped'
        BY <2>2, <2>3 DEF Silence, Counted, Asking
      <3> QED BY <2>1, <3>1 DEF Counted
    <2>5. ClosingIsSilent'
      BY <2>1, <2>2, <2>3 DEF Silence, ClosingIsSilent
    <2> QED BY <2>4, <2>5 DEF Silence
  <1>6. ~WorkerRaises /\ ~Crash
    <2>1. used.fails \in Nat /\ used.crashes \in Nat
      BY DEF Types, TypeOK
    <2> QED BY <2>1 DEF WorkerRaises, Crash, Faultless
  <1> QED BY <1>1, <1>2, <1>3, <1>4, <1>5, <1>6

-----------------------------------------------------------------------------
(* The theorems *)

LEMMA InitInv == Init => Inv
  <1> SUFFICES ASSUME Init PROVE Inv
    OBVIOUS
  <1>1. msgs = <<>> /\ SpokenMsgs = {}
    BY DEF Init, SpokenMsgs, MsgIds
  <1>2. rs.pend = <<>>
    <2>1. PICK st, op : rs = [DefaultRound(1) EXCEPT !.status = st, !.opener = op]
      BY DEF Init
    <2> QED BY ONLY <2>1 DEF DefaultRound
  <1>3. pc \notin Asking
    BY DEF Init, Asking
  <1> QED BY <1>1, <1>2, <1>3 DEF Inv, Pending, Numbers, Listening, RoundsDoNotOverlap,
                                 OneSpeechPerRound, Heard

LEMMA NextInv == Types /\ Inv /\ [Next]_vars => Inv'
  <1> SUFFICES ASSUME Types, Inv, [Next]_vars PROVE Inv'
    OBVIOUS
  <1>0. Types'
    BY NextTypes
  <1>1. CASE UNCHANGED vars
    BY <1>0, <1>1, StillIsQuiet, QuietKeepsInv DEF vars, convVars
  <1>2. CASE Next
    BY <1>0, <1>2, CommandsAreQuiet, WorkerIsQuiet, EndsAreQuiet, QuietKeepsInv,
       PlayerMessageKeepsInv, RoundStartKeepsInv, SpeechesKeepInv, PublishItemKeepsInv
       DEF Next, Worker
  <1> QED BY <1>1, <1>2

LEMMA ChatInvariant == Spec => [](Types /\ Inv)
  <1>1. Init => Types /\ Inv
    BY InitTypes, InitInv
  <1>2. (Types /\ Inv) /\ [Next]_vars => (Types /\ Inv)'
    BY NextTypes, NextInv
  <1> QED BY <1>1, <1>2, PTL DEF Spec

\* Rounds do not overlap: however messages, joins, leaves, failures and restarts
\* interleave with a round, what an earlier round said comes before what a later
\* one says, and what waits to be published belongs to the last round.
THEOREM ChatRoundsDoNotOverlap == Spec => []RoundsDoNotOverlap
  <1>1. Types /\ Inv => RoundsDoNotOverlap
    BY DEF Inv
  <1> QED BY <1>1, ChatInvariant, PTL

\* No speech is published twice and no NPC speaks twice in a round: not when a
\* publication is resumed by another worker, a retry or a restarted process.
THEOREM ChatOneSpeechPerRound == Spec => []OneSpeechPerRound
  <1>1. Types /\ Inv => OneSpeechPerRound
    BY DEF Inv
  <1> QED BY <1>1, ChatInvariant, PTL

\* No answer that a player message overtook: a speech asked for before the
\* message is never said after it, whatever preempts, fails, retries or restarts
\* in between.
THEOREM ChatNoStaleSpeech == Spec => []NoStaleSpeech
  <1>1. Types /\ Inv => NoStaleSpeech
    <2> SUFFICES ASSUME Types, Inv, NEW i \in SpokenMsgs, NEW j \in PlayerMsgs,
                        msgs[i].seen < j, j < i
                 PROVE  FALSE
      BY DEF NoStaleSpeech
    <2>1. j \in MsgIds /\ j \notin SpokenMsgs
      BY DEF PlayerMsgs, SpokenMsgs
    <2>2. j <= i
      BY <2>1 DEF SpokenMsgs, MsgIds
    <2> QED BY <2>1, <2>2 DEF Inv, Heard
  <1> QED BY <1>1, ChatInvariant, PTL

\* Joins and leaves make unpublished speeches stale: in the segment a speech is
\* said in, everything its author had not heard was said by its own round.
THEOREM ChatSpeechMatchesSegment == Spec => []SpeechMatchesSegment
  <1>1. Types /\ Inv => SpeechMatchesSegment
    <2> SUFFICES ASSUME Types, Inv, NEW i \in SpokenMsgs, NEW j \in MsgIds,
                        j <= i, j > msgs[i].seen
                 PROVE  msgs[j].rid = msgs[i].rid
      BY DEF SpeechMatchesSegment
    <2>1. msgs[i].seen \in Nat /\ j \in Nat
      <3>1. msgs \in Seq(Message) /\ i \in MsgIds
        BY DEF Types, TypeOK, SpokenMsgs
      <3>2. msgs[i] \in Message
        BY <3>1 DEF MsgIds
      <3> QED BY <3>2 DEF Message, MsgIds
    <2>2. msgs[i].seen < j
      BY <2>1
    <2> QED BY <2>2 DEF Inv, Heard
  <1> QED BY <1>1, ChatInvariant, PTL

\* Work is not left to the next request: an open conversation whose round state
\* asks for a worker has one, or its failed one is about to be restarted, except
\* in the cooldown after a second failure.
THEOREM ChatNoOrphanedRound == Spec => []NoOrphanedRound
  <1>1. Init => NoOrphanedRound
    BY DEF Init, NoOrphanedRound, DefaultRound, Resumable, Active
  <1>2. Types /\ NoOrphanedRound /\ [Next]_vars => NoOrphanedRound'
    <2> SUFFICES ASSUME Types, NoOrphanedRound, [Next]_vars PROVE NoOrphanedRound'
      OBVIOUS
    <2>1. CASE UNCHANGED vars
      BY <2>1, NothingAsked DEF vars
    <2>2. CASE Next
      BY <2>2, CommandsLeaveNoOrphan, WorkerLeavesNoOrphan, EndsLeaveNoOrphan DEF Next
    <2> QED BY <2>1, <2>2
  <1> QED BY <1>1, <1>2, InitTypes, NextTypes, PTL DEF Spec

\* The end of the day closes no conversation under a running round: as long as no
\* task fails and no process restarts, nothing is said while the closing summary
\* and consolidations are computed.
THEOREM ChatNothingSaidWhileClosing ==
    ASSUME Faultless PROVE Spec => NothingSaidWhileClosing
  <1>1. Init => Silence
    <2> SUFFICES ASSUME Init PROVE Silence
      OBVIOUS
    <2>1. PICK st, op : rs = [DefaultRound(1) EXCEPT !.status = st, !.opener = op]
      BY DEF Init
    <2>2. rs.pend = <<>> /\ rs.seg = 1
      BY ONLY <2>1 DEF DefaultRound
    <2>3. /\ seg = 1 /\ deferred = FALSE /\ closing = "no" /\ pc \in {"none", "top"}
          /\ leave = [p \in Procs |-> NoLeave]
      BY DEF Init
    <2>4. leave["worker"].stage = "none"
      BY <2>3 DEF Procs, NoLeave
    <2> QED BY <2>2, <2>3, <2>4 DEF Silence, Counted, ClosingIsSilent, Asking
  <1>2. (Types /\ Inv /\ Silence) /\ [Next]_vars => Silence'
    <2> SUFFICES ASSUME Types, Inv, Silence, [Next]_vars PROVE Silence'
      OBVIOUS
    <2>1. Types'
      BY NextTypes
    <2>2. CASE UNCHANGED vars
      <3>1. UNCHANGED <<open, seg, rs, frozen, piped, late, deferred, closing, leave, pc>>
        BY <2>2 DEF vars
      <3>2. Drops
        BY <3>1, SameRoundDrops
      <3> QED BY <2>1, <3>1, <3>2, AsideKeepsSilence
    <2>3. CASE Leaving
      <3>1. PICK p \in Procs : LeaveBegin(p) \/ LeaveSummarised(p) \/ LeaveConsolidated(p)
        BY <2>3 DEF Leaving
      <3>2. p = "worker" \/ p = "api"
        BY DEF Procs
      <3> QED BY <2>1, <3>1, <3>2, CommandsKeepSilence, LeavingKeepsSilence
    <2>4. CASE Next /\ ~Leaving
      BY <2>1, <2>4, CommandsKeepSilence, LeavingKeepsSilence, RoundKeepsSilence,
         SpeechesKeepSilence, PublicationKeepsSilence, EndsKeepSilence DEF Next, Worker
    <2> QED BY <2>2, <2>3, <2>4
  <1>3. (Types /\ Inv /\ Silence) /\ [Next]_vars => [closing # "no" => UNCHANGED msgs]_vars
    <2> SUFFICES ASSUME Types, Inv, Silence, Next, closing # "no"
                 PROVE  UNCHANGED msgs
      BY DEF vars
    <2>1. CASE PlayerMessage
      BY <2>1 DEF PlayerMessage, Silence, ClosingIsSilent
    <2>2. CASE PublishItem
      <3>1. /\ open /\ rs.seg = seg /\ seg \in Nat
        BY <2>2 DEF PublishItem, StillCurrent, Types, TypeOK
      <3>2. rs.pend = <<>>
        BY <3>1 DEF Silence, ClosingIsSilent
      <3> QED BY <2>2, <3>2 DEF PublishItem
    <2>3. CASE Next /\ ~PlayerMessage /\ ~PublishItem
      BY <2>3, CommandsAreQuiet, WorkerIsQuiet, EndsAreQuiet
         DEF Next, Worker, Quiet, BeginRound, BeginOpener, SpeechDone, convVars
    <2> QED BY <2>1, <2>2, <2>3
  <1> QED BY <1>1, <1>2, <1>3, ChatInvariant, PTL DEF Spec, NothingSaidWhileClosing
=============================================================================
