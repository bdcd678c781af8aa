--------------------------- MODULE MembershipProofs ---------------------------
(***************************************************************************)
(* Proofs about Membership: its type invariant, that the limits of the     *)
(* conversations are kept, that a request is settled once, that only a     *)
(* late join brings an actor into a second conversation, and that a        *)
(* segment that has ended keeps an owner, for any actors, any limit on the *)
(* open conversations, any days and any allowances.                        *)
(*                                                                         *)
(* Every action is described by what it does to the conversations          *)
(* (TalkMoves), to the requests (InvitesMove, JoinsMove) and to those who  *)
(* will start the next segment (OwnersGo, OwnersCome); a lemma per action  *)
(* shows these and the types (Moves), and a lemma per kind of move shows   *)
(* what it keeps.  A restart takes all the owners away: it is apart.       *)
(*                                                                         *)
(* That a segment keeps an owner is not inductive: an owner may be one     *)
(* that raises after its wait, because its applicant finds no room or its  *)
(* leaver has gone.  OwnersFit says that among the owners there is one     *)
(* that will not: the last to end the segment, since whoever changes the   *)
(* participants starts the next one.                                       *)
(***************************************************************************)
EXTENDS Membership, FiniteSetTheorems, WellFoundedInduction, SequenceTheorems, TLAPS

-----------------------------------------------------------------------------
(* The inductive invariant *)

Standings == {"present", "waiting", "inviting", "chatting", "departed"}
Dailies   == [day : Days \cup {0}, among : SUBSET Actors]

DayFit == today \in Days /\ hour \in {Open, Late, Over} /\ shut \subseteq Days /\ thought \subseteq NPCs
StandingFit == standing \in [Actors -> Standings]
TalksFit == talk \in Seq(Talks)

\* nobody invites itself
InvitesFit == invite \in Seq(Invites) /\ \A i \in DOMAIN invite : invite[i].by # invite[i].to

JoinsFit == join \in Seq(Joins) /\ \A j \in DOMAIN join : join[j].to \in DOMAIN talk
DailyFit == daily \in [NPCs -> Dailies]
LeavesFit ==
    /\ parting \subseteq (DOMAIN talk) \X NPCs /\ settled \subseteq (DOMAIN talk) \X NPCs
    /\ settling \subseteq Settlings /\ \A s \in settling : s.of \in DOMAIN talk

\* only a day that was shut is being closed, and a conversation that was closed before
\* its turn stays closed
EndingsFit ==
    /\ ending \in [Days -> Endings]
    /\ \A d \in Days :
         /\ ending[d].todo \subseteq DOMAIN talk
         /\ ending[d].at # "none" => /\ ending[d].on \in DOMAIN talk /\ d \in shut
                                     /\ ending[d].was \/ ~talk[ending[d].on].open
         /\ ending[d].at = "settle" => ending[d].now \in NPCs
LeftFit == left \in [Counted -> Nat]

Fits == /\ DayFit /\ StandingFit /\ TalksFit /\ InvitesFit /\ JoinsFit
        /\ DailyFit /\ LeavesFit /\ EndingsFit /\ LeftFit

\* a join, a leave or a closing waits, having ended the segment of c
Awaited(c) ==
    \/ \E j \in DOMAIN join : join[j].to = c /\ join[j].adding
    \/ \E n \in NPCs : <<c, n>> \in parting
    \/ \E d \in Days : ending[d].at # "none" /\ ending[d].on = c

\* and one of them will not raise: its applicant still finds room, its leaver is still there
Restarting(c) ==
    \/ \E j \in DOMAIN join : /\ join[j].to = c /\ join[j].adding
                              /\ join[j].by \notin talk[c].parts /\ ~Full(c)
    \/ \E n \in NPCs : <<c, n>> \in parting /\ n \in talk[c].parts
    \/ \E d \in Days : ending[d].at # "none" /\ ending[d].on = c

\* if anyone owns the segment that has ended, someone does who will start the next
OwnersFit == \A c \in DOMAIN talk : talk[c].open /\ ~talk[c].runs /\ Awaited(c) => Restarting(c)

MemberInv == Fits /\ LimitsKept /\ OwnersFit

-----------------------------------------------------------------------------
(* What a step may do *)

\* a conversation begins
Begins(a, b) ==
    /\ a # b /\ Free(a) /\ Free(b) /\ Cardinality(OpenTalks) < MaxOpen
    /\ talk' = Append(talk, [parts |-> {a, b}, open |-> TRUE, runs |-> TRUE])

\* an accepted request of a is carried out after its wait
LateJoin(a) == \E j \in DOMAIN join : join[j].by = a /\ join[j].adding /\ ~join'[j].adding

\* a conversation gains a participant, or loses one
Gains(c, a) ==
    /\ talk[c].open /\ a \notin talk[c].parts /\ ~Full(c) /\ (Free(a) \/ LateJoin(a))
    /\ talk' = [talk EXCEPT ![c].parts = @ \cup {a}, ![c].runs = TRUE]
Loses(c, a) ==
    /\ \A j \in DOMAIN join' : join'[j].st = "pending" => join'[j].to # c
    /\ talk' = Without(c, a)

\* segments end and conversations close
Fades ==
    /\ talk' \in Seq(Talks) /\ DOMAIN talk' = DOMAIN talk
    /\ \A c \in DOMAIN talk : /\ talk'[c].parts = talk[c].parts
                              /\ talk'[c].open => talk[c].open
                              /\ talk'[c].runs => talk[c].runs

TalkMoves ==
    \/ talk' = talk
    \/ \E a, b \in Actors : Begins(a, b)
    \/ \E c \in DOMAIN talk, a \in Actors : Gains(c, a)
    \/ \E c \in DOMAIN talk, a \in Actors : Loses(c, a)
    \/ Fades

\* conversations stay, and one that is closed stays closed
Lasting == /\ talk' \in Seq(Talks) /\ DOMAIN talk \subseteq DOMAIN talk'
           /\ \A c \in DOMAIN talk : talk'[c].open => talk[c].open

\* only segments that end are not running
NoFade ==
    /\ \A c \in DOMAIN talk' \ DOMAIN talk : talk'[c].runs
    /\ \A c \in DOMAIN talk : talk'[c].open /\ ~talk'[c].runs => ~talk[c].runs

\* a request keeps its actors and what settled it
InvitesMove ==
    /\ DOMAIN invite \subseteq DOMAIN invite'
    /\ \A i \in DOMAIN invite : invite[i].st # "pending" => invite'[i].st = invite[i].st

JoinsMove ==
    /\ DOMAIN join \subseteq DOMAIN join'
    /\ \A j \in DOMAIN join :
         /\ join'[j].by = join[j].by /\ join'[j].to = join[j].to /\ join'[j].asked = join[j].asked
         /\ join[j].st # "pending" => join'[j].st = join[j].st
    /\ \A j \in DOMAIN join' \ DOMAIN join :
         /\ join'[j].to \in DOMAIN talk' /\ join'[j].asked \subseteq talk'[join'[j].to].parts
         /\ ~join'[j].adding

\* who would have started the next segment and is gone has started it, or there was
\* nothing to start
OwnersGo ==
    /\ \A j \in DOMAIN join : join[j].adding /\ ~join'[j].adding =>
         \/ talk'[join[j].to].runs \/ ~talk'[join[j].to].open
         \/ join[j].by \in talk[join[j].to].parts \/ Full(join[j].to)
    /\ \A c \in DOMAIN talk, n \in NPCs : <<c, n>> \in parting /\ <<c, n>> \notin parting' =>
         talk'[c].runs \/ ~talk'[c].open \/ n \notin talk[c].parts
    /\ \A d \in Days : ending[d].at # "none" =>
         \/ ending'[d].at # "none" /\ ending'[d].on = ending[d].on
         \/ ~talk'[ending[d].on].open

\* who ends a segment is there to start the next
OwnersCome ==
    \A c \in DOMAIN talk' :
        /\ talk'[c].open /\ ~talk'[c].runs
        /\ ~(c \in DOMAIN talk /\ ~talk[c].runs /\ (Awaited(c) \/ ~Awaited(c)'))
        => Restarting(c)'

\* nobody begins to wait with a segment ended
NoNewOwner ==
    /\ \A j \in DOMAIN join : join'[j].adding => join[j].adding
    /\ parting' \subseteq parting
    /\ \A d \in Days : ending'[d].at # "none" => ending[d].at # "none" /\ ending'[d].on = ending[d].on

-----------------------------------------------------------------------------
(* Constants, numbers and sequences *)

LEMMA Constants ==
  /\ Player \in Actors /\ Player \notin NPCs /\ NPCs \subseteq Actors /\ None \notin NPCs
  /\ Actors \ {Player} = NPCs
  /\ MaxOpen \in Nat /\ Days \subseteq Nat /\ 0 \notin Days /\ 1 \in Days
  /\ IsFiniteSet(Actors)
<1>1. IsFiniteSet(NPCs \cup {Player})  BY MembershipAssumption, FS_AddElement
<1> QED  BY <1>1, MembershipAssumption DEF Actors, Days

\* A set of numbers that is not empty has a smallest one.
LEMMA SmallestExists ==
  ASSUME NEW T, T \subseteq Nat, T # {}
  PROVE  \E x \in T : \A y \in T : x <= y
<1> DEFINE R == OpToRel(<, Nat)
<1>1. IsWellFoundedOn(R, Nat)  BY NatLessThanWellFounded
<1>2. \A x, y \in Nat : <<y, x>> \in R <=> y < x
  BY DEF OpToRel
<1> HIDE DEF R
<1>3. PICK x \in T : \A y \in T : ~(<<y, x>> \in R)
  BY <1>1, WFMin
<1>4. ASSUME NEW y \in T
      PROVE  x <= y
  <2>1. x \in Nat /\ y \in Nat /\ ~(<<y, x>> \in R)  BY <1>3, <1>4
  <2>2. ~(y < x)  BY <1>2, <2>1
  <2> QED  BY <2>1, <2>2
<1> QED  BY <1>3, <1>4

LEMMA SequenceOf ==
  ASSUME NEW S, NEW n \in Nat, NEW f \in [1..n -> S]
  PROVE  f \in Seq(S) /\ Len(f) = n /\ DOMAIN f = 1..n
OBVIOUS

LEMMA SequenceChanges ==
  ASSUME NEW S, NEW s \in Seq(S), NEW i \in DOMAIN s, NEW v \in S
  PROVE  /\ [s EXCEPT ![i] = v] \in Seq(S)
         /\ DOMAIN [s EXCEPT ![i] = v] = DOMAIN s
         /\ [s EXCEPT ![i] = v][i] = v
         /\ \A j \in DOMAIN s : j # i => [s EXCEPT ![i] = v][j] = s[j]
OBVIOUS

LEMMA SequenceGrows ==
  ASSUME NEW S, NEW s \in Seq(S), NEW v \in S
  PROVE  /\ Append(s, v) \in Seq(S)
         /\ Len(s) + 1 \in Nat /\ Len(s) + 1 \notin DOMAIN s
         /\ DOMAIN Append(s, v) = DOMAIN s \cup {Len(s) + 1}
         /\ Append(s, v)[Len(s) + 1] = v
         /\ \A j \in DOMAIN s : Append(s, v)[j] = s[j]
<1>1. Len(s) \in Nat /\ DOMAIN s = 1..Len(s)
  BY LenProperties
<1>2. /\ Append(s, v) \in Seq(S) /\ Len(Append(s, v)) = Len(s) + 1
      /\ Append(s, v)[Len(s) + 1] = v /\ \A j \in 1..Len(s) : Append(s, v)[j] = s[j]
  BY AppendProperties
<1>3. DOMAIN Append(s, v) = 1..(Len(s) + 1)
  BY <1>2, LenProperties
<1> QED  BY <1>1, <1>2, <1>3

-----------------------------------------------------------------------------
(* Conversations *)

LEMMA TalkIs ==
  ASSUME TalksFit
  PROVE  /\ DOMAIN talk \subseteq Nat /\ IsFiniteSet(DOMAIN talk)
         /\ \A c \in DOMAIN talk : /\ talk[c] \in Talks /\ talk[c].parts \subseteq Actors
                                   /\ talk[c].open \in BOOLEAN /\ talk[c].runs \in BOOLEAN
                                   /\ IsFiniteSet(talk[c].parts)
<1>1. Len(talk) \in Nat /\ DOMAIN talk = 1..Len(talk) /\ talk \in [1..Len(talk) -> Talks]
  BY LenProperties DEF TalksFit
<1>2. IsFiniteSet(DOMAIN talk)  BY <1>1, FS_Interval
<1>3. \A c \in DOMAIN talk : talk[c] \in Talks  BY <1>1
<1>4. \A c \in DOMAIN talk : talk[c].parts \subseteq Actors /\ talk[c].open \in BOOLEAN
                             /\ talk[c].runs \in BOOLEAN
  BY <1>3 DEF Talks
<1>5. \A c \in DOMAIN talk : IsFiniteSet(talk[c].parts)
  BY <1>4, Constants, FS_Subset
<1> QED  BY <1>1, <1>2, <1>3, <1>4, <1>5

\* The conversation an actor takes part in is one that exists and is open.
LEMMA PlacesAre ==
  ASSUME TalksFit, NEW a
  PROVE  /\ Places(a) \subseteq Nat /\ Places(a) \subseteq DOMAIN talk /\ IsFiniteSet(Places(a))
         /\ ~Free(a) => Place(a) \in DOMAIN talk /\ talk[Place(a)].open
<1>1. Places(a) \subseteq OpenTalks /\ OpenTalks \subseteq DOMAIN talk  BY DEF Places, OpenTalks
<1>2. Places(a) \subseteq Nat /\ IsFiniteSet(Places(a))  BY <1>1, TalkIs, FS_Subset
<1>3. ASSUME ~Free(a)
      PROVE  Place(a) \in Places(a)
  <2>1. \E c \in Places(a) : \A d \in Places(a) : c <= d
    BY <1>2, <1>3, SmallestExists DEF Free
  <2> QED  BY <2>1 DEF Place
<1> QED  BY <1>1, <1>2, <1>3 DEF Places, OpenTalks

NewTalk(a, b) == [parts |-> {a, b}, open |-> TRUE, runs |-> TRUE]

LEMMA BeginsDoes ==
  ASSUME TalksFit, NEW a \in Actors, NEW b \in Actors, talk' = Append(talk, NewTalk(a, b))
  PROVE  /\ talk' \in Seq(Talks) /\ Lasting /\ NoFade
         /\ \A c \in DOMAIN talk : talk'[c] = talk[c]
         /\ \E n \in Nat : /\ n \notin DOMAIN talk /\ DOMAIN talk' = DOMAIN talk \cup {n}
                           /\ talk'[n].parts = {a, b} /\ talk'[n].open /\ talk'[n].runs
<1>1. NewTalk(a, b) \in Talks
  BY DEF NewTalk, Talks
<1>2. /\ talk' \in Seq(Talks) /\ Len(talk) + 1 \in Nat /\ Len(talk) + 1 \notin DOMAIN talk
      /\ DOMAIN talk' = DOMAIN talk \cup {Len(talk) + 1}
      /\ talk'[Len(talk) + 1] = NewTalk(a, b)
      /\ \A c \in DOMAIN talk : talk'[c] = talk[c]
  BY <1>1, SequenceGrows DEF TalksFit
<1>3. /\ NewTalk(a, b).parts = {a, b} /\ NewTalk(a, b).open = TRUE /\ NewTalk(a, b).runs = TRUE
  BY DEF NewTalk
<1>4. Lasting /\ NoFade
  BY <1>2, <1>3 DEF Lasting, NoFade
<1> QED  BY <1>2, <1>3, <1>4

LEMMA GainsDoes ==
  ASSUME TalksFit, NEW c \in DOMAIN talk, NEW a \in Actors, talk[c].open,
         talk' = [talk EXCEPT ![c].parts = @ \cup {a}, ![c].runs = TRUE]
  PROVE  /\ talk' \in Seq(Talks) /\ DOMAIN talk' = DOMAIN talk /\ Lasting /\ NoFade
         /\ \A x \in DOMAIN talk : x # c => talk'[x] = talk[x]
         /\ talk'[c].parts = talk[c].parts \cup {a} /\ talk'[c].open /\ talk'[c].runs
<1> DEFINE r == [talk[c] EXCEPT !.parts = @ \cup {a}, !.runs = TRUE]
<1>0. talk \in Seq(Talks) /\ c \in DOMAIN talk  BY DEF TalksFit
<1>1. talk[c] \in Talks  BY TalkIs
<1>2. r \in Talks /\ r.parts = talk[c].parts \cup {a} /\ r.open = talk[c].open /\ r.runs = TRUE
  BY <1>1 DEF Talks
<1>3. talk' = [talk EXCEPT ![c] = r]
  OBVIOUS
<1> HIDE DEF r
<1>4. /\ talk' \in Seq(Talks) /\ DOMAIN talk' = DOMAIN talk /\ talk'[c] = r
      /\ \A x \in DOMAIN talk : x # c => talk'[x] = talk[x]
  BY ONLY <1>0, <1>2, <1>3, SequenceChanges
<1>5. Lasting /\ NoFade
  BY <1>2, <1>4 DEF Lasting, NoFade
<1> QED  BY <1>2, <1>4, <1>5

LEMMA LosesDoes ==
  ASSUME TalksFit, NEW c \in DOMAIN talk, NEW a \in Actors, talk' = Without(c, a)
  PROVE  /\ talk' \in Seq(Talks) /\ DOMAIN talk' = DOMAIN talk /\ Lasting /\ NoFade
         /\ \A x \in DOMAIN talk : x # c => talk'[x] = talk[x]
         /\ talk'[c].parts = talk[c].parts \ {a}
         /\ talk'[c].open => talk[c].open /\ talk'[c].runs /\ Cardinality(talk'[c].parts) >= 2
<1> DEFINE left2 == talk[c].parts \ {a}
           o == talk[c].open /\ Cardinality(left2) >= 2
           r == [parts |-> left2, open |-> o, runs |-> o]
<1>1. talk[c].parts \subseteq Actors /\ talk[c].open \in BOOLEAN  BY TalkIs
<1>2. r.parts = left2 /\ r.open = o /\ r.runs = o
  OBVIOUS
<1>3. o \in BOOLEAN  OBVIOUS
<1>4. r \in Talks
  BY <1>1, <1>3 DEF Talks
<1>5. talk' = [talk EXCEPT ![c] = r]
  BY DEF Without
<1> HIDE DEF r
<1>6. /\ talk' \in Seq(Talks) /\ DOMAIN talk' = DOMAIN talk /\ talk'[c] = r
      /\ \A x \in DOMAIN talk : x # c => talk'[x] = talk[x]
  BY <1>4, <1>5, SequenceChanges DEF TalksFit
<1>7. talk'[c].parts = left2 /\ talk'[c].open = o /\ talk'[c].runs = o
  BY <1>2, <1>6
<1>8. Lasting /\ NoFade
  BY <1>6, <1>7 DEF Lasting, NoFade
<1>9. talk'[c].open => talk[c].open /\ talk'[c].runs /\ Cardinality(left2) >= 2
  <2>1. CASE o  BY <1>7, <2>1
  <2>2. CASE ~o  BY <1>3, <1>7, <2>2
  <2> QED  BY <2>1, <2>2
<1> HIDE DEF o
<1> QED  BY <1>6, <1>7, <1>8, <1>9

\* The segment of a conversation ends, or the conversation closes.
Ended(t, c) == [t EXCEPT ![c].runs = FALSE]
Shut(t, c)  == [t EXCEPT ![c].open = FALSE]

LEMMA SegmentEnds ==
  ASSUME NEW t \in Seq(Talks), NEW c \in DOMAIN t,
         NEW e, e = Ended(t, c)
  PROVE  /\ e \in Seq(Talks) /\ DOMAIN e = DOMAIN t
         /\ \A x \in DOMAIN t : x # c => e[x] = t[x]
         /\ e[c].parts = t[c].parts /\ e[c].open = t[c].open /\ e[c].runs = FALSE
<1> DEFINE r == [t[c] EXCEPT !.runs = FALSE]
<1>0. t \in Seq(Talks) /\ c \in DOMAIN t  OBVIOUS
<1>1. t[c] \in Talks  BY LenProperties
<1>2. r \in Talks /\ r.parts = t[c].parts /\ r.open = t[c].open /\ r.runs = FALSE
  BY <1>1 DEF Talks
<1>3. e = [t EXCEPT ![c] = r]
  BY DEF Ended
<1> HIDE DEF r
<1>4. /\ e \in Seq(Talks) /\ DOMAIN e = DOMAIN t /\ e[c] = r
      /\ \A x \in DOMAIN t : x # c => e[x] = t[x]
  BY ONLY <1>2, <1>3, <1>0, SequenceChanges
<1> QED  BY <1>2, <1>4

LEMMA TalkCloses ==
  ASSUME NEW t \in Seq(Talks), NEW c \in DOMAIN t,
         NEW e, e = Shut(t, c)
  PROVE  /\ e \in Seq(Talks) /\ DOMAIN e = DOMAIN t
         /\ \A x \in DOMAIN t : x # c => e[x] = t[x]
         /\ e[c].parts = t[c].parts /\ e[c].open = FALSE /\ e[c].runs = t[c].runs
<1> DEFINE r == [t[c] EXCEPT !.open = FALSE]
<1>0. t \in Seq(Talks) /\ c \in DOMAIN t  OBVIOUS
<1>1. t[c] \in Talks  BY LenProperties
<1>2. r \in Talks /\ r.parts = t[c].parts /\ r.open = FALSE /\ r.runs = t[c].runs
  BY <1>1 DEF Talks
<1>3. e = [t EXCEPT ![c] = r]
  BY DEF Shut
<1> HIDE DEF r
<1>4. /\ e \in Seq(Talks) /\ DOMAIN e = DOMAIN t /\ e[c] = r
      /\ \A x \in DOMAIN t : x # c => e[x] = t[x]
  BY ONLY <1>2, <1>3, <1>0, SequenceChanges
<1> QED  BY <1>2, <1>4

-----------------------------------------------------------------------------
(* What every move of the conversations keeps *)

SecondIsLate ==
    \A a \in Actors : Cardinality(Places(a)) < 2 /\ Cardinality(Places(a)') >= 2 => LateJoin(a)

\* What is said of the conversations after a step.
KeepsLimits == Lasting /\ LimitsKept' /\ SecondIsLate
EndedKeepsParts ==
    \A c \in DOMAIN talk : talk'[c].open /\ ~talk'[c].runs => talk'[c].parts = talk[c].parts

Asks == \A j \in DOMAIN join' : join'[j].st = "pending" =>
            join'[j].asked \subseteq talk'[join'[j].to].parts
OpenTalksFit == \A c \in OpenTalks : Cardinality(talk[c].parts) \in 2..3

\* The requests ask actors that are there, if participants only come, or leave a
\* conversation without a pending request.
LEMMA AsksStays ==
  ASSUME Fits, LimitsKept, JoinsMove,
         \A j \in DOMAIN join' : join'[j].st = "pending" /\ join'[j].to \in DOMAIN talk =>
             talk[join'[j].to].parts \subseteq talk'[join'[j].to].parts
  PROVE  Asks
<1> SUFFICES ASSUME NEW j \in DOMAIN join', join'[j].st = "pending"
             PROVE  join'[j].asked \subseteq talk'[join'[j].to].parts
  BY DEF Asks
<1>1. CASE j \notin DOMAIN join  BY <1>1 DEF JoinsMove
<1>2. CASE j \in DOMAIN join
  <2>1. join[j].st = "pending" /\ join'[j].to = join[j].to /\ join'[j].asked = join[j].asked
    BY <1>2 DEF JoinsMove
  <2>2. join[j].to \in DOMAIN talk  BY <1>2 DEF Fits, JoinsFit
  <2>3. join[j].asked \subseteq talk[join[j].to].parts
    BY <1>2, <2>1 DEF LimitsKept
  <2> QED  BY <2>1, <2>2, <2>3
<1> QED  BY <1>1, <1>2

LEMMA FewerPlaces ==
  ASSUME TalksFit, NEW a, Places(a)' \subseteq Places(a)
  PROVE  ~(Cardinality(Places(a)) < 2 /\ Cardinality(Places(a)') >= 2)
<1>1. IsFiniteSet(Places(a))  BY PlacesAre
<1>2. /\ Cardinality(Places(a)') <= Cardinality(Places(a))
      /\ Cardinality(Places(a)) \in Nat /\ Cardinality(Places(a)') \in Nat
  BY <1>1, FS_Subset, FS_CardinalityType
<1> QED  BY <1>2

LEMMA OnePlace ==
  ASSUME NEW a, NEW n, Places(a)' \subseteq {n}
  PROVE  ~(Cardinality(Places(a)') >= 2)
<1>1. IsFiniteSet({n}) /\ Cardinality({n}) = 1  BY FS_Singleton
<1>2. Cardinality(Places(a)') <= 1 /\ Cardinality(Places(a)') \in Nat
  BY <1>1, FS_Subset, FS_CardinalityType
<1> QED  BY <1>2

LEMMA FewerOpen ==
  ASSUME TalksFit, LimitsKept, OpenTalks' \subseteq OpenTalks
  PROVE  (Cardinality(OpenTalks) <= MaxOpen)'
<1>1. OpenTalks \subseteq DOMAIN talk  BY DEF OpenTalks
<1>2. IsFiniteSet(OpenTalks)  BY <1>1, TalkIs, FS_Subset
<1>3. /\ Cardinality(OpenTalks') <= Cardinality(OpenTalks)
      /\ Cardinality(OpenTalks) \in Nat /\ Cardinality(OpenTalks') \in Nat
  BY <1>2, FS_Subset, FS_CardinalityType
<1>4. MaxOpen \in Nat /\ Cardinality(OpenTalks) <= MaxOpen  BY Constants DEF LimitsKept
<1> QED  BY <1>3, <1>4

LEMMA LimitsAre == LimitsKept' <=> (Cardinality(OpenTalks) <= MaxOpen)' /\ OpenTalksFit' /\ Asks
BY DEF LimitsKept, OpenTalksFit, Asks

LEMMA FadesKeeps ==
  ASSUME Fits, LimitsKept, JoinsMove, talk' = talk \/ Fades
  PROVE  KeepsLimits /\ EndedKeepsParts
<1>1. TalksFit  BY DEF Fits
<1>2. /\ talk' \in Seq(Talks) /\ DOMAIN talk' = DOMAIN talk
      /\ \A c \in DOMAIN talk : /\ talk'[c].parts = talk[c].parts
                                /\ talk'[c].open => talk[c].open
  BY <1>1 DEF Fades, TalksFit
<1>3. Lasting /\ EndedKeepsParts
  BY <1>2 DEF Lasting, EndedKeepsParts
<1>4. OpenTalks' \subseteq OpenTalks /\ \A a : Places(a)' \subseteq Places(a)
  BY <1>2 DEF OpenTalks, Places
<1>5. (Cardinality(OpenTalks) <= MaxOpen)'  BY <1>1, <1>4, FewerOpen
<1>6. OpenTalksFit'
  BY <1>2, <1>4 DEF OpenTalksFit, OpenTalks, LimitsKept
<1>7. Asks  BY <1>2, AsksStays
<1>8. SecondIsLate  BY <1>1, <1>4, FewerPlaces DEF SecondIsLate
<1> QED  BY <1>3, <1>5, <1>6, <1>7, <1>8, LimitsAre DEF KeepsLimits

LEMMA LosesKeeps ==
  ASSUME Fits, LimitsKept, JoinsMove, NEW c \in DOMAIN talk, NEW a \in Actors, Loses(c, a)
  PROVE  KeepsLimits /\ EndedKeepsParts
<1>1. TalksFit  BY DEF Fits
<1>2. talk' = Without(c, a)  BY DEF Loses
<1>3. /\ DOMAIN talk' = DOMAIN talk /\ Lasting
      /\ \A x \in DOMAIN talk : x # c => talk'[x] = talk[x]
      /\ talk'[c].parts = talk[c].parts \ {a}
      /\ talk'[c].open => talk[c].open /\ talk'[c].runs /\ Cardinality(talk'[c].parts) >= 2
  BY <1>1, <1>2, LosesDoes
<1>4. EndedKeepsParts  BY <1>3 DEF EndedKeepsParts
<1>5. OpenTalks' \subseteq OpenTalks /\ \A b : Places(b)' \subseteq Places(b)
  BY <1>3 DEF OpenTalks, Places
<1>6. (Cardinality(OpenTalks) <= MaxOpen)'  BY <1>1, <1>5, FewerOpen
<1>7. OpenTalksFit'
  <2> SUFFICES ASSUME NEW x \in OpenTalks'
               PROVE  Cardinality(talk'[x].parts) \in 2..3
    BY DEF OpenTalksFit
  <2>1. x \in OpenTalks /\ x \in DOMAIN talk /\ talk'[x].open  BY <1>5 DEF OpenTalks
  <2>2. Cardinality(talk[x].parts) \in 2..3  BY <2>1 DEF LimitsKept
  <2>3. IsFiniteSet(talk[x].parts)  BY <1>1, <2>1, TalkIs
  <2>4. CASE x = c
    <3>1. /\ Cardinality(talk'[c].parts) <= Cardinality(talk[c].parts)
          /\ Cardinality(talk'[c].parts) \in Nat
      BY <1>3, <2>3, <2>4, FS_Subset, FS_CardinalityType
    <3> QED  BY <1>3, <2>1, <2>2, <2>4, <3>1
  <2> QED  BY <1>3, <2>1, <2>2, <2>4
<1>8. Asks
  <2>1. \A j \in DOMAIN join' : join'[j].st = "pending" => join'[j].to # c  BY DEF Loses
  <2> QED  BY <1>3, <2>1, AsksStays
<1>9. SecondIsLate  BY <1>1, <1>5, FewerPlaces DEF SecondIsLate
<1> QED  BY <1>3, <1>4, <1>6, <1>7, <1>8, <1>9, LimitsAre DEF KeepsLimits

LEMMA GainsKeeps ==
  ASSUME Fits, LimitsKept, JoinsMove, NEW c \in DOMAIN talk, NEW a \in Actors, Gains(c, a)
  PROVE  KeepsLimits /\ EndedKeepsParts
<1>1. TalksFit  BY DEF Fits
<1>2. /\ talk[c].open /\ a \notin talk[c].parts /\ ~Full(c) /\ (Free(a) \/ LateJoin(a))
      /\ talk' = [talk EXCEPT ![c].parts = @ \cup {a}, ![c].runs = TRUE]
  BY DEF Gains
<1>3. /\ DOMAIN talk' = DOMAIN talk /\ Lasting
      /\ \A x \in DOMAIN talk : x # c => talk'[x] = talk[x]
      /\ talk'[c].parts = talk[c].parts \cup {a} /\ talk'[c].open /\ talk'[c].runs
  BY <1>1, <1>2, GainsDoes
<1>4. EndedKeepsParts  BY <1>3 DEF EndedKeepsParts
<1>5. /\ OpenTalks' \subseteq OpenTalks /\ Places(a)' \subseteq Places(a) \cup {c}
      /\ \A b : b # a => Places(b)' \subseteq Places(b)
  BY <1>2, <1>3 DEF OpenTalks, Places
<1>6. (Cardinality(OpenTalks) <= MaxOpen)'  BY <1>1, <1>5, FewerOpen
<1>7. OpenTalksFit'
  <2> SUFFICES ASSUME NEW x \in OpenTalks'
               PROVE  Cardinality(talk'[x].parts) \in 2..3
    BY DEF OpenTalksFit
  <2>1. x \in OpenTalks /\ x \in DOMAIN talk  BY <1>5 DEF OpenTalks
  <2>2. Cardinality(talk[x].parts) \in 2..3  BY <2>1 DEF LimitsKept
  <2>3. IsFiniteSet(talk[x].parts)  BY <1>1, <2>1, TalkIs
  <2>4. CASE x = c
    <3>1. Cardinality(talk'[c].parts) = Cardinality(talk[c].parts) + 1
      BY <1>2, <1>3, <2>3, <2>4, FS_AddElement
    <3>2. ~(Cardinality(talk[c].parts) >= 3)  BY <1>2 DEF Full
    <3> QED  BY <2>2, <2>4, <3>1, <3>2
  <2> QED  BY <1>3, <2>1, <2>2, <2>4
<1>8. Asks
  <2>1. \A x \in DOMAIN talk : talk[x].parts \subseteq talk'[x].parts  BY <1>3
  <2> QED  BY <1>3, <2>1, AsksStays
<1>9. SecondIsLate
  <2> SUFFICES ASSUME NEW b \in Actors, Cardinality(Places(b)) < 2, Cardinality(Places(b)') >= 2
               PROVE  LateJoin(b)
    BY DEF SecondIsLate
  <2>1. b = a  BY <1>1, <1>5, FewerPlaces
  <2>2. ~Free(a)
    <3> SUFFICES ASSUME Free(a)
                 PROVE  FALSE
      OBVIOUS
    <3>1. Places(a)' \subseteq {c}  BY <1>5 DEF Free
    <3> QED  BY <2>1, <3>1, OnePlace
  <2> QED  BY <1>2, <2>1, <2>2
<1> QED  BY <1>3, <1>4, <1>6, <1>7, <1>8, <1>9, LimitsAre DEF KeepsLimits

LEMMA BeginsKeeps ==
  ASSUME Fits, LimitsKept, JoinsMove, NEW a \in Actors, NEW b \in Actors, Begins(a, b)
  PROVE  KeepsLimits /\ EndedKeepsParts
<1>1. TalksFit  BY DEF Fits
<1>2. /\ a # b /\ Free(a) /\ Free(b) /\ Cardinality(OpenTalks) < MaxOpen
      /\ talk' = Append(talk, NewTalk(a, b))
  BY DEF Begins, NewTalk
<1>3. /\ Lasting /\ \A c \in DOMAIN talk : talk'[c] = talk[c]
      /\ \E n \in Nat : /\ n \notin DOMAIN talk /\ DOMAIN talk' = DOMAIN talk \cup {n}
                        /\ talk'[n].parts = {a, b} /\ talk'[n].open /\ talk'[n].runs
  BY <1>1, <1>2, BeginsDoes
<1>4. PICK n \in Nat : /\ n \notin DOMAIN talk /\ DOMAIN talk' = DOMAIN talk \cup {n}
                       /\ talk'[n].parts = {a, b} /\ talk'[n].open /\ talk'[n].runs
  BY <1>3
<1>5. EndedKeepsParts  BY <1>3 DEF EndedKeepsParts
<1>6. /\ OpenTalks' = OpenTalks \cup {n} /\ \A x \in {a, b} : Places(x)' \subseteq Places(x) \cup {n}
      /\ \A x : x \notin {a, b} => Places(x)' \subseteq Places(x)
  BY <1>3, <1>4 DEF OpenTalks, Places
<1>7. (Cardinality(OpenTalks) <= MaxOpen)'
  <2>1. IsFiniteSet(OpenTalks) /\ n \notin OpenTalks
    <3>1. OpenTalks \subseteq DOMAIN talk  BY DEF OpenTalks
    <3> QED  BY <1>1, <1>4, <3>1, TalkIs, FS_Subset
  <2>2. Cardinality(OpenTalks \cup {n}) = Cardinality(OpenTalks) + 1  BY <2>1, FS_AddElement
  <2>3. Cardinality(OpenTalks) \in Nat /\ MaxOpen \in Nat  BY <2>1, FS_CardinalityType, Constants
  <2> QED  BY <1>2, <1>6, <2>2, <2>3
<1>8. OpenTalksFit'
  <2>1. Cardinality({a, b}) = 2
    <3>1. IsFiniteSet({a}) /\ Cardinality({a}) = 1  BY FS_Singleton
    <3>2. Cardinality({a} \cup {b}) = Cardinality({a}) + 1  BY <1>2, <3>1, FS_AddElement
    <3>3. {a} \cup {b} = {a, b}  OBVIOUS
    <3> QED  BY <3>1, <3>2, <3>3
  <2> SUFFICES ASSUME NEW x \in OpenTalks'
               PROVE  Cardinality(talk'[x].parts) \in 2..3
    BY DEF OpenTalksFit
  <2>2. CASE x = n  BY <1>4, <2>1, <2>2
  <2>3. CASE x \in OpenTalks
    <3>1. x \in DOMAIN talk /\ Cardinality(talk[x].parts) \in 2..3
      BY <2>3 DEF OpenTalks, LimitsKept
    <3> QED  BY <1>3, <3>1
  <2> QED  BY <1>6, <2>2, <2>3
<1>9. Asks
  <2>1. \A x \in DOMAIN talk : talk[x].parts \subseteq talk'[x].parts  BY <1>3
  <2> QED  BY <2>1, AsksStays
<1>10. SecondIsLate
  <2> SUFFICES ASSUME NEW x \in Actors, Cardinality(Places(x)) < 2, Cardinality(Places(x)') >= 2
               PROVE  FALSE
    BY DEF SecondIsLate
  <2>1. x \in {a, b}  BY <1>1, <1>6, FewerPlaces
  <2>2. Places(x)' \subseteq {n}
    <3>1. Places(x) = {}  BY <1>2, <2>1 DEF Free
    <3> QED  BY <1>6, <2>1, <3>1
  <2> QED  BY <2>2, OnePlace
<1> QED  BY <1>3, <1>5, <1>7, <1>8, <1>9, <1>10, LimitsAre DEF KeepsLimits

\* Whatever happens to the conversations, the limits are kept.
LEMMA TalksKeep ==
  ASSUME Fits, LimitsKept, JoinsMove, TalkMoves
  PROVE  KeepsLimits /\ EndedKeepsParts
BY FadesKeeps, LosesKeeps, GainsKeeps, BeginsKeeps DEF TalkMoves

\* Owners: if those that go and those that come are as said, somebody still starts the
\* next segment, and no segment loses all of its owners.
NoneLost == \A c \in DOMAIN talk : SegmentOwned(c) => SegmentOwned(c)'

LEMMA OwnersKeep ==
  ASSUME Fits, Lasting, EndedKeepsParts, JoinsMove, OwnersFit, OwnersGo, OwnersCome
  PROVE  OwnersFit' /\ NoneLost
<1>1. ASSUME NEW c \in DOMAIN talk, talk'[c].open, ~talk'[c].runs,
             Restarting(c)
      PROVE  Restarting(c)'
  <2>1. talk'[c].parts = talk[c].parts  BY <1>1 DEF EndedKeepsParts
  <2>2. CASE \E j \in DOMAIN join : /\ join[j].to = c /\ join[j].adding
                                    /\ join[j].by \notin talk[c].parts /\ ~Full(c)
    <3>1. PICK j \in DOMAIN join : /\ join[j].to = c /\ join[j].adding
                                   /\ join[j].by \notin talk[c].parts /\ ~Full(c)
      BY <2>2
    <3>2. j \in DOMAIN join' /\ join'[j].to = c /\ join'[j].by = join[j].by
      BY <3>1 DEF JoinsMove
    <3>3. join'[j].adding  BY <1>1, <3>1 DEF OwnersGo
    <3>4. ~Full(c)'  BY <2>1, <3>1 DEF Full
    <3> QED  BY <2>1, <3>1, <3>2, <3>3, <3>4 DEF Restarting
  <2>3. CASE \E n \in NPCs : <<c, n>> \in parting /\ n \in talk[c].parts
    BY <1>1, <2>1, <2>3 DEF OwnersGo, Restarting
  <2>4. CASE \E d \in Days : ending[d].at # "none" /\ ending[d].on = c
    BY <1>1, <2>4 DEF OwnersGo, Restarting
  <2> QED  BY <1>1, <2>2, <2>3, <2>4 DEF Restarting
<1>2. \A c : Restarting(c)' => Awaited(c)'
  BY DEF Restarting, Awaited
<1>3. ASSUME NEW c \in DOMAIN talk', talk'[c].open, ~talk'[c].runs,
             Awaited(c)' \/ (c \in DOMAIN talk /\ SegmentOwned(c))
      PROVE  Restarting(c)'
  <2>1. CASE ~(c \in DOMAIN talk /\ ~talk[c].runs /\ (Awaited(c) \/ ~Awaited(c)'))
    BY <1>3, <2>1 DEF OwnersCome
  <2>2. CASE c \in DOMAIN talk /\ ~talk[c].runs /\ (Awaited(c) \/ ~Awaited(c)')
    <3>1. talk[c].open  BY <1>3, <2>2 DEF Lasting
    <3>2. Awaited(c)  BY <1>3, <2>2, <3>1 DEF SegmentOwned, Awaited
    <3>3. Restarting(c)  BY <2>2, <3>1, <3>2 DEF OwnersFit
    <3> QED  BY <1>1, <1>3, <2>2, <3>3
  <2> QED  BY <2>1, <2>2
<1>4. OwnersFit'  BY <1>3 DEF OwnersFit
<1>5. ASSUME NEW c \in DOMAIN talk, SegmentOwned(c)
      PROVE  SegmentOwned(c)'
  <2>1. CASE talk'[c].open /\ ~talk'[c].runs
    <3>1. Awaited(c)'  BY <1>2, <1>3, <1>5, <2>1 DEF Lasting
    <3> QED  BY <3>1 DEF SegmentOwned, Awaited
  <2>2. CASE ~(talk'[c].open /\ ~talk'[c].runs)  BY <2>2 DEF SegmentOwned
  <2> QED  BY <2>1, <2>2
<1> QED  BY <1>4, <1>5 DEF NoneLost

\* Where nobody begins to wait and no segment ends, nobody comes.
LEMMA NoneComes ==
  ASSUME NoFade, NoNewOwner, JoinsMove
  PROVE  OwnersCome
<1> SUFFICES ASSUME NEW c \in DOMAIN talk', talk'[c].open, ~talk'[c].runs,
                    ~(c \in DOMAIN talk /\ ~talk[c].runs /\ (Awaited(c) \/ ~Awaited(c)'))
             PROVE  FALSE
  BY DEF OwnersCome
<1>1. c \in DOMAIN talk /\ ~talk[c].runs  BY DEF NoFade
<1>2. Awaited(c)' /\ ~Awaited(c)  BY <1>1
<1>3. ~\E j \in DOMAIN join' : join'[j].to = c /\ join'[j].adding
  BY <1>2 DEF NoNewOwner, JoinsMove, Awaited
<1>4. ~\E n \in NPCs : <<c, n>> \in parting'
  BY <1>2 DEF NoNewOwner, Awaited
<1>5. ~\E d \in Days : ending'[d].at # "none" /\ ending'[d].on = c
  BY <1>2 DEF NoNewOwner, Awaited
<1> QED  BY <1>2, <1>3, <1>4, <1>5 DEF Awaited

-----------------------------------------------------------------------------
(* What stays *)

\* The goal for every step but a restart.
Moves == Fits' /\ InvitesMove /\ JoinsMove /\ TalkMoves /\ OwnersGo /\ OwnersCome

SameAdding == \A j \in DOMAIN join : join'[j].adding = join[j].adding

LEMMA JoinsStay ==
  ASSUME Fits, Lasting, join' = join
  PROVE  JoinsFit' /\ JoinsMove /\ SameAdding
BY DEF Fits, JoinsFit, JoinsMove, Lasting, SameAdding

LEMMA InvitesStay ==
  ASSUME Fits, invite' = invite
  PROVE  InvitesFit' /\ InvitesMove
BY DEF Fits, InvitesFit, InvitesMove

LEMMA DayStays ==
  ASSUME Fits, UNCHANGED dayVars
  PROVE  DayFit'
BY DEF Fits, DayFit, dayVars

LEMMA LeavesStay ==
  ASSUME Fits, Lasting, UNCHANGED <<parting, settling, settled>>
  PROVE  LeavesFit'
BY DEF Fits, LeavesFit, Lasting

LEMMA EndingsStay ==
  ASSUME Fits, Lasting, ending' = ending, shut \subseteq shut'
  PROVE  EndingsFit'
<1> SUFFICES ASSUME NEW d \in Days
             PROVE  /\ ending[d].todo \subseteq DOMAIN talk'
                    /\ ending[d].at # "none" => /\ ending[d].on \in DOMAIN talk' /\ d \in shut'
                                                /\ ending[d].was \/ ~talk'[ending[d].on].open
                    /\ ending[d].at = "settle" => ending[d].now \in NPCs
  BY DEF Fits, EndingsFit
<1>1. /\ ending[d].todo \subseteq DOMAIN talk
      /\ ending[d].at # "none" => /\ ending[d].on \in DOMAIN talk /\ d \in shut
                                  /\ ending[d].was \/ ~talk[ending[d].on].open
      /\ ending[d].at = "settle" => ending[d].now \in NPCs
  BY DEF Fits, EndingsFit
<1> QED  BY <1>1 DEF Lasting

\* A step that begins or ends no wait.
LEMMA OwnersStay ==
  ASSUME Fits, NoFade, JoinsMove, SameAdding, UNCHANGED <<parting, ending>>
  PROVE  OwnersGo /\ OwnersCome
<1>1. OwnersGo  BY DEF OwnersGo, SameAdding
<1>2. NoNewOwner  BY DEF NoNewOwner, SameAdding
<1> QED  BY <1>1, <1>2, NoneComes

LEMMA SameTalk ==
  ASSUME Fits, talk' = talk
  PROVE  TalksFit' /\ Lasting /\ NoFade /\ TalkMoves
BY DEF Fits, TalksFit, Lasting, NoFade, TalkMoves

LEMMA SpendDoes ==
  ASSUME Fits, NEW k \in Counted, Spend(k)
  PROVE  LeftFit' /\ left'[k] < left[k]
<1>1. left[k] \in Nat /\ left[k] > 0 /\ left \in [Counted -> Nat]
  BY DEF Spend, Fits, LeftFit
<1>2. left' = [left EXCEPT ![k] = @ - 1]
  BY DEF Spend
<1>3. left[k] - 1 \in Nat  BY <1>1
<1> QED  BY <1>1, <1>2, <1>3 DEF LeftFit

LEMMA Stands ==
  ASSUME NEW s \in [Actors -> Standings], NEW a \in Actors, NEW v \in Standings
  PROVE  [s EXCEPT ![a] = v] \in [Actors -> Standings]
OBVIOUS

LEMMA RestStands == \A a : AtRest(a) \in Standings
BY DEF AtRest, Standings

-----------------------------------------------------------------------------
(* Opening and inviting *)

LEMMA OpenedDoes ==
  ASSUME Fits, NEW a \in Actors, NEW b \in Actors, a # b, MayOpen(a, b), Opened(a, b)
  PROVE  TalksFit' /\ Lasting /\ NoFade /\ TalkMoves /\ StandingFit' /\ LeftFit'
<1>1. Spend("talk") /\ "talk" \in Counted  BY DEF Opened, Counted
<1>2. /\ talk' = Append(talk, NewTalk(a, b))
      /\ standing' = [standing EXCEPT ![a] = "chatting", ![b] = "chatting"]
  BY DEF Opened, NewTalk
<1>3. Begins(a, b)  BY <1>2 DEF MayOpen, Begins, NewTalk
<1>4. TalkMoves  BY <1>3 DEF TalkMoves
<1>5. talk' \in Seq(Talks) /\ Lasting /\ NoFade  BY <1>2, BeginsDoes DEF Fits
<1>6. StandingFit'  BY <1>2 DEF StandingFit, Standings, Fits
<1> QED  BY <1>1, <1>4, <1>5, <1>6, SpendDoes DEF TalksFit

LEMMA InvitedDoes ==
  ASSUME Fits, NEW a \in Actors, NEW b \in Actors, a # b, Invited(a, b)
  PROVE  InvitesFit' /\ InvitesMove /\ StandingFit' /\ LeftFit'
<1> DEFINE r == [by |-> a, to |-> b, st |-> "pending", asking |-> b # Player]
<1>1. Spend("invite") /\ "invite" \in Counted  BY DEF Invited, Counted
<1>2. invite' = Append(invite, r) /\ standing' = [standing EXCEPT ![a] = "inviting"]
  BY DEF Invited
<1>3. r \in Invites /\ r.by # r.to
  BY DEF Invites
<1> HIDE DEF r
<1>4. /\ invite' \in Seq(Invites) /\ Len(invite) + 1 \notin DOMAIN invite
      /\ DOMAIN invite' = DOMAIN invite \cup {Len(invite) + 1} /\ invite'[Len(invite) + 1] = r
      /\ \A i \in DOMAIN invite : invite'[i] = invite[i]
  BY <1>2, <1>3, SequenceGrows DEF Fits, InvitesFit
<1>5. InvitesFit' /\ InvitesMove  BY <1>3, <1>4 DEF InvitesFit, InvitesMove, Fits
<1>6. StandingFit'  BY <1>2 DEF StandingFit, Standings, Fits
<1> QED  BY <1>1, <1>5, <1>6, SpendDoes

LEMMA CreateMoves ==
  ASSUME Fits, NEW a \in Actors, NEW b \in Actors, Create(a, b)
  PROVE  Moves
<1>1. /\ a # b /\ MayOpen(a, b) /\ Opened(a, b) /\ UNCHANGED dayVars
      /\ UNCHANGED <<invite, join, daily, parting, settling, settled, ending>>
  BY DEF Create, MayInvite, requestVars, leaveVars
<1>2. /\ TalksFit' /\ Lasting /\ NoFade /\ TalkMoves /\ StandingFit' /\ LeftFit'
  BY <1>1, OpenedDoes
<1>3. shut' = shut  BY <1>1 DEF dayVars
<1>4. DayFit' /\ InvitesFit' /\ InvitesMove /\ JoinsFit' /\ JoinsMove /\ SameAdding
      /\ LeavesFit' /\ EndingsFit'
  BY <1>1, <1>2, <1>3, DayStays, InvitesStay, JoinsStay, LeavesStay, EndingsStay
<1>5. OwnersGo /\ OwnersCome  BY <1>1, <1>2, <1>4, OwnersStay
<1>6. DailyFit'  BY <1>1 DEF DailyFit, Fits
<1> QED  BY <1>2, <1>4, <1>5, <1>6 DEF Moves, Fits

\* A step that touches neither the conversations nor the waits.
LEMMA RequestMoves ==
  ASSUME Fits, DayFit', StandingFit', talk' = talk, InvitesFit', InvitesMove, JoinsFit', JoinsMove,
         SameAdding, DailyFit', LeftFit', shut' = shut,
         UNCHANGED <<parting, settling, settled, ending>>
  PROVE  Moves
<1>1. TalksFit' /\ Lasting /\ NoFade /\ TalkMoves  BY SameTalk
<1>2. LeavesFit' /\ EndingsFit'  BY <1>1, LeavesStay, EndingsStay
<1>3. OwnersGo /\ OwnersCome  BY <1>1, OwnersStay
<1> QED  BY <1>1, <1>2, <1>3 DEF Moves, Fits

LEMMA PlayerInviteMoves ==
  ASSUME Fits, NEW n \in NPCs, PlayerInvite(n)
  PROVE  Moves
<1>1. /\ Player \in Actors /\ n \in Actors /\ Player # n /\ Invited(Player, n)
      /\ UNCHANGED <<talk, join, daily, parting, settling, settled, ending>> /\ UNCHANGED dayVars
  BY Constants DEF PlayerInvite, leaveVars
<1>2. InvitesFit' /\ InvitesMove /\ StandingFit' /\ LeftFit'  BY <1>1, InvitedDoes
<1>3. JoinsFit' /\ JoinsMove /\ SameAdding  BY <1>1, SameTalk, JoinsStay
<1>4. DayFit' /\ DailyFit' /\ shut' = shut
  BY <1>1, DayStays DEF Fits, DailyFit, dayVars
<1> QED  BY <1>1, <1>2, <1>3, <1>4, RequestMoves

LEMMA ThinkMoves ==
  ASSUME Fits, NEW n \in NPCs, Think(n)
  PROVE  Moves
<1>1. /\ thought' = thought \cup {n} /\ Spend("thought")
      /\ standing' = [standing EXCEPT ![n] = "waiting"]
      /\ UNCHANGED <<today, hour, shut, talk, invite, join, parting, settling, settled, ending>>
  BY DEF Think, leaveVars
<1>2. n \in Actors /\ "thought" \in Counted  BY Constants DEF Counted
<1>3. DayFit'  BY <1>1 DEF DayFit, Fits
<1>4. StandingFit'  BY <1>1, <1>2 DEF StandingFit, Standings, Fits
<1>5. LeftFit'  BY <1>1, <1>2, SpendDoes
<1>6. DailyFit'
  <2> DEFINE among == {a \in Actors \ {n} :
                           /\ ~Departed(a) /\ ~HasRequest(a)
                           /\ IF Free(a) THEN Cardinality(OpenTalks) < MaxOpen
                                         ELSE ~Full(Place(a))}
             r == [day |-> today, among |-> among]
  <2>1. daily' = IF hour # Open THEN daily ELSE [daily EXCEPT ![n] = r]
    BY DEF Think
  <2>2. among \subseteq Actors  OBVIOUS
  <2> HIDE DEF among
  <2>3. r \in Dailies  BY <2>2 DEF Dailies, Fits, DayFit
  <2> HIDE DEF r
  <2> QED  BY <2>1, <2>3 DEF DailyFit, Fits
<1>7. InvitesFit' /\ InvitesMove /\ JoinsFit' /\ JoinsMove /\ SameAdding
  BY <1>1, SameTalk, JoinsStay, InvitesStay
<1> QED  BY <1>1, <1>3, <1>4, <1>5, <1>6, <1>7, RequestMoves

LEMMA JoinIs ==
  ASSUME Fits, NEW j \in DOMAIN join
  PROVE  /\ join[j] \in Joins /\ join[j].by \in Actors /\ join[j].to \in DOMAIN talk
         /\ join[j].asked \subseteq Actors /\ join[j].yes \subseteq Actors
         /\ join[j].polling \in BOOLEAN /\ join[j].adding \in BOOLEAN
<1>1. join[j] \in Joins  BY LenProperties DEF Fits, JoinsFit
<1> QED  BY <1>1 DEF Joins, Fits, JoinsFit

LEMMA JoinAskedDoes ==
  ASSUME Fits, NEW c \in DOMAIN talk, NEW a \in Actors, JoinAsked(c, a), talk' = talk
  PROVE  JoinsFit' /\ JoinsMove /\ SameAdding /\ StandingFit' /\ LeftFit'
<1> DEFINE r == [by |-> a, to |-> c, asked |-> talk[c].parts, yes |-> {},
                 st |-> "pending", polling |-> TRUE, adding |-> FALSE]
<1>1. Spend("join") /\ "join" \in Counted  BY DEF JoinAsked, Counted
<1>2. join' = Append(join, r) /\ standing' = [standing EXCEPT ![a] = "inviting"]
  BY DEF JoinAsked
<1>3. talk[c].parts \subseteq Actors /\ c \in Nat  BY TalkIs DEF Fits
<1>4. r \in Joins /\ r.to = c /\ r.asked = talk[c].parts /\ ~r.adding
  BY <1>3 DEF Joins
<1> HIDE DEF r
<1>5. /\ join' \in Seq(Joins) /\ Len(join) + 1 \notin DOMAIN join
      /\ DOMAIN join' = DOMAIN join \cup {Len(join) + 1} /\ join'[Len(join) + 1] = r
      /\ \A j \in DOMAIN join : join'[j] = join[j]
  BY <1>2, <1>4, SequenceGrows DEF Fits, JoinsFit
<1>6. JoinsFit'  BY <1>4, <1>5 DEF JoinsFit, Fits
<1>7. JoinsMove /\ SameAdding  BY <1>4, <1>5 DEF JoinsMove, SameAdding
<1>8. StandingFit'  BY <1>2 DEF StandingFit, Standings, Fits
<1> QED  BY <1>1, <1>6, <1>7, <1>8, SpendDoes

LEMMA DailyReturnsMoves ==
  ASSUME Fits, NEW n \in NPCs, DailyReturns(n)
  PROVE  Moves
<1>1. /\ daily' = [daily EXCEPT ![n] = NoDaily] /\ UNCHANGED dayVars
      /\ UNCHANGED <<parting, settling, settled, ending>>
      /\ DailyWaits(n) \/ \E t \in daily[n].among : DailyActs(n, t)
  BY DEF DailyReturns, leaveVars
<1>2. n \in Actors /\ daily[n].among \subseteq Actors
  BY Constants DEF Fits, DailyFit, Dailies
<1>3. NoDaily \in Dailies  BY DEF NoDaily, Dailies
<1>4. DailyFit'  BY <1>1, <1>3 DEF DailyFit, Fits
<1>5. DayFit' /\ shut' = shut  BY <1>1, DayStays DEF dayVars
<1> DEFINE Rests == /\ UNCHANGED <<talk, invite, join, left>>
                    /\ \E v \in Standings : standing' = [standing EXCEPT ![n] = v]
<1>6. ASSUME Rests
      PROVE  Moves
  <2>1. StandingFit'  BY <1>2, <1>6 DEF StandingFit, Fits
  <2>2. LeftFit'  BY <1>6 DEF LeftFit, Fits
  <2>3. InvitesFit' /\ InvitesMove /\ JoinsFit' /\ JoinsMove /\ SameAdding
    BY <1>6, SameTalk, JoinsStay, InvitesStay
  <2> QED  BY <1>1, <1>4, <1>5, <1>6, <2>1, <2>2, <2>3, RequestMoves
<1>7. CASE DailyWaits(n)
  <2>1. Rests  BY <1>7 DEF DailyWaits, Standings
  <2> QED  BY <1>6, <2>1
<1>8. ASSUME NEW t \in Actors, DailyActs(n, t)
      PROVE  Moves
  <2>1. CASE ~Free(n)
    <3>1. UNCHANGED <<standing, talk, invite, join, left>>  BY <1>8, <2>1 DEF DailyActs
    <3>2. standing[n] \in Standings /\ standing' = [standing EXCEPT ![n] = standing[n]]
      BY <1>2, <3>1 DEF Fits, StandingFit
    <3> QED  BY <1>6, <3>1, <3>2
  <2>2. CASE /\ ~Free(t) /\ MayJoin(Place(t), n) /\ JoinAsked(Place(t), n)
             /\ UNCHANGED <<talk, invite>>
    <3>1. Place(t) \in DOMAIN talk  BY <2>2, PlacesAre DEF Fits
    <3>2. JoinsFit' /\ JoinsMove /\ SameAdding /\ StandingFit' /\ LeftFit'
      BY <1>2, <2>2, <3>1, JoinAskedDoes
    <3>3. InvitesFit' /\ InvitesMove  BY <2>2, InvitesStay
    <3> QED  BY <1>1, <1>4, <1>5, <2>2, <3>2, <3>3, RequestMoves
  <2>3. CASE standing' = [standing EXCEPT ![n] = "inviting"] /\ UNCHANGED <<talk, invite, join, left>>
    <3>1. Rests  BY <2>3 DEF Standings
    <3> QED  BY <1>6, <3>1
  <2>4. CASE DailyWaits(n)
    <3>1. Rests  BY <2>4 DEF DailyWaits, Standings
    <3> QED  BY <1>6, <3>1
  <2>5. CASE MayInvite(n, t) /\ Invited(n, t) /\ UNCHANGED <<talk, join>>
    <3>1. n # t  BY <2>5 DEF MayInvite
    <3>2. InvitesFit' /\ InvitesMove /\ StandingFit' /\ LeftFit'  BY <1>2, <2>5, <3>1, InvitedDoes
    <3>3. JoinsFit' /\ JoinsMove /\ SameAdding  BY <2>5, SameTalk, JoinsStay
    <3> QED  BY <1>1, <1>4, <1>5, <2>5, <3>2, <3>3, RequestMoves
  <2> QED  BY <1>8, <2>1, <2>2, <2>3, <2>4, <2>5 DEF DailyActs
<1> QED  BY <1>1, <1>2, <1>7, <1>8

\* An invitation is settled.
LEMMA InviteIs ==
  ASSUME Fits, NEW i \in DOMAIN invite
  PROVE  /\ invite[i] \in Invites /\ invite[i].by \in Actors /\ invite[i].to \in Actors
         /\ invite[i].by # invite[i].to
<1>1. invite[i] \in Invites  BY LenProperties DEF Fits, InvitesFit
<1> QED  BY <1>1 DEF Invites, Fits, InvitesFit

LEMMA InviteChanges ==
  ASSUME Fits, NEW i \in DOMAIN invite, NEW r \in Invites,
         r.by = invite[i].by, r.to = invite[i].to,
         invite[i].st = "pending" \/ r.st = invite[i].st,
         invite' = [invite EXCEPT ![i] = r]
  PROVE  InvitesFit' /\ InvitesMove
<1>0. invite \in Seq(Invites) /\ i \in DOMAIN invite /\ r \in Invites
  BY DEF Fits, InvitesFit
<1>1. /\ invite' \in Seq(Invites) /\ DOMAIN invite' = DOMAIN invite /\ invite'[i] = r
      /\ \A k \in DOMAIN invite : k # i => invite'[k] = invite[k]
  BY <1>0, SequenceChanges
<1>2. \A k \in DOMAIN invite : invite'[k].by # invite'[k].to
  BY <1>1 DEF Fits, InvitesFit
<1> QED  BY <1>1, <1>2 DEF InvitesFit, InvitesMove

LEMMA SettleInviteDoes ==
  ASSUME Fits, NEW i \in DOMAIN invite, invite[i].st = "pending",
         NEW st \in {"accepted", "refused", "expired"},
         invite' = [invite EXCEPT ![i].st = st, ![i].asking = FALSE]
  PROVE  InvitesFit' /\ InvitesMove
<1> DEFINE r == [invite[i] EXCEPT !.st = st, !.asking = FALSE]
<1>1. r \in Invites /\ r.by = invite[i].by /\ r.to = invite[i].to
  BY InviteIs DEF Invites
<1>2. invite' = [invite EXCEPT ![i] = r]  OBVIOUS
<1> HIDE DEF r
<1> QED  BY <1>1, <1>2, InviteChanges

LEMMA AnswerMoves ==
  ASSUME Fits, NEW i \in DOMAIN invite, invite[i].st = "pending",
         UNCHANGED <<join, daily, parting, settling, settled, ending>>, UNCHANGED dayVars,
         AcceptInvite(i) \/ \E st \in {"refused", "expired"} : SettleInvite(i, st)
  PROVE  Moves
<1>1. DayFit' /\ DailyFit' /\ shut' = shut  BY DayStays DEF dayVars, DailyFit, Fits
<1>2. invite[i].by \in Actors /\ invite[i].to \in Actors /\ invite[i].by # invite[i].to
  BY InviteIs
<1>3. CASE AcceptInvite(i) /\ MayOpen(invite[i].by, invite[i].to)
  <2>1. Opened(invite[i].by, invite[i].to)  BY <1>3 DEF AcceptInvite
  <2>2. /\ TalksFit' /\ Lasting /\ NoFade /\ TalkMoves /\ StandingFit' /\ LeftFit'
    BY <1>2, <1>3, <2>1, OpenedDoes
  <2>3. InvitesFit' /\ InvitesMove  BY <1>3, SettleInviteDoes DEF AcceptInvite
  <2>4. JoinsFit' /\ JoinsMove /\ SameAdding  BY <2>2, JoinsStay
  <2>5. LeavesFit' /\ EndingsFit'  BY <1>1, <2>2, LeavesStay, EndingsStay
  <2>6. OwnersGo /\ OwnersCome  BY <2>2, <2>4, OwnersStay
  <2> QED  BY <1>1, <2>2, <2>3, <2>4, <2>5, <2>6 DEF Moves, Fits
<1>4. CASE AcceptInvite(i) /\ ~MayOpen(invite[i].by, invite[i].to)
  <2>1. UNCHANGED <<standing, talk, left>>  BY <1>4 DEF AcceptInvite
  <2>2. InvitesFit' /\ InvitesMove  BY <1>4, SettleInviteDoes DEF AcceptInvite
  <2>3. JoinsFit' /\ JoinsMove /\ SameAdding  BY <2>1, SameTalk, JoinsStay
  <2>4. StandingFit' /\ LeftFit'  BY <2>1 DEF StandingFit, LeftFit, Fits
  <2> QED  BY <1>1, <2>1, <2>2, <2>3, <2>4, RequestMoves
<1>5. ASSUME NEW st \in {"refused", "expired"}, SettleInvite(i, st)
      PROVE  Moves
  <2>1. UNCHANGED <<talk, left>>  BY <1>5 DEF SettleInvite
  <2>2. InvitesFit' /\ InvitesMove  BY <1>5, SettleInviteDoes DEF SettleInvite
  <2>3. JoinsFit' /\ JoinsMove /\ SameAdding  BY <2>1, SameTalk, JoinsStay
  <2>4. StandingFit' /\ LeftFit'
    BY <1>2, <1>5, RestStands DEF SettleInvite, StandingFit, LeftFit, Fits
  <2> QED  BY <1>1, <2>1, <2>2, <2>3, <2>4, RequestMoves
<1> QED  BY <1>3, <1>4, <1>5

LEMMA InviteAnsweredMoves ==
  ASSUME Fits, NEW i \in DOMAIN invite, InviteAnswered(i)
  PROVE  Moves
<1>1. UNCHANGED <<join, daily, parting, settling, settled, ending>> /\ UNCHANGED dayVars
  BY DEF InviteAnswered, leaveVars
<1>2. CASE invite[i].st = "pending"
  <2>1. AcceptInvite(i) \/ \E st \in {"refused", "expired"} : SettleInvite(i, st)
    BY <1>2 DEF InviteAnswered
  <2> QED  BY <1>1, <1>2, <2>1, AnswerMoves
<1>3. CASE invite[i].st # "pending"
  <2>1. invite' = [invite EXCEPT ![i].asking = FALSE] /\ UNCHANGED <<standing, talk, left>>
    BY <1>3 DEF InviteAnswered
  <2> DEFINE r == [invite[i] EXCEPT !.asking = FALSE]
  <2>2. r \in Invites /\ r.by = invite[i].by /\ r.to = invite[i].to /\ r.st = invite[i].st
    BY InviteIs DEF Invites
  <2>3. invite' = [invite EXCEPT ![i] = r]  BY <2>1
  <2> HIDE DEF r
  <2>4. InvitesFit' /\ InvitesMove  BY <2>2, <2>3, InviteChanges
  <2>5. JoinsFit' /\ JoinsMove /\ SameAdding  BY <1>1, <2>1, SameTalk, JoinsStay
  <2>6. DayFit' /\ DailyFit' /\ shut' = shut  BY <1>1, DayStays DEF dayVars, DailyFit, Fits
  <2>7. StandingFit' /\ LeftFit'  BY <2>1 DEF StandingFit, LeftFit, Fits
  <2> QED  BY <1>1, <2>1, <2>4, <2>5, <2>6, <2>7, RequestMoves
<1> QED  BY <1>2, <1>3

LEMMA RespondInvitationMoves ==
  ASSUME Fits, NEW i \in DOMAIN invite, RespondInvitation(i)
  PROVE  Moves
<1>1. UNCHANGED <<join, daily, parting, settling, settled, ending>> /\ UNCHANGED dayVars
  BY DEF RespondInvitation, leaveVars
<1>2. invite[i].st = "pending" /\ (AcceptInvite(i) \/ SettleInvite(i, "refused"))
  BY DEF RespondInvitation
<1> QED  BY <1>1, <1>2, AnswerMoves

-----------------------------------------------------------------------------
(* Joining *)

LEMMA RequestJoinMoves ==
  ASSUME Fits, NEW c \in DOMAIN talk, NEW a \in Actors, RequestJoin(c, a)
  PROVE  Moves
<1>1. /\ JoinAsked(c, a) /\ UNCHANGED dayVars
      /\ UNCHANGED <<talk, invite, daily, parting, settling, settled, ending>>
  BY DEF RequestJoin, leaveVars
<1>2. JoinsFit' /\ JoinsMove /\ SameAdding /\ StandingFit' /\ LeftFit'  BY <1>1, JoinAskedDoes
<1>3. InvitesFit' /\ InvitesMove  BY <1>1, InvitesStay
<1>4. DayFit' /\ DailyFit' /\ shut' = shut  BY <1>1, DayStays DEF dayVars, DailyFit, Fits
<1> QED  BY <1>1, <1>2, <1>3, <1>4, RequestMoves

\* r is request j as an answer leaves it
Answers(r, j) ==
    /\ r \in Joins /\ r.by = join[j].by /\ r.to = join[j].to /\ r.asked = join[j].asked
    /\ r.adding = join[j].adding
    /\ join[j].st # "pending" => r.st = join[j].st

OnlyJoins == UNCHANGED <<invite, daily, parting, settling, settled, ending, left>> /\ UNCHANGED dayVars

LEMMA JoinChanges ==
  ASSUME Fits, Lasting, NEW j \in DOMAIN join, NEW r \in Joins,
         r.by = join[j].by, r.to = join[j].to, r.asked = join[j].asked,
         join[j].st # "pending" => r.st = join[j].st,
         join' = [join EXCEPT ![j] = r]
  PROVE  /\ JoinsFit' /\ JoinsMove /\ DOMAIN join' = DOMAIN join /\ join'[j] = r
         /\ \A k \in DOMAIN join : k # j => join'[k] = join[k]
<1>0. join \in Seq(Joins) /\ j \in DOMAIN join /\ r \in Joins
  BY DEF Fits, JoinsFit
<1>1. /\ join' \in Seq(Joins) /\ DOMAIN join' = DOMAIN join /\ join'[j] = r
      /\ \A k \in DOMAIN join : k # j => join'[k] = join[k]
  BY <1>0, SequenceChanges
<1>2. \A k \in DOMAIN join : join'[k].to \in DOMAIN talk'
  BY <1>1 DEF Fits, JoinsFit, Lasting
<1>3. JoinsMove  BY <1>1 DEF JoinsMove
<1> QED  BY <1>1, <1>2, <1>3 DEF JoinsFit

LEMMA OnlyJoinsMoves ==
  ASSUME Fits, OnlyJoins, TalksFit', Lasting, TalkMoves, StandingFit', JoinsFit', JoinsMove,
         OwnersGo, OwnersCome
  PROVE  Moves
<1>1. /\ UNCHANGED <<invite, daily, parting, settling, settled, ending, left>>
      /\ UNCHANGED dayVars /\ shut' = shut
  BY DEF OnlyJoins, dayVars
<1>2. DayFit' /\ InvitesFit' /\ InvitesMove /\ LeavesFit' /\ EndingsFit'
  BY <1>1, DayStays, InvitesStay, LeavesStay, EndingsStay
<1>3. DailyFit' /\ LeftFit'  BY <1>1 DEF DailyFit, LeftFit, Fits
<1> QED  BY <1>2, <1>3 DEF Moves, Fits

\* The request changes, and nothing else but the standing of its applicant.
LEMMA AnsweredMoves ==
  ASSUME Fits, OnlyJoins, NEW j \in DOMAIN join, NEW r, Answers(r, j),
         join' = [join EXCEPT ![j] = r], talk' = talk, StandingFit'
  PROVE  Moves
<1>1. TalksFit' /\ Lasting /\ NoFade /\ TalkMoves  BY SameTalk
<1>2. /\ JoinsFit' /\ JoinsMove /\ join'[j] = r
      /\ \A k \in DOMAIN join : k # j => join'[k] = join[k]
  BY <1>1, JoinChanges DEF Answers
<1>3. SameAdding  BY <1>2 DEF SameAdding, Answers
<1>4. OwnersGo /\ OwnersCome  BY <1>1, <1>2, <1>3, OwnersStay DEF OnlyJoins
<1> QED  BY <1>1, <1>2, <1>4, OnlyJoinsMoves

LEMMA UnsettledMoves ==
  ASSUME Fits, OnlyJoins, NEW j \in DOMAIN join, NEW r, Answers(r, j), Unsettled(r, j)
  PROVE  Moves
<1>1. join' = [join EXCEPT ![j] = r] /\ talk' = talk /\ standing' = standing
  BY DEF Unsettled
<1>2. StandingFit'  BY <1>1 DEF StandingFit, Fits
<1> QED  BY <1>1, <1>2, AnsweredMoves

LEMMA DeniedMoves ==
  ASSUME Fits, OnlyJoins, NEW j \in DOMAIN join, NEW r, Answers(r, j), join[j].st = "pending",
         NEW st \in {"refused", "expired"}, Denied(r, j, st)
  PROVE  Moves
<1> DEFINE s == [r EXCEPT !.st = st]
<1>1. Answers(s, j)  BY DEF Answers, Joins
<1>2. join' = [join EXCEPT ![j] = s] /\ talk' = talk
  BY DEF Denied
<1>3. StandingFit'
  <2>1. r.by \in Actors  BY DEF Answers, Joins
  <2> QED  BY <2>1, RestStands DEF Denied, StandingFit, Fits
<1> HIDE DEF s
<1> QED  BY <1>1, <1>2, <1>3, AnsweredMoves

\* The applicant is added, or the join raises: if its request was still waiting, there was
\* nothing for it to start.
LEMMA AddedMoves ==
  ASSUME Fits, OnlyJoins, NEW j \in DOMAIN join, NEW r, Answers(r, j),
         Free(r.by) \/ join[j].adding, Added(r, j)
  PROVE  Moves
<1> DEFINE s == [r EXCEPT !.adding = FALSE]
           c == join[j].to
           a == join[j].by
<1>1. /\ s \in Joins /\ s.by = a /\ s.to = c /\ s.asked = join[j].asked
      /\ s.adding = FALSE /\ s.st = r.st
  BY DEF Answers, Joins
<1>2. join[j].st # "pending" => s.st = join[j].st
  BY <1>1 DEF Answers
<1>3. join' = [join EXCEPT ![j] = s]
  BY DEF Added
<1>4. r.by = a /\ r.to = c  BY DEF Answers
<1>5. c \in DOMAIN talk /\ a \in Actors  BY JoinIs
<1> HIDE DEF s
<1>6. ASSUME Lasting
      PROVE  /\ JoinsFit' /\ JoinsMove /\ DOMAIN join' = DOMAIN join /\ ~join'[j].adding
             /\ \A k \in DOMAIN join : k # j => join'[k] = join[k]
  BY <1>1, <1>2, <1>3, <1>6, JoinChanges
<1> DEFINE room == talk[c].open /\ a \notin talk[c].parts /\ ~Full(c)
<1>7. CASE room
  <2>1. /\ talk' = [talk EXCEPT ![c].parts = @ \cup {a}, ![c].runs = TRUE]
        /\ standing' = [standing EXCEPT ![a] = "chatting"]
    BY <1>4, <1>7 DEF Added
  <2>2. talk[c].open  BY <1>7
  <2>3. talk' \in Seq(Talks) /\ Lasting /\ NoFade /\ talk'[c].runs
    BY <1>5, <2>1, <2>2, GainsDoes DEF Fits
  <2>4. /\ JoinsFit' /\ JoinsMove /\ DOMAIN join' = DOMAIN join /\ ~join'[j].adding
        /\ \A k \in DOMAIN join : k # j => join'[k] = join[k]
    BY <1>6, <2>3
  <2>5. Free(a) \/ LateJoin(a)
    BY <1>4, <2>4 DEF LateJoin
  <2>6. TalkMoves  BY <1>5, <1>7, <2>1, <2>5 DEF TalkMoves, Gains
  <2>7. StandingFit'  BY <1>5, <2>1 DEF StandingFit, Standings, Fits
  <2>8. OwnersGo  BY <2>3, <2>4 DEF OwnersGo, OnlyJoins
  <2>9. NoNewOwner  BY <2>4 DEF NoNewOwner, OnlyJoins
  <2>10. OwnersCome  BY <2>3, <2>4, <2>9, NoneComes
  <2> QED  BY <2>3, <2>4, <2>6, <2>7, <2>8, <2>10, OnlyJoinsMoves DEF TalksFit
<1>8. CASE ~room
  <2>1. talk' = talk /\ standing' = standing
    BY <1>4, <1>8 DEF Added
  <2>2. TalksFit' /\ Lasting /\ NoFade /\ TalkMoves  BY <2>1, SameTalk
  <2>3. /\ JoinsFit' /\ JoinsMove /\ DOMAIN join' = DOMAIN join /\ ~join'[j].adding
        /\ \A k \in DOMAIN join : k # j => join'[k] = join[k]
    BY <1>6, <2>2
  <2>4. StandingFit'  BY <2>1 DEF StandingFit, Fits
  <2>5. OwnersGo  BY <1>8, <2>1, <2>3 DEF OwnersGo, OnlyJoins
  <2>6. NoNewOwner  BY <2>3 DEF NoNewOwner, OnlyJoins
  <2>7. OwnersCome  BY <2>2, <2>3, <2>6, NoneComes
  <2> QED  BY <2>2, <2>3, <2>4, <2>5, <2>7, OnlyJoinsMoves
<1> QED  BY <1>7, <1>8

\* Accepted: the segment ends, and the applicant waits for its summary.
LEMMA AddingMoves ==
  ASSUME Fits, OnlyJoins, NEW j \in DOMAIN join, NEW r, Answers(r, j), join[j].st = "pending",
         talk[r.to].open, ~Full(r.to), Free(r.by),
         join' = [join EXCEPT ![j] = [[r EXCEPT !.st = "accepted"] EXCEPT !.adding = TRUE]],
         talk' = [talk EXCEPT ![r.to].runs = FALSE], standing' = standing
  PROVE  Moves
<1> DEFINE s == [[r EXCEPT !.st = "accepted"] EXCEPT !.adding = TRUE]
<1>0. PICK c \in DOMAIN talk, a \in Actors : c = join[j].to /\ a = join[j].by
  BY JoinIs
<1>1. s \in Joins /\ s.by = a /\ s.to = c /\ s.asked = join[j].asked /\ s.adding = TRUE
  BY <1>0 DEF Answers, Joins
<1>2. r.by = a /\ r.to = c  BY <1>0 DEF Answers
<1>4. talk \in Seq(Talks)  BY DEF Fits, TalksFit
<1>5. talk' = Ended(talk, c)  BY <1>2 DEF Ended
<1>6. /\ talk' \in Seq(Talks) /\ DOMAIN talk' = DOMAIN talk
      /\ \A x \in DOMAIN talk : x # c => talk'[x] = talk[x]
      /\ talk'[c].parts = talk[c].parts /\ talk'[c].open = talk[c].open /\ talk'[c].runs = FALSE
  <2>1. talk \in Seq(Talks) /\ c \in DOMAIN talk  BY <1>4
  <2> QED  BY ONLY <1>5, <2>1, SegmentEnds
<1>7. Lasting  BY <1>6 DEF Lasting
<1>8. Fades  BY <1>6 DEF Fades
<1>9. TalkMoves  BY <1>8 DEF TalkMoves
<1> HIDE DEF s
<1>10. /\ JoinsFit' /\ JoinsMove /\ DOMAIN join' = DOMAIN join /\ join'[j] = s
       /\ \A k \in DOMAIN join : k # j => join'[k] = join[k]
  <2>1. join' = [join EXCEPT ![j] = s]  BY DEF s
  <2>2. /\ Fits /\ Lasting /\ j \in DOMAIN join /\ s \in Joins
        /\ s.by = join[j].by /\ s.to = join[j].to /\ s.asked = join[j].asked
        /\ (join[j].st # "pending" => s.st = join[j].st)
    BY <1>0, <1>1, <1>7
  <2> QED  BY ONLY <2>1, <2>2, JoinChanges
<1>11. OwnersGo  BY <1>1, <1>10 DEF OwnersGo, OnlyJoins
<1>12. Restarting(c)'
  <2>1. a \notin talk[c].parts
    BY <1>2 DEF Free, Places, OpenTalks
  <2>2. ~Full(c)'  BY <1>2, <1>6 DEF Full
  <2> QED  BY <1>1, <1>6, <1>10, <2>1, <2>2 DEF Restarting
<1>13. OwnersCome
  <2> SUFFICES ASSUME NEW x \in DOMAIN talk, x # c, ~talk'[x].runs,
                      ~(~talk[x].runs /\ (Awaited(x) \/ ~Awaited(x)'))
               PROVE  FALSE
    BY <1>6, <1>12 DEF OwnersCome
  <2>1. talk'[x] = talk[x]  BY <1>6
  <2>2. Awaited(x)' /\ ~Awaited(x)  BY <2>1
  <2>3. ~\E k \in DOMAIN join' : join'[k].to = x /\ join'[k].adding
    BY <1>1, <1>10, <2>2 DEF Awaited
  <2>4. parting' = parting /\ ending' = ending  BY DEF OnlyJoins
  <2> QED  BY <2>2, <2>3, <2>4 DEF Awaited
<1>14. StandingFit'  BY DEF StandingFit, Fits
<1> QED  BY <1>6, <1>7, <1>9, <1>10, <1>11, <1>13, <1>14, OnlyJoinsMoves DEF TalksFit

LEMMA ResolveMoves ==
  ASSUME Fits, OnlyJoins, NEW j \in DOMAIN join, NEW r, Answers(r, j), join[j].st = "pending",
         Resolve(r, j)
  PROVE  Moves
<1> DEFINE yes == [r EXCEPT !.st = "accepted"]
<1>1. CASE r.yes # r.asked
  <2>1. Unsettled(r, j)  BY <1>1 DEF Resolve
  <2> QED  BY <2>1, UnsettledMoves
<1> DEFINE late == \/ hour # Open \/ ~talk[r.to].open \/ Full(r.to) \/ talk[r.to].parts # r.asked
                   \/ ~Free(r.by) \/ Departed(r.by)
<1>2. CASE r.yes = r.asked /\ late
  <2>1. Denied(r, j, "expired")  BY <1>2 DEF Resolve
  <2> QED  BY <2>1, DeniedMoves
<1>3. CASE r.yes = r.asked /\ ~late
  <2>1. Answers(yes, j) /\ yes.by = r.by /\ yes.to = r.to  BY DEF Answers, Joins
  <2>2. Free(r.by) /\ talk[r.to].open /\ ~Full(r.to)  BY <1>3
  <2>3. \/ Unsettled(yes, j)
        \/ Added(yes, j)
        \/ /\ join' = [join EXCEPT ![j] = [yes EXCEPT !.adding = TRUE]]
           /\ talk' = [talk EXCEPT ![r.to].runs = FALSE]
           /\ UNCHANGED standing
    BY <1>3 DEF Resolve
  <2>4. CASE Unsettled(yes, j)  BY <2>1, <2>4, UnsettledMoves
  <2>5. CASE Added(yes, j)  BY <2>1, <2>2, <2>5, AddedMoves
  <2>6. CASE /\ join' = [join EXCEPT ![j] = [yes EXCEPT !.adding = TRUE]]
             /\ talk' = [talk EXCEPT ![r.to].runs = FALSE]
             /\ UNCHANGED standing
    BY <2>2, <2>6, AddingMoves
  <2> QED  BY <2>3, <2>4, <2>5, <2>6
<1> QED  BY <1>1, <1>2, <1>3

LEMMA PollReturnsMoves ==
  ASSUME Fits, NEW j \in DOMAIN join, PollReturns(j)
  PROVE  Moves
<1> DEFINE r == [join[j] EXCEPT !.polling = FALSE]
           r2 == [r EXCEPT !.yes = @ \cup (r.asked \ {Player})]
<1>1. OnlyJoins  BY DEF PollReturns, OnlyJoins, leaveVars
<1>2. Answers(r, j)  BY JoinIs DEF Answers, Joins
<1>3. Answers(r2, j)  BY JoinIs DEF Answers, Joins
<1>4. r.st = join[j].st  BY JoinIs DEF Joins
<1>5. \/ Unsettled(r, j)
      \/ join[j].st = "pending" /\ Denied(r, j, "refused")
      \/ join[j].st = "pending" /\ Resolve(r2, j)
  BY <1>4 DEF PollReturns
<1> HIDE DEF r, r2
<1> QED  BY <1>1, <1>2, <1>3, <1>5, UnsettledMoves, DeniedMoves, ResolveMoves

LEMMA RespondJoinMoves ==
  ASSUME Fits, NEW j \in DOMAIN join, RespondJoin(j)
  PROVE  Moves
<1> DEFINE r == [join[j] EXCEPT !.yes = @ \cup {Player}]
<1>1. OnlyJoins  BY DEF RespondJoin, OnlyJoins, leaveVars
<1>2. Answers(join[j], j)  BY JoinIs DEF Answers
<1>3. Answers(r, j)  BY JoinIs, Constants DEF Answers, Joins
<1>4. join[j].st = "pending" /\ (Denied(join[j], j, "refused") \/ Resolve(r, j))
  BY DEF RespondJoin
<1> HIDE DEF r
<1> QED  BY <1>1, <1>2, <1>3, <1>4, DeniedMoves, ResolveMoves

LEMMA JoinSummarisedMoves ==
  ASSUME Fits, NEW j \in DOMAIN join, JoinSummarised(j)
  PROVE  Moves
<1>1. OnlyJoins  BY DEF JoinSummarised, OnlyJoins, leaveVars
<1>2. Answers(join[j], j)  BY JoinIs DEF Answers
<1>3. join[j].adding /\ Added(join[j], j)  BY DEF JoinSummarised
<1> QED  BY <1>1, <1>2, <1>3, AddedMoves

-----------------------------------------------------------------------------
(* Leaving *)

\* No request for c is left pending.
LEMMA ExpireDoes ==
  ASSUME Fits, Lasting, NEW c, join' = ExpireFor(c)
  PROVE  /\ JoinsFit' /\ JoinsMove /\ SameAdding
         /\ \A j \in DOMAIN join' : join'[j].st = "pending" => join'[j].to # c
<1> DEFINE r(j) == [join[j] EXCEPT !.st = "expired"]
<1>1. Len(join) \in Nat /\ DOMAIN join = 1..Len(join) /\ \A j \in DOMAIN join : join[j] \in Joins
  BY LenProperties DEF Fits, JoinsFit
<1>2. \A j \in DOMAIN join :
         /\ r(j) \in Joins /\ r(j).by = join[j].by /\ r(j).to = join[j].to
         /\ r(j).asked = join[j].asked /\ r(j).adding = join[j].adding /\ r(j).st = "expired"
  BY <1>1 DEF Joins
<1>3. DOMAIN join' = DOMAIN join /\ \A j \in DOMAIN join : join'[j] = IF j \in PendingFor(c) THEN r(j) ELSE join[j]
  BY DEF ExpireFor
<1> HIDE DEF r
<1>4. join' \in Seq(Joins)
  <2>1. join' \in [1..Len(join) -> Joins]
    <3>1. join' = [j \in DOMAIN join |-> join'[j]]
      BY DEF ExpireFor
    <3> QED  BY <1>1, <1>2, <1>3, <3>1
  <2> QED  BY <1>1, <2>1, SequenceOf
<1>5. \A j \in DOMAIN join : /\ join'[j].by = join[j].by /\ join'[j].to = join[j].to
                             /\ join'[j].asked = join[j].asked /\ join'[j].adding = join[j].adding
                             /\ join[j].st # "pending" => join'[j].st = join[j].st
                             /\ join'[j].st = "pending" => join'[j].to # c
  BY <1>2, <1>3 DEF PendingFor
<1>6. \A j \in DOMAIN join' : join'[j].to \in DOMAIN talk'
  BY <1>3, <1>5 DEF Fits, JoinsFit, Lasting
<1>7. JoinsMove  BY <1>3, <1>5 DEF JoinsMove
<1> QED  BY <1>3, <1>4, <1>5, <1>6, <1>7 DEF JoinsFit, SameAdding

LEMMA RestDoes ==
  ASSUME NEW s \in [Actors -> Standings], NEW c
  PROVE  RestFor(s, c) \in [Actors -> Standings]
BY RestStands DEF RestFor

LEMMA AfterDoes ==
  ASSUME NEW s \in [Actors -> Standings], NEW c, NEW n \in Actors,
         NEW t \in AfterConsolidation(s, c, n)
  PROVE  t \in [Actors -> Standings]
BY DEF AfterConsolidation, Standings

\* What a leave does besides the conversations, the requests and the leaves.
LeaveOnly == UNCHANGED <<invite, daily, ending>> /\ UNCHANGED dayVars

LEMMA LeaveMoves ==
  ASSUME Fits, LeaveOnly, TalksFit', Lasting, TalkMoves, StandingFit', JoinsFit', JoinsMove,
         LeavesFit', LeftFit', OwnersGo, OwnersCome
  PROVE  Moves
<1>1. UNCHANGED <<invite, daily, ending>> /\ UNCHANGED dayVars /\ shut' = shut
  BY DEF LeaveOnly, dayVars
<1>2. DayFit' /\ InvitesFit' /\ InvitesMove /\ EndingsFit'
  BY <1>1, DayStays, InvitesStay, EndingsStay
<1>3. DailyFit'  BY <1>1 DEF DailyFit, Fits
<1> QED  BY <1>2, <1>3 DEF Moves, Fits

LEMMA RemovedDoes ==
  ASSUME Fits, NEW c \in DOMAIN talk, NEW n \in NPCs, Removed(c, n)
  PROVE  /\ TalksFit' /\ Lasting /\ NoFade /\ TalkMoves /\ StandingFit'
         /\ JoinsFit' /\ JoinsMove /\ SameAdding /\ DOMAIN talk' = DOMAIN talk
         /\ talk'[c].open => talk'[c].runs
         /\ settling' \subseteq Settlings /\ \A s \in settling' : s.of \in DOMAIN talk'
<1>1. n \in Actors /\ talk' = Without(c, n) /\ join' = ExpireFor(c)
  BY Constants DEF Removed
<1>2. /\ talk' \in Seq(Talks) /\ Lasting /\ NoFade /\ DOMAIN talk' = DOMAIN talk
      /\ talk'[c].open => talk'[c].runs
  BY <1>1, LosesDoes DEF Fits
<1>3. /\ JoinsFit' /\ JoinsMove /\ SameAdding
      /\ \A j \in DOMAIN join' : join'[j].st = "pending" => join'[j].to # c
  BY <1>1, <1>2, ExpireDoes
<1>4. TalkMoves  BY <1>1, <1>3 DEF TalkMoves, Loses
<1>5. StandingFit'
  <2>1. standing' = [RestFor(standing, c) EXCEPT ![n] = "waiting"]  BY DEF Removed
  <2>2. RestFor(standing, c) \in [Actors -> Standings]  BY RestDoes DEF Fits, StandingFit
  <2>3. "waiting" \in Standings  BY DEF Standings
  <2> QED  BY <1>1, <2>1, <2>2, <2>3, Stands DEF StandingFit
<1> DEFINE r == [of |-> c, who |-> n, rest |-> {}, as |-> "leaver"]
<1>6. settling' = settling \cup {r}
  BY DEF Removed
<1>7. r \in Settlings /\ r.of = c
  BY TalkIs DEF Settlings, Fits
<1> HIDE DEF r
<1>8. settling' \subseteq Settlings /\ \A s \in settling' : s.of \in DOMAIN talk'
  BY <1>2, <1>6, <1>7 DEF Fits, LeavesFit
<1> QED  BY <1>2, <1>3, <1>4, <1>5, <1>8 DEF TalksFit

LEMMA LeavesMoves ==
  ASSUME Fits, NEW c \in DOMAIN talk, NEW n \in NPCs, Leave(c, n)
  PROVE  Moves
<1>1. /\ n \in talk[c].parts /\ Spend("leave") /\ "leave" \in Counted /\ settled' = settled
      /\ UNCHANGED <<invite, daily, ending>> /\ UNCHANGED dayVars
  BY DEF Leave, Counted
<1>2. LeaveOnly  BY <1>1 DEF LeaveOnly
<1>3. LeftFit'  BY <1>1, SpendDoes
<1>4. CASE Removed(c, n) /\ UNCHANGED parting
  <2>1. /\ TalksFit' /\ Lasting /\ NoFade /\ TalkMoves /\ StandingFit'
        /\ JoinsFit' /\ JoinsMove /\ SameAdding /\ DOMAIN talk' = DOMAIN talk
        /\ settling' \subseteq Settlings /\ \A s \in settling' : s.of \in DOMAIN talk'
    BY <1>4, RemovedDoes
  <2>2. LeavesFit'  BY <1>1, <1>4, <2>1 DEF LeavesFit, Fits
  <2>3. OwnersGo /\ OwnersCome  BY <1>1, <1>4, <2>1, OwnersStay
  <2> QED  BY <1>2, <1>3, <2>1, <2>2, <2>3, LeaveMoves
<1>5. CASE /\ parting' = parting \cup {<<c, n>>}
           /\ talk' = [talk EXCEPT ![c].runs = FALSE]
           /\ UNCHANGED <<standing, join, settling>>
  <2>1. talk \in Seq(Talks) /\ c \in DOMAIN talk /\ talk' = Ended(talk, c)
    BY <1>5 DEF Fits, TalksFit, Ended
  <2>2. /\ talk' \in Seq(Talks) /\ DOMAIN talk' = DOMAIN talk
        /\ \A x \in DOMAIN talk : x # c => talk'[x] = talk[x]
        /\ talk'[c].parts = talk[c].parts /\ talk'[c].open = talk[c].open /\ talk'[c].runs = FALSE
    BY ONLY <2>1, SegmentEnds
  <2>3. Lasting /\ Fades  BY <2>2 DEF Lasting, Fades
  <2>4. TalkMoves  BY <2>3 DEF TalkMoves
  <2>5. JoinsFit' /\ JoinsMove /\ SameAdding  BY <1>5, <2>3, JoinsStay
  <2>6. StandingFit'  BY <1>5 DEF StandingFit, Fits
  <2>7. LeavesFit'  BY <1>1, <1>5, <2>2 DEF LeavesFit, Fits
  <2>8. OwnersGo  BY <1>1, <1>5, <2>5 DEF OwnersGo, SameAdding
  <2>9. Restarting(c)'  BY <1>1, <1>5, <2>2 DEF Restarting
  <2>10. OwnersCome
    <3> SUFFICES ASSUME NEW x \in DOMAIN talk, x # c, ~talk'[x].runs,
                        ~(~talk[x].runs /\ (Awaited(x) \/ ~Awaited(x)'))
                 PROVE  FALSE
      BY <2>2, <2>9 DEF OwnersCome
    <3>1. talk'[x] = talk[x]  BY <2>2
    <3>2. Awaited(x)' /\ ~Awaited(x)  BY <3>1
    <3>3. ~\E m \in NPCs : <<x, m>> \in parting'
      BY <1>5, <3>2 DEF Awaited
    <3>4. join' = join /\ ending' = ending  BY <1>1, <1>5
    <3> QED  BY <3>2, <3>3, <3>4 DEF Awaited
  <2> QED  BY <1>2, <1>3, <2>2, <2>3, <2>4, <2>5, <2>6, <2>7, <2>8, <2>10, LeaveMoves DEF TalksFit
<1> QED  BY <1>4, <1>5 DEF Leave

LEMMA LeaveSummarisedMoves ==
  ASSUME Fits, NEW c \in DOMAIN talk, NEW n \in NPCs, LeaveSummarised(c, n)
  PROVE  Moves
<1>1. /\ parting' = parting \ {<<c, n>>} /\ settled' = settled /\ left' = left
      /\ UNCHANGED <<invite, daily, ending>> /\ UNCHANGED dayVars
  BY DEF LeaveSummarised
<1>2. LeaveOnly  BY <1>1 DEF LeaveOnly
<1>3. LeftFit'  BY <1>1 DEF LeftFit, Fits
<1>4. /\ TalksFit' /\ Lasting /\ NoFade /\ TalkMoves /\ StandingFit'
      /\ JoinsFit' /\ JoinsMove /\ SameAdding /\ DOMAIN talk' = DOMAIN talk
      /\ n \in talk[c].parts => (talk'[c].open => talk'[c].runs)
      /\ settling' \subseteq Settlings /\ \A s \in settling' : s.of \in DOMAIN talk'
  <2>1. CASE n \in talk[c].parts
    <3>1. Removed(c, n)  BY <2>1 DEF LeaveSummarised
    <3> QED  BY <3>1, RemovedDoes
  <2>2. CASE n \notin talk[c].parts
    <3>1. UNCHANGED <<talk, join, standing, settling>>  BY <2>2 DEF LeaveSummarised
    <3>2. TalksFit' /\ Lasting /\ NoFade /\ TalkMoves  BY <3>1, SameTalk
    <3>3. JoinsFit' /\ JoinsMove /\ SameAdding  BY <3>1, <3>2, JoinsStay
    <3>4. StandingFit' /\ settling' \subseteq Settlings /\ \A s \in settling' : s.of \in DOMAIN talk'
      BY <3>1 DEF StandingFit, LeavesFit, Fits
    <3> QED  BY <2>2, <3>1, <3>2, <3>3, <3>4
  <2> QED  BY <2>1, <2>2
<1>5. LeavesFit'  BY <1>1, <1>4 DEF LeavesFit, Fits
<1>6. OwnersGo
  <2>1. ASSUME NEW x \in DOMAIN talk, NEW m \in NPCs, <<x, m>> \in parting, <<x, m>> \notin parting'
        PROVE  talk'[x].runs \/ ~talk'[x].open \/ m \notin talk[x].parts
    <3>1. x = c /\ m = n  BY <1>1, <2>1
    <3> QED  BY <1>4, <3>1
  <2> QED  BY <1>1, <1>4, <2>1 DEF OwnersGo, SameAdding
<1>7. NoNewOwner  BY <1>1, <1>4 DEF NoNewOwner, SameAdding
<1>8. OwnersCome  BY <1>4, <1>7, NoneComes
<1> QED  BY <1>2, <1>3, <1>4, <1>5, <1>6, <1>8, LeaveMoves

LEMMA PlayerLeavesMoves ==
  ASSUME Fits, NEW c \in DOMAIN talk, PlayerLeaves(c)
  PROVE  Moves
<1> DEFINE alone == IF talk'[c].open THEN {} ELSE talk'[c].parts
           owed(n) == [of |-> c, who |-> n, rest |-> {}, as |-> "owed"]
<1>1. /\ talk' = Without(c, Player) /\ join' = ExpireFor(c)
      /\ Spend("leave") /\ "leave" \in Counted
      /\ UNCHANGED <<invite, daily, parting, settled, ending>> /\ UNCHANGED dayVars
  BY DEF PlayerLeaves, Counted
<1>2. /\ standing' = [a \in Actors |-> IF a = Player THEN "present"
                                       ELSE IF a \in alone THEN "waiting" ELSE RestFor(standing, c)[a]]
      /\ settling' = settling \cup {owed(n) : n \in alone}
  BY DEF PlayerLeaves
<1>3. /\ talk' \in Seq(Talks) /\ Lasting /\ NoFade /\ DOMAIN talk' = DOMAIN talk
      /\ talk'[c].parts = talk[c].parts \ {Player}
  BY <1>1, Constants, LosesDoes DEF Fits
<1>4. alone \subseteq NPCs
  <2>1. talk[c].parts \subseteq Actors  BY TalkIs DEF Fits
  <2> QED  BY <1>3, <2>1, Constants
<1> HIDE DEF alone
<1>5. LeaveOnly  BY <1>1 DEF LeaveOnly
<1>6. LeftFit'  BY <1>1, SpendDoes
<1>7. /\ JoinsFit' /\ JoinsMove /\ SameAdding
      /\ \A j \in DOMAIN join' : join'[j].st = "pending" => join'[j].to # c
  BY <1>1, <1>3, ExpireDoes
<1>8. TalkMoves  BY <1>1, <1>7, Constants DEF TalkMoves, Loses
<1>9. StandingFit'
  <2>1. RestFor(standing, c) \in [Actors -> Standings]  BY RestDoes DEF Fits, StandingFit
  <2>2. "present" \in Standings /\ "waiting" \in Standings  BY DEF Standings
  <2> QED  BY <1>2, <2>1, <2>2 DEF StandingFit
<1>10. LeavesFit'
  <2>1. c \in Nat  BY TalkIs DEF Fits
  <2>2. \A n \in alone : owed(n) \in Settlings /\ owed(n).of = c
    BY <1>4, <2>1 DEF Settlings
  <2> HIDE DEF owed
  <2>3. settling' \subseteq Settlings /\ \A s \in settling' : s.of \in DOMAIN talk
    BY <1>2, <2>2 DEF LeavesFit, Fits
  <2> QED  BY <1>1, <1>3, <2>3 DEF LeavesFit, Fits
<1>11. OwnersGo /\ OwnersCome  BY <1>1, <1>3, <1>7, OwnersStay
<1> QED  BY <1>3, <1>5, <1>6, <1>7, <1>8, <1>9, <1>10, <1>11, LeaveMoves DEF TalksFit

LEMMA ConsolidatedMoves ==
  ASSUME Fits, NEW s \in settling, Consolidated(s)
  PROVE  Moves
<1>1. UNCHANGED <<talk, invite, join, daily, parting, ending, left>> /\ UNCHANGED dayVars
  BY DEF Consolidated, requestVars
<1>2. s.of \in DOMAIN talk /\ s \in Settlings /\ s.of \in Nat /\ s.who \in NPCs /\ s.rest \subseteq NPCs
  BY DEF Fits, LeavesFit, Settlings
<1> DEFINE stay == IF s.as = "leaver" /\ ~talk[s.of].open THEN talk[s.of].parts ELSE s.rest
           next(n) == [of |-> s.of, who |-> n, rest |-> (stay \ {Player}) \ {n}, as |-> "rest"]
<1>3. PICK then \in AfterConsolidation(standing, s.of, s.who) :
         /\ settled' = settled \cup {<<s.of, s.who>>}
         /\ standing' = IF Player \in stay THEN [then EXCEPT ![Player] = "present"] ELSE then
         /\ \/ settling' = settling \ {s}
            \/ \E n \in stay \ {Player} : settling' = (settling \ {s}) \cup {next(n)}
  BY DEF Consolidated
<1>4. stay \ {Player} \subseteq NPCs
  <2>1. talk[s.of].parts \subseteq Actors  BY <1>2, TalkIs DEF Fits
  <2> QED  BY <1>2, <2>1, Constants
<1> HIDE DEF stay
<1>5. \A n \in stay \ {Player} : next(n) \in Settlings /\ next(n).of = s.of
  BY <1>2, <1>4 DEF Settlings
<1> HIDE DEF next
<1>6. then \in [Actors -> Standings]
  BY <1>2, AfterDoes, Constants DEF Fits, StandingFit
<1>7. StandingFit'
  <2>1. "present" \in Standings  BY DEF Standings
  <2> QED  BY <1>3, <1>6, <2>1, Constants, Stands DEF StandingFit
<1>8. TalksFit' /\ Lasting /\ NoFade /\ TalkMoves  BY <1>1, SameTalk
<1>9. JoinsFit' /\ JoinsMove /\ SameAdding  BY <1>1, <1>8, JoinsStay
<1>10. LeavesFit'
  <2>1. settling' \subseteq Settlings /\ \A x \in settling' : x.of \in DOMAIN talk
    BY <1>2, <1>3, <1>5 DEF LeavesFit, Fits
  <2>2. settled' \subseteq (DOMAIN talk) \X NPCs
    BY <1>2, <1>3 DEF LeavesFit, Fits
  <2> QED  BY <1>1, <2>1, <2>2 DEF LeavesFit, Fits
<1>11. OwnersGo /\ OwnersCome  BY <1>1, <1>8, <1>9, OwnersStay
<1>12. LeaveOnly /\ LeftFit'  BY <1>1 DEF LeaveOnly, LeftFit, Fits
<1> QED  BY <1>7, <1>8, <1>9, <1>10, <1>11, <1>12, LeaveMoves

-----------------------------------------------------------------------------
(* The end of a day *)

\* What a step of a closing leaves alone.
CloseOnly == /\ UNCHANGED <<invite, daily, parting, settling, left>>
             /\ UNCHANGED <<today, hour, thought>> /\ shut \subseteq shut' /\ shut' \subseteq Days

LEMMA CloseMoves ==
  ASSUME Fits, CloseOnly, TalksFit', Lasting, TalkMoves, StandingFit', JoinsFit', JoinsMove,
         settled' \subseteq (DOMAIN talk) \X NPCs, EndingsFit', OwnersGo, OwnersCome
  PROVE  Moves
<1>1. invite' = invite /\ daily' = daily /\ left' = left  BY DEF CloseOnly
<1>2. InvitesFit' /\ InvitesMove  BY <1>1, InvitesStay
<1>3. DayFit'  BY DEF CloseOnly, DayFit, Fits
<1>4. DailyFit' /\ LeftFit'  BY <1>1 DEF DailyFit, LeftFit, Fits
<1>5. LeavesFit'  BY DEF CloseOnly, LeavesFit, Lasting, Fits
<1> QED  BY <1>2, <1>3, <1>4, <1>5 DEF Moves, Fits

LEMMA EndingChanges ==
  ASSUME Fits, Lasting, CloseOnly, NEW d \in Days, NEW r \in Endings,
         ending' = [ending EXCEPT ![d] = r], r.todo \subseteq DOMAIN talk',
         r.at # "none" => /\ r.on \in DOMAIN talk' /\ d \in shut'
                          /\ r.was \/ ~talk'[r.on].open,
         r.at = "settle" => r.now \in NPCs
  PROVE  /\ EndingsFit' /\ ending'[d] = r
         /\ \A x \in Days : x # d => ending'[x] = ending[x]
<1>1. ending \in [Days -> Endings]  BY DEF Fits, EndingsFit
<1>2. /\ ending' \in [Days -> Endings] /\ ending'[d] = r
      /\ \A x \in Days : x # d => ending'[x] = ending[x]
  BY <1>1
<1>3. ASSUME NEW x \in Days
      PROVE  /\ ending'[x].todo \subseteq DOMAIN talk'
             /\ ending'[x].at # "none" => /\ ending'[x].on \in DOMAIN talk' /\ x \in shut'
                                          /\ ending'[x].was \/ ~talk'[ending'[x].on].open
             /\ ending'[x].at = "settle" => ending'[x].now \in NPCs
  <2>1. CASE x = d  BY <1>2, <2>1
  <2>2. CASE x # d
    <3>1. /\ ending[x].todo \subseteq DOMAIN talk
          /\ ending[x].at # "none" => /\ ending[x].on \in DOMAIN talk /\ x \in shut
                                      /\ ending[x].was \/ ~talk[ending[x].on].open
          /\ ending[x].at = "settle" => ending[x].now \in NPCs
      BY DEF Fits, EndingsFit
    <3> QED  BY <1>2, <2>2, <3>1 DEF Lasting, CloseOnly
  <2> QED  BY <2>1, <2>2
<1> QED  BY <1>2, <1>3 DEF EndingsFit

LEMMA CloseTurnDoes ==
  ASSUME NEW d \in Days, NEW e \in Endings, NEW s \in [Actors -> Standings],
         NEW t \in Seq(Talks), CloseTurn(d, e, s, t)
  PROVE  /\ StandingFit' /\ talk' = t
         /\ \E r \in Endings : /\ ending' = [ending EXCEPT ![d] = r] /\ r.now \in NPCs
                               /\ r.at = e.at /\ r.on = e.on /\ r.todo = e.todo /\ r.was = e.was
<1>1. PICK n \in e.left \cap NPCs :
        /\ standing' = [s EXCEPT ![n] = "waiting"]
        /\ ending' = [ending EXCEPT ![d] = [e EXCEPT !.now = n, !.left = @ \ {n}]]
        /\ talk' = t
  BY DEF CloseTurn
<1> DEFINE r == [e EXCEPT !.now = n, !.left = @ \ {n}]
<1>2. /\ r \in Endings /\ r.now = n /\ r.at = e.at /\ r.on = e.on /\ r.todo = e.todo
      /\ r.was = e.was
  BY DEF Endings
<1> HIDE DEF r
<1>3. ending' = [ending EXCEPT ![d] = r]  BY <1>1 DEF r
<1>4. n \in Actors /\ "waiting" \in Standings  BY Constants DEF Standings
<1>5. StandingFit'  BY <1>1, <1>4, Stands DEF StandingFit
<1> QED  BY <1>1, <1>2, <1>3, <1>5

LEMMA SmallestIs ==
  ASSUME NEW T, T \subseteq Nat, T # {}
  PROVE  (CHOOSE x \in T : \A y \in T : x <= y) \in T
<1>1. \E x \in T : \A y \in T : x <= y  BY SmallestExists
<1> QED  BY <1>1

\* the conversations as a closing finds them: one may just have closed
Found(t) == /\ t \in Seq(Talks) /\ DOMAIN t = DOMAIN talk
            /\ \A c \in DOMAIN talk : /\ t[c].parts = talk[c].parts /\ t[c].runs = talk[c].runs
                                      /\ t[c].open => talk[c].open

\* The closing goes on with the next conversation that has an NPC, or ends.
LEMMA CloseNextDoes ==
  ASSUME Fits, CloseOnly, NEW d \in Days, d \in shut', NEW todo, todo \subseteq DOMAIN talk,
         NEW s \in [Actors -> Standings], NEW t, Found(t),
         ending[d].at # "none" => ~t[ending[d].on].open,
         CloseNext(d, todo, s, t)
  PROVE  /\ TalksFit' /\ Lasting /\ TalkMoves /\ StandingFit' /\ JoinsFit' /\ JoinsMove
         /\ EndingsFit' /\ OwnersGo /\ OwnersCome
<1> DEFINE stay == {c \in todo : t[c].parts \cap NPCs # {}}
           s1   == IF \E c \in todo \ stay : Player \in t[c].parts
                   THEN [s EXCEPT ![Player] = "present"] ELSE s
<1>0. parting' = parting /\ invite' = invite  BY DEF CloseOnly
<1>1. s1 \in [Actors -> Standings]
  <2>1. "present" \in Standings  BY DEF Standings
  <2> QED  BY <2>1, Constants, Stands
<1>2. stay \subseteq DOMAIN talk /\ stay \subseteq todo  OBVIOUS
<1>3. CASE stay = {}
  <2>1. /\ ending' = [ending EXCEPT ![d] = NoEnding] /\ standing' = s1 /\ talk' = t /\ join' = join
    BY <1>3 DEF CloseNext
  <2>2. Lasting /\ Fades /\ NoFade  BY <2>1 DEF Found, Lasting, Fades, NoFade
  <2>3. NoEnding \in Endings /\ NoEnding.todo = {} /\ NoEnding.at = "none"
    BY DEF NoEnding, Endings
  <2>4. /\ EndingsFit' /\ ending'[d] = NoEnding
        /\ \A x \in Days : x # d => ending'[x] = ending[x]
    BY <2>1, <2>2, <2>3, EndingChanges
  <2>5. JoinsFit' /\ JoinsMove /\ SameAdding  BY <2>1, <2>2, JoinsStay
  <2>6. OwnersGo  BY <1>0, <2>1, <2>4, <2>5 DEF OwnersGo, SameAdding
  <2>7. NoNewOwner  BY <1>0, <2>3, <2>4, <2>5 DEF NoNewOwner, SameAdding
  <2>8. OwnersCome  BY <2>2, <2>5, <2>7, NoneComes
  <2>9. StandingFit'  BY <1>1, <2>1 DEF StandingFit
  <2> QED  BY <2>1, <2>2, <2>4, <2>5, <2>6, <2>8, <2>9 DEF TalksFit, TalkMoves, Fades
<1>4. CASE stay # {}
  <2> DEFINE f == CHOOSE x \in stay : \A y \in stay : x <= y
  <2>1. f \in stay
    <3>1. stay \subseteq Nat  BY <1>2, TalkIs DEF Fits
    <3> HIDE DEF stay
    <3> QED  BY <1>4, <3>1, SmallestIs
  <2> HIDE DEF s1
  <2>2. PICK c \in DOMAIN talk : c = f  BY <1>2, <2>1
  <2> DEFINE s2 == RestFor(s1, c)
             t2 == [t EXCEPT ![c].runs = FALSE]
             e  == [NoEnding EXCEPT !.todo = stay \ {c}, !.on = c, !.was = t[c].open]
             e3 == [e EXCEPT !.at = "talk"]
             e4 == [e EXCEPT !.at = "settle", !.left = t[c].parts]
  <2>3. /\ join' = ExpireFor(c)
        /\ \/ /\ ending' = [ending EXCEPT ![d] = e3]
              /\ standing' = s2 /\ talk' = t2
           \/ CloseTurn(d, e4, s2, t2)
    BY <1>4, <2>2 DEF CloseNext, s1
  <2>4. s2 \in [Actors -> Standings]  BY <1>1, RestDoes
  <2>5. t \in Seq(Talks) /\ c \in DOMAIN t /\ t2 = Ended(t, c)  BY DEF Found, Ended
  <2> HIDE DEF t2
  <2>6. /\ t2 \in Seq(Talks) /\ DOMAIN t2 = DOMAIN t
        /\ \A x \in DOMAIN t : x # c => t2[x] = t[x]
        /\ t2[c].parts = t[c].parts /\ t2[c].open = t[c].open /\ t2[c].runs = FALSE
    BY ONLY <2>5, SegmentEnds
  <2>7. /\ e3 \in Endings /\ e3.todo = stay \ {c} /\ e3.on = c /\ e3.was = t[c].open /\ e3.at = "talk"
        /\ e4 \in Endings /\ e4.todo = stay \ {c} /\ e4.on = c /\ e4.was = t[c].open /\ e4.at = "settle"
    <3>1. c \in Nat /\ DOMAIN talk \subseteq Nat /\ talk[c].parts \subseteq Actors
      BY TalkIs DEF Fits
    <3>2. t[c].parts \subseteq Actors /\ t[c].open \in BOOLEAN
      <4>1. t[c] \in Talks  BY <2>5, LenProperties
      <4> QED  BY <4>1 DEF Talks
    <3>3. stay \ {c} \subseteq Nat  BY <1>2, <3>1
    <3> HIDE DEF stay
    <3>4. e \in Endings /\ e.todo = stay \ {c} /\ e.on = c /\ e.was = t[c].open
      BY <3>1, <3>2, <3>3 DEF NoEnding, Endings
    <3> HIDE DEF e
    <3> QED  BY <3>2, <3>4 DEF Endings
  <2> HIDE DEF s2, e3, e4, f
  <2>8. /\ talk' = t2 /\ StandingFit'
        /\ \E r \in Endings : /\ ending' = [ending EXCEPT ![d] = r]
                              /\ r.at = "settle" => r.now \in NPCs
                              /\ r.at \in {"talk", "settle"}
                              /\ r.on = c /\ r.todo = stay \ {c} /\ r.was = t[c].open
    <3>1. CASE ending' = [ending EXCEPT ![d] = e3] /\ standing' = s2 /\ talk' = t2
      <4>1. StandingFit'  BY <2>4, <3>1 DEF StandingFit
      <4> QED  BY <2>7, <3>1, <4>1
    <3>2. CASE CloseTurn(d, e4, s2, t2)
      <4>1. /\ StandingFit' /\ talk' = t2
            /\ \E r \in Endings : /\ ending' = [ending EXCEPT ![d] = r] /\ r.now \in NPCs
                                  /\ r.at = e4.at /\ r.on = e4.on /\ r.todo = e4.todo /\ r.was = e4.was
        <5>1. /\ d \in Days /\ e4 \in Endings /\ s2 \in [Actors -> Standings] /\ t2 \in Seq(Talks)
          BY <2>4, <2>6, <2>7
        <5> QED  BY ONLY <3>2, <5>1, CloseTurnDoes
      <4> QED  BY <2>7, <4>1
    <3> QED  BY <2>3, <3>1, <3>2
  <2>9. PICK r \in Endings : /\ ending' = [ending EXCEPT ![d] = r]
                             /\ r.at = "settle" => r.now \in NPCs
                             /\ r.at \in {"talk", "settle"}
                             /\ r.on = c /\ r.todo = stay \ {c} /\ r.was = t[c].open
    BY <2>8
  <2>10. Lasting /\ Fades
    BY <2>6, <2>8 DEF Found, Lasting, Fades
  <2>11. DOMAIN talk' = DOMAIN talk /\ talk'[c].open = t[c].open /\ talk'[c].runs = FALSE
    BY <2>5, <2>6, <2>8 DEF Found
  <2>12. /\ EndingsFit' /\ ending'[d] = r
         /\ \A x \in Days : x # d => ending'[x] = ending[x]
    <3>1. r.todo \subseteq DOMAIN talk'  BY <1>2, <2>9, <2>11
    <3>2. r.on \in DOMAIN talk' /\ (r.was \/ ~talk'[r.on].open)  BY <2>9, <2>11
    <3> QED  BY <2>9, <2>10, <3>1, <3>2, EndingChanges
  <2>13. JoinsFit' /\ JoinsMove /\ SameAdding  BY <2>3, <2>10, ExpireDoes
  <2>14. OwnersGo
    <3>1. ending[d].at # "none" => ~talk'[ending[d].on].open
      <4>1. ASSUME ending[d].at # "none"
            PROVE  ~talk'[ending[d].on].open
        <5>1. ending[d].on \in DOMAIN t /\ ~t[ending[d].on].open
          BY <4>1 DEF Fits, EndingsFit, Found
        <5> QED  BY <2>6, <2>8, <5>1
      <4> QED  BY <4>1
    <3> QED  BY <1>0, <2>12, <2>13, <3>1 DEF OwnersGo, SameAdding
  <2>15. Restarting(c)'
    BY <2>9, <2>12 DEF Restarting
  <2>16. OwnersCome
    <3> SUFFICES ASSUME NEW x \in DOMAIN talk, x # c, ~talk'[x].runs,
                        ~(~talk[x].runs /\ (Awaited(x) \/ ~Awaited(x)'))
                 PROVE  FALSE
      BY <2>11, <2>15 DEF OwnersCome
    <3>1. talk'[x].runs = talk[x].runs  BY <2>5, <2>6, <2>8 DEF Found
    <3>2. Awaited(x)' /\ ~Awaited(x)  BY <3>1
    <3>3. ~\E k \in DOMAIN join' : join'[k].to = x /\ join'[k].adding
      <4>1. \A k \in DOMAIN join' : join'[k].adding => k \in DOMAIN join /\ join[k].adding /\ join'[k].to = join[k].to
        BY <2>13 DEF JoinsMove, SameAdding
      <4> QED  BY <3>2, <4>1 DEF Awaited
    <3>4. ~\E y \in Days : ending'[y].at # "none" /\ ending'[y].on = x
      BY <2>9, <2>12, <3>2 DEF Awaited
    <3> QED  BY <1>0, <3>2, <3>3, <3>4 DEF Awaited
  <2> QED  BY <2>8, <2>10, <2>12, <2>13, <2>14, <2>16 DEF TalksFit, TalkMoves, Fades
<1> QED  BY <1>3, <1>4

\* The closing goes on with the next participant of the same conversation.
LEMMA TurnDoes ==
  ASSUME Fits, CloseOnly, NEW d \in Days, ending[d].at # "none", NEW e \in Endings,
         e.at = "settle", e.on = ending[d].on, e.todo = ending[d].todo, e.was = ending[d].was,
         NEW s \in [Actors -> Standings], CloseTurn(d, e, s, talk), join' = join
  PROVE  /\ TalksFit' /\ Lasting /\ TalkMoves /\ StandingFit' /\ JoinsFit' /\ JoinsMove
         /\ EndingsFit' /\ OwnersGo /\ OwnersCome
<1>0. parting' = parting /\ shut \subseteq shut'  BY DEF CloseOnly
<1>1. /\ StandingFit' /\ talk' = talk
      /\ \E r \in Endings : /\ ending' = [ending EXCEPT ![d] = r] /\ r.now \in NPCs
                            /\ r.at = e.at /\ r.on = e.on /\ r.todo = e.todo /\ r.was = e.was
  <2>1. d \in Days /\ e \in Endings /\ s \in [Actors -> Standings] /\ talk \in Seq(Talks)
    BY DEF Fits, TalksFit
  <2>2. CloseTurn(d, e, s, talk)  OBVIOUS
  <2> QED  BY ONLY <2>1, <2>2, CloseTurnDoes
<1>2. PICK r \in Endings : /\ ending' = [ending EXCEPT ![d] = r] /\ r.now \in NPCs
                           /\ r.at = e.at /\ r.on = e.on /\ r.todo = e.todo /\ r.was = e.was
  BY <1>1
<1>3. TalksFit' /\ Lasting /\ NoFade /\ TalkMoves  BY <1>1, SameTalk
<1>4. JoinsFit' /\ JoinsMove /\ SameAdding  BY <1>3, JoinsStay
<1>5. /\ ending[d].todo \subseteq DOMAIN talk /\ ending[d].on \in DOMAIN talk /\ d \in shut
      /\ ending[d].was \/ ~talk[ending[d].on].open
  BY DEF Fits, EndingsFit
<1>6. /\ EndingsFit' /\ ending'[d] = r
      /\ \A x \in Days : x # d => ending'[x] = ending[x]
  <2>1. /\ r.todo \subseteq DOMAIN talk' /\ r.on \in DOMAIN talk' /\ d \in shut'
        /\ r.was \/ ~talk'[r.on].open
    BY <1>0, <1>1, <1>2, <1>5
  <2>2. Fits /\ Lasting /\ CloseOnly /\ d \in Days /\ r \in Endings
    BY <1>3
  <2> QED  BY ONLY <1>2, <2>1, <2>2, EndingChanges
<1>7. OwnersGo  BY <1>0, <1>2, <1>4, <1>6 DEF OwnersGo, SameAdding
<1>8. NoNewOwner  BY <1>0, <1>2, <1>4, <1>6 DEF NoNewOwner, SameAdding
<1>9. OwnersCome  BY <1>3, <1>4, <1>8, NoneComes
<1> QED  BY <1>1, <1>3, <1>4, <1>6, <1>7, <1>9

LEMMA CloseDayMoves ==
  ASSUME Fits, CloseDay
  PROVE  Moves
<1>1. /\ today \notin shut /\ shut' = shut \cup {today} /\ settled' = settled
      /\ CloseNext(today, OpenTalks, standing, talk)
      /\ UNCHANGED <<today, hour, thought, invite, daily, parting, settling, left>>
  BY DEF CloseDay
<1>2. today \in Days /\ shut \subseteq Days  BY DEF Fits, DayFit
<1>3. CloseOnly /\ today \in shut'  BY <1>1, <1>2 DEF CloseOnly
<1>4. OpenTalks \subseteq DOMAIN talk /\ Found(talk)
  BY DEF OpenTalks, Found, Fits, TalksFit
<1>5. ending[today].at = "none"  BY <1>1, <1>2 DEF Fits, EndingsFit
<1>6. standing \in [Actors -> Standings]  BY DEF Fits, StandingFit
<1>7. /\ TalksFit' /\ Lasting /\ TalkMoves /\ StandingFit' /\ JoinsFit' /\ JoinsMove
      /\ EndingsFit' /\ OwnersGo /\ OwnersCome
  BY <1>1, <1>2, <1>3, <1>4, <1>5, <1>6, CloseNextDoes
<1>8. settled' \subseteq (DOMAIN talk) \X NPCs  BY <1>1 DEF Fits, LeavesFit
<1> QED  BY <1>3, <1>7, <1>8, CloseMoves

LEMMA EndingIs ==
  ASSUME Fits, NEW d \in Days, ending[d].at # "none"
  PROVE  /\ ending[d] \in Endings /\ ending[d].on \in DOMAIN talk /\ d \in shut
         /\ ending[d].todo \subseteq DOMAIN talk /\ ending[d].left \subseteq Actors
         /\ ending[d].was \/ ~talk[ending[d].on].open
         /\ ending[d].at = "settle" => ending[d].now \in NPCs
BY DEF Fits, EndingsFit, Endings

LEMMA CloseSummarisedMoves ==
  ASSUME Fits, LimitsKept, NEW d \in Days, CloseSummarised(d)
  PROVE  Moves
<1> DEFINE e == [ending[d] EXCEPT !.at = "settle", !.left = talk[ending[d].on].parts]
<1>1. /\ ending[d].at = "talk" /\ settled' = settled
      /\ UNCHANGED <<today, hour, shut, thought, invite, daily, parting, settling, left>>
      /\ IF e.left \cap NPCs # {} THEN CloseTurn(d, e, standing, talk) /\ UNCHANGED join
         ELSE CloseNext(d, e.todo, standing, talk)
  BY DEF CloseSummarised, dayVars
<1>2. /\ ending[d] \in Endings /\ ending[d].on \in DOMAIN talk /\ d \in shut
      /\ ending[d].todo \subseteq DOMAIN talk
  BY <1>1, EndingIs
<1>3. CloseOnly /\ d \in shut'  BY <1>1, <1>2 DEF CloseOnly, Fits, DayFit
<1>4. talk[ending[d].on].parts \subseteq Actors /\ IsFiniteSet(talk[ending[d].on].parts)
  BY <1>2, TalkIs DEF Fits
<1>5. /\ e \in Endings /\ e.at = "settle" /\ e.on = ending[d].on /\ e.todo = ending[d].todo
      /\ e.was = ending[d].was /\ e.left = talk[ending[d].on].parts
  BY <1>2, <1>4 DEF Endings
<1> HIDE DEF e
<1>6. standing \in [Actors -> Standings]  BY DEF Fits, StandingFit
<1>7. /\ TalksFit' /\ Lasting /\ TalkMoves /\ StandingFit' /\ JoinsFit' /\ JoinsMove
      /\ EndingsFit' /\ OwnersGo /\ OwnersCome
  <2>1. CASE e.left \cap NPCs # {}
    BY <1>1, <1>3, <1>5, <1>6, <2>1, TurnDoes
  <2>2. CASE e.left \cap NPCs = {}
    <3>1. talk[ending[d].on].parts \subseteq {Player}  BY <1>4, <1>5, <2>2, Constants
    <3>2. Cardinality(talk[ending[d].on].parts) <= 1
      <4>1. IsFiniteSet({Player}) /\ Cardinality({Player}) = 1  BY FS_Singleton
      <4> QED  BY <3>1, <4>1, FS_Subset
    <3>3. ~talk[ending[d].on].open
      BY <1>2, <3>2, FS_CardinalityType DEF LimitsKept, OpenTalks
    <3>4. Found(talk)  BY DEF Found, Fits, TalksFit
    <3>5. CloseNext(d, e.todo, standing, talk)  BY <1>1, <2>2
    <3> QED  BY <1>2, <1>3, <1>5, <1>6, <3>3, <3>4, <3>5, CloseNextDoes
  <2> QED  BY <2>1, <2>2
<1>8. settled' \subseteq (DOMAIN talk) \X NPCs  BY <1>1 DEF Fits, LeavesFit
<1> QED  BY <1>3, <1>7, <1>8, CloseMoves

LEMMA CloseConsolidatedMoves ==
  ASSUME Fits, NEW d \in Days, CloseConsolidated(d)
  PROVE  Moves
<1>1. PICK e, c : e = ending[d] /\ c = ending[d].on  OBVIOUS
<1>2. /\ e.at = "settle" /\ settled' = settled \cup {<<c, e.now>>}
      /\ UNCHANGED <<today, hour, shut, thought, invite, daily, parting, settling, left>>
  BY <1>1 DEF CloseConsolidated, dayVars
<1>3. PICK s \in AfterConsolidation(standing, c, e.now) :
         IF e.left \cap NPCs # {} THEN CloseTurn(d, e, s, talk) /\ UNCHANGED join
         ELSE CloseNext(d, e.todo, IF Player \in e.left THEN [s EXCEPT ![Player] = "present"] ELSE s,
                        IF e.was THEN [talk EXCEPT ![c].open = FALSE] ELSE talk)
  BY <1>1 DEF CloseConsolidated
<1>4. /\ e \in Endings /\ c \in DOMAIN talk /\ d \in shut /\ e.todo \subseteq DOMAIN talk
      /\ e.was \/ ~talk[c].open
      /\ e.now \in NPCs
  BY <1>1, <1>2, EndingIs
<1>5. CloseOnly /\ d \in shut'  BY <1>2, <1>4 DEF CloseOnly, Fits, DayFit
<1>6. s \in [Actors -> Standings]
  BY <1>3, <1>4, AfterDoes, Constants DEF Fits, StandingFit
<1>7. settled' \subseteq (DOMAIN talk) \X NPCs  BY <1>2, <1>4 DEF Fits, LeavesFit
<1>8. /\ TalksFit' /\ Lasting /\ TalkMoves /\ StandingFit' /\ JoinsFit' /\ JoinsMove
      /\ EndingsFit' /\ OwnersGo /\ OwnersCome
  <2>1. CASE e.left \cap NPCs # {}
    <3>1. CloseTurn(d, e, s, talk) /\ join' = join  BY <1>3, <2>1
    <3> QED  BY <1>1, <1>2, <1>4, <1>5, <1>6, <3>1, TurnDoes
  <2>2. CASE e.left \cap NPCs = {}
    <3> DEFINE p == IF Player \in e.left THEN [s EXCEPT ![Player] = "present"] ELSE s
               t == IF e.was THEN [talk EXCEPT ![c].open = FALSE] ELSE talk
    <3>1. CloseNext(d, e.todo, p, t)  BY <1>3, <2>2
    <3>2. p \in [Actors -> Standings]
      <4>1. "present" \in Standings  BY DEF Standings
      <4> QED  BY <1>6, <4>1, Constants, Stands
    <3>3. Found(t) /\ ~t[c].open
      <4>1. CASE e.was
        <5>1. talk \in Seq(Talks) /\ c \in DOMAIN talk /\ t = Shut(talk, c)
          BY <1>4, <4>1 DEF Fits, TalksFit, Shut
        <5> HIDE DEF t
        <5>2. /\ t \in Seq(Talks) /\ DOMAIN t = DOMAIN talk
              /\ \A x \in DOMAIN talk : x # c => t[x] = talk[x]
              /\ t[c].parts = talk[c].parts /\ t[c].open = FALSE /\ t[c].runs = talk[c].runs
          BY ONLY <5>1, TalkCloses
        <5> QED  BY <5>2 DEF Found
      <4>2. CASE ~e.was
        <5>1. t = talk  BY <4>2
        <5> QED  BY <1>4, <4>2, <5>1 DEF Found, Fits, TalksFit
      <4> QED  BY <4>1, <4>2
    <3> HIDE DEF p, t
    <3> QED  BY <1>1, <1>4, <1>5, <3>1, <3>2, <3>3, CloseNextDoes
  <2> QED  BY <2>1, <2>2
<1> QED  BY <1>5, <1>7, <1>8, CloseMoves

-----------------------------------------------------------------------------
(* The clock and the restart *)

LEMMA CutoffMoves ==
  ASSUME Fits, Cutoff
  PROVE  Moves
<1>1. /\ hour' = Late /\ UNCHANGED <<today, shut, thought, talk, daily, left>>
      /\ UNCHANGED <<parting, settling, settled, ending>>
  BY DEF Cutoff, leaveVars
<1>2. TalksFit' /\ Lasting /\ NoFade /\ TalkMoves  BY <1>1, SameTalk
<1> DEFINE r(i) == [invite[i] EXCEPT !.st = "expired"]
           q(j) == [join[j] EXCEPT !.st = "expired"]
<1>3. InvitesFit' /\ InvitesMove
  <2>1. Len(invite) \in Nat /\ DOMAIN invite = 1..Len(invite)
    BY LenProperties DEF Fits, InvitesFit
  <2>2. \A i \in DOMAIN invite : r(i) \in Invites /\ r(i).by = invite[i].by /\ r(i).to = invite[i].to
    BY InviteIs DEF Invites
  <2>3. invite' = [i \in DOMAIN invite |-> IF invite[i].st = "pending" THEN r(i) ELSE invite[i]]
    BY DEF Cutoff
  <2> HIDE DEF r
  <2>4. invite' \in [1..Len(invite) -> Invites]
    BY <2>1, <2>2, <2>3, InviteIs
  <2>5. invite' \in Seq(Invites)  BY <2>1, <2>4, SequenceOf
  <2>6. \A i \in DOMAIN invite' : invite'[i].by # invite'[i].to
    BY <2>2, <2>3, InviteIs
  <2> QED  BY <2>3, <2>5, <2>6 DEF InvitesFit, InvitesMove
<1>4. JoinsFit' /\ JoinsMove /\ SameAdding
  <2>1. Len(join) \in Nat /\ DOMAIN join = 1..Len(join)
    BY LenProperties DEF Fits, JoinsFit
  <2>2. \A j \in DOMAIN join :
           /\ q(j) \in Joins /\ q(j).by = join[j].by /\ q(j).to = join[j].to
           /\ q(j).asked = join[j].asked /\ q(j).adding = join[j].adding
    BY JoinIs DEF Joins
  <2>3. join' = [j \in DOMAIN join |-> IF join[j].st = "pending" THEN q(j) ELSE join[j]]
    BY DEF Cutoff
  <2> HIDE DEF q
  <2>4. join' \in [1..Len(join) -> Joins]
    BY <2>1, <2>2, <2>3, JoinIs
  <2>5. join' \in Seq(Joins)  BY <2>1, <2>4, SequenceOf
  <2>6. \A j \in DOMAIN join' : join'[j].to \in DOMAIN talk'
    BY <1>1, <2>2, <2>3, JoinIs
  <2>7. JoinsMove /\ SameAdding  BY <2>2, <2>3 DEF JoinsMove, SameAdding
  <2> QED  BY <2>5, <2>6, <2>7 DEF JoinsFit
<1>5. StandingFit'
  BY RestStands DEF Cutoff, StandingFit, Fits
<1>6. DayFit'  BY <1>1 DEF DayFit, Fits
<1>7. DailyFit' /\ LeftFit'  BY <1>1 DEF DailyFit, LeftFit, Fits
<1> QED  BY <1>1, <1>3, <1>4, <1>5, <1>6, <1>7, RequestMoves

\* The clock moves, and touches nothing else.
LEMMA ClockMoves ==
  ASSUME Fits, DayFit', LeftFit', shut' = shut,
         UNCHANGED <<standing, talk, invite, join, daily, parting, settling, settled, ending>>
  PROVE  Moves
<1>1. TalksFit' /\ Lasting  BY SameTalk
<1>2. InvitesFit' /\ InvitesMove /\ JoinsFit' /\ JoinsMove /\ SameAdding
  BY <1>1, InvitesStay, JoinsStay
<1>3. StandingFit' /\ DailyFit'  BY DEF StandingFit, DailyFit, Fits
<1> QED  BY <1>2, <1>3, RequestMoves

LEMMA EveningMoves ==
  ASSUME Fits, Evening
  PROVE  Moves
<1>1. /\ hour' = Over /\ UNCHANGED <<today, shut, thought, left>>
      /\ UNCHANGED <<standing, talk, invite, join, daily, parting, settling, settled, ending>>
  BY DEF Evening, requestVars, leaveVars
<1>2. DayFit' /\ LeftFit'  BY <1>1 DEF DayFit, LeftFit, Fits
<1> QED  BY <1>1, <1>2, ClockMoves

LEMMA NextDayMoves ==
  ASSUME Fits, NextDay
  PROVE  Moves
<1>1. /\ today < MaxDays /\ today' = today + 1 /\ hour' = Open /\ thought' = {} /\ shut' = shut
      /\ Spend("day") /\ "day" \in Counted
      /\ UNCHANGED <<standing, talk, invite, join, daily, parting, settling, settled, ending>>
  BY DEF NextDay, requestVars, leaveVars, Counted
<1>2. DayFit'  BY <1>1, MembershipAssumption DEF DayFit, Days, Fits
<1>3. LeftFit'  BY <1>1, SpendDoes
<1> QED  BY <1>1, <1>2, <1>3, ClockMoves

\* A restart ends every wait.
LEMMA RestartMoves ==
  ASSUME Fits, MemberRestarts
  PROVE  /\ Fits' /\ InvitesMove /\ JoinsMove /\ TalkMoves /\ OwnersFit'
         /\ left'.restart < left.restart
<1>1. /\ UNCHANGED <<talk, standing, settled>> /\ UNCHANGED dayVars /\ Spend("restart")
      /\ "restart" \in Counted
      /\ parting' = {} /\ settling' \subseteq settling
  BY DEF MemberRestarts, Counted
<1>2. TalksFit' /\ Lasting /\ NoFade /\ TalkMoves  BY <1>1, SameTalk
<1> DEFINE r(i) == [invite[i] EXCEPT !.asking = FALSE]
           q(j) == [join[j] EXCEPT !.polling = FALSE, !.adding = FALSE]
<1>3. InvitesFit' /\ InvitesMove
  <2>1. Len(invite) \in Nat /\ DOMAIN invite = 1..Len(invite)
    BY LenProperties DEF Fits, InvitesFit
  <2>2. \A i \in DOMAIN invite : /\ r(i) \in Invites /\ r(i).by = invite[i].by
                                 /\ r(i).to = invite[i].to /\ r(i).st = invite[i].st
    BY InviteIs DEF Invites
  <2>3. invite' = [i \in DOMAIN invite |-> r(i)]
    BY DEF MemberRestarts
  <2> HIDE DEF r
  <2>4. invite' \in [1..Len(invite) -> Invites]
    BY <2>1, <2>2, <2>3
  <2>5. invite' \in Seq(Invites)  BY <2>1, <2>4, SequenceOf
  <2>6. \A i \in DOMAIN invite' : invite'[i].by # invite'[i].to
    BY <2>2, <2>3, InviteIs
  <2> QED  BY <2>2, <2>3, <2>5, <2>6 DEF InvitesFit, InvitesMove
<1>4. JoinsFit' /\ JoinsMove /\ \A j \in DOMAIN join' : ~join'[j].adding
  <2>1. Len(join) \in Nat /\ DOMAIN join = 1..Len(join)
    BY LenProperties DEF Fits, JoinsFit
  <2>2. \A j \in DOMAIN join :
           /\ q(j) \in Joins /\ q(j).by = join[j].by /\ q(j).to = join[j].to
           /\ q(j).asked = join[j].asked /\ q(j).st = join[j].st /\ q(j).adding = FALSE
    BY JoinIs DEF Joins
  <2>3. join' = [j \in DOMAIN join |-> q(j)]
    BY DEF MemberRestarts
  <2> HIDE DEF q
  <2>4. join' \in [1..Len(join) -> Joins]
    BY <2>1, <2>2, <2>3
  <2>5. join' \in Seq(Joins)  BY <2>1, <2>4, SequenceOf
  <2>6. \A j \in DOMAIN join' : join'[j].to \in DOMAIN talk'
    BY <1>1, <2>2, <2>3, JoinIs
  <2>7. JoinsMove  BY <2>2, <2>3 DEF JoinsMove
  <2> QED  BY <2>2, <2>3, <2>5, <2>6, <2>7 DEF JoinsFit
<1>5. EndingsFit' /\ \A d \in Days : ending'[d].at = "none"
  <2>1. ending' = [d \in Days |-> NoEnding]  BY DEF MemberRestarts
  <2>2. NoEnding \in Endings /\ NoEnding.todo = {} /\ NoEnding.at = "none"
    BY DEF NoEnding, Endings
  <2> QED  BY <2>1, <2>2 DEF EndingsFit
<1>6. DailyFit'
  <2>1. NoDaily \in Dailies  BY DEF NoDaily, Dailies
  <2> QED  BY <2>1 DEF MemberRestarts, DailyFit
<1>7. LeavesFit'  BY <1>1 DEF LeavesFit, Fits
<1>8. StandingFit' /\ DayFit'  BY <1>1, DayStays DEF StandingFit, Fits
<1>9. LeftFit' /\ left'.restart < left.restart
  <2>1. LeftFit' /\ left'["restart"] < left["restart"]  BY <1>1, SpendDoes
  <2> QED  BY <2>1
<1>10. OwnersFit'
  <2>1. \A c : ~Awaited(c)'  BY <1>1, <1>4, <1>5 DEF Awaited
  <2> QED  BY <2>1 DEF OwnersFit
<1> QED  BY <1>2, <1>3, <1>4, <1>5, <1>6, <1>7, <1>8, <1>9, <1>10 DEF Fits

-----------------------------------------------------------------------------
(* The invariant, and what each step may do *)

LEMMA FitsIsType == Fits => MemberTypeOK
BY DEF Fits, DayFit, StandingFit, TalksFit, InvitesFit, JoinsFit, DailyFit, LeavesFit, EndingsFit,
       LeftFit, MemberTypeOK, Standings, Dailies

LEMMA InitFits == MemberInit => MemberInv
<1> SUFFICES ASSUME MemberInit
             PROVE  MemberInv
  OBVIOUS
<1>1. /\ today = 1 /\ hour = Open /\ shut = {} /\ thought = {}
      /\ standing = [a \in Actors |-> "present"]
      /\ talk = <<>> /\ invite = <<>> /\ join = <<>>
      /\ daily = [n \in NPCs |-> NoDaily]
      /\ parting = {} /\ settling = {} /\ settled = {}
      /\ ending = [d \in Days |-> NoEnding]
      /\ left \in Allowances
  BY DEF MemberInit
<1>2. DayFit /\ StandingFit  BY <1>1, Constants DEF DayFit, StandingFit, Standings
<1>3. DOMAIN talk = {} /\ DOMAIN invite = {} /\ DOMAIN join = {}  BY <1>1
<1>4. TalksFit /\ InvitesFit /\ JoinsFit  BY <1>1, <1>3 DEF TalksFit, InvitesFit, JoinsFit
<1>5. DailyFit
  <2>1. NoDaily \in Dailies  BY DEF NoDaily, Dailies
  <2> QED  BY <1>1, <2>1 DEF DailyFit
<1>6. LeavesFit  BY <1>1 DEF LeavesFit
<1>7. EndingsFit
  <2>1. NoEnding \in Endings /\ NoEnding.todo = {} /\ NoEnding.at = "none"
    BY DEF NoEnding, Endings
  <2> QED  BY <1>1, <2>1 DEF EndingsFit
<1>8. LeftFit  BY <1>1, MembershipAssumption DEF LeftFit
<1>9. LimitsKept
  <2>1. OpenTalks = {}  BY <1>3 DEF OpenTalks
  <2>2. Cardinality(OpenTalks) = 0 /\ MaxOpen \in Nat  BY <2>1, FS_EmptySet, Constants
  <2> QED  BY <1>3, <2>1, <2>2 DEF LimitsKept
<1>10. OwnersFit  BY <1>3 DEF OwnersFit
<1> QED  BY <1>2, <1>4, <1>5, <1>6, <1>7, <1>8, <1>9, <1>10 DEF MemberInv, Fits

\* Every step but a restart is one of the moves.
LEMMA StepMoves ==
  ASSUME Fits, LimitsKept, MemberNext
  PROVE  Moves \/ MemberRestarts
BY CreateMoves, PlayerInviteMoves, ThinkMoves, DailyReturnsMoves, InviteAnsweredMoves,
   RespondInvitationMoves, RequestJoinMoves, PollReturnsMoves, RespondJoinMoves,
   JoinSummarisedMoves, LeavesMoves, LeaveSummarisedMoves, PlayerLeavesMoves, ConsolidatedMoves,
   CloseDayMoves, CloseSummarisedMoves, CloseConsolidatedMoves, CutoffMoves, EveningMoves,
   NextDayMoves DEF MemberNext

\* What the action properties say of a step.
Settles == /\ \A i \in DOMAIN invite : invite[i].st # "pending" => invite'[i].st = invite[i].st
           /\ \A j \in DOMAIN join : join[j].st # "pending" => join'[j].st = join[j].st
LosesNoOwner ==
    \A c \in DOMAIN talk : SegmentOwned(c) /\ ~SegmentOwned(c)' => left'.restart < left.restart

LEMMA StepKeeps ==
  ASSUME MemberInv, MemberNext
  PROVE  MemberInv' /\ Settles /\ SecondIsLate /\ LosesNoOwner
<1>0. Fits /\ LimitsKept /\ OwnersFit  BY DEF MemberInv
<1>1. CASE Moves
  <2>1. Fits' /\ InvitesMove /\ JoinsMove /\ TalkMoves /\ OwnersGo /\ OwnersCome
    BY <1>1 DEF Moves
  <2>2. Lasting /\ LimitsKept' /\ SecondIsLate /\ EndedKeepsParts
    BY <1>0, <2>1, TalksKeep DEF KeepsLimits
  <2>3. OwnersFit' /\ NoneLost  BY <1>0, <2>1, <2>2, OwnersKeep
  <2>4. Settles  BY <2>1 DEF Settles, InvitesMove, JoinsMove
  <2>5. LosesNoOwner  BY <2>3 DEF LosesNoOwner, NoneLost
  <2> QED  BY <2>1, <2>2, <2>3, <2>4, <2>5 DEF MemberInv
<1>2. CASE MemberRestarts
  <2>1. /\ Fits' /\ InvitesMove /\ JoinsMove /\ TalkMoves /\ OwnersFit'
        /\ left'.restart < left.restart
    BY <1>0, <1>2, RestartMoves
  <2>2. LimitsKept' /\ SecondIsLate  BY <1>0, <2>1, TalksKeep DEF KeepsLimits
  <2>3. Settles  BY <2>1 DEF Settles, InvitesMove, JoinsMove
  <2>4. LosesNoOwner  BY <2>1 DEF LosesNoOwner
  <2> QED  BY <2>1, <2>2, <2>3, <2>4 DEF MemberInv
<1> QED  BY <1>0, <1>1, <1>2, StepMoves

LEMMA StutterKeeps ==
  ASSUME MemberInv, UNCHANGED memberVars
  PROVE  MemberInv' /\ Settles /\ LosesNoOwner
<1>1. UNCHANGED <<standing, talk, invite, join, daily, parting, settling, settled, ending>>
      /\ UNCHANGED dayVars /\ shut' = shut /\ left' = left
  BY DEF memberVars, dayVars
<1>2. DayFit' /\ LeftFit'  BY <1>1, DayStays DEF MemberInv, LeftFit, Fits
<1>3. Moves  BY <1>1, <1>2, ClockMoves DEF MemberInv
<1>4. Fits' /\ JoinsMove /\ InvitesMove /\ TalkMoves /\ OwnersGo /\ OwnersCome  BY <1>3 DEF Moves
<1>5. Lasting /\ LimitsKept' /\ EndedKeepsParts  BY <1>4, TalksKeep DEF KeepsLimits, MemberInv
<1>6. OwnersFit' /\ NoneLost  BY <1>4, <1>5, OwnersKeep DEF MemberInv
<1>7. Settles  BY <1>4 DEF Settles, InvitesMove, JoinsMove
<1> QED  BY <1>4, <1>5, <1>6, <1>7 DEF MemberInv, LosesNoOwner, NoneLost

-----------------------------------------------------------------------------
(* The theorems *)

\* The types, the limits and the owners, which no step breaks together.
THEOREM MemberInvariant == MemberSpec => []MemberInv
<1>1. MemberInv /\ [MemberNext]_memberVars => MemberInv'
  BY StepKeeps, StutterKeeps
<1> QED  BY InitFits, <1>1, PTL DEF MemberSpec

\* The variables keep the shapes the code gives them, and every reference to a
\* conversation is to one that exists.
THEOREM MemberTypeCorrect == MemberSpec => []MemberTypeOK
<1>1. MemberInv => MemberTypeOK  BY FitsIsType DEF MemberInv
<1> QED  BY <1>1, MemberInvariant, PTL

\* At most MaxOpen conversations are open, each with two or three participants, and a
\* pending join request asks only actors that are still there: the checks before the
\* waits are repeated after them where it matters.
THEOREM LimitsAreKept == MemberSpec => []LimitsKept
<1>1. MemberInv => LimitsKept  BY DEF MemberInv
<1> QED  BY <1>1, MemberInvariant, PTL

\* An invitation or a join request that was settled is not settled again by an answer
\* that comes later.
THEOREM RequestsAreSettledOnce == MemberSpec => SettledOnce
<1>1. MemberInv /\ [MemberNext]_memberVars => [Settles]_memberVars
  BY StepKeeps, StutterKeeps
<1> QED  BY <1>1, MemberInvariant, PTL DEF MemberSpec, SettledOnce, Settles

\* Only a join that was accepted while its applicant was free, and is carried out after
\* the segment summary, brings an actor into a second open conversation.
THEOREM SecondPlaceIsALateJoin == MemberSpec => SecondPlaceOnlyByLateJoin
<1>1. MemberInv /\ [MemberNext]_memberVars => [SecondIsLate]_memberVars
  BY StepKeeps
<1> QED  BY <1>1, MemberInvariant, PTL DEF MemberSpec, SecondPlaceOnlyByLateJoin, SecondIsLate, LateJoin

\* An open conversation whose last segment has ended keeps somebody who will start the
\* next or close it: only a restart takes the last of them away.
THEOREM EndedSegmentsStayOwned == MemberSpec => SegmentLostOnlyByRestart
<1>1. MemberInv /\ [MemberNext]_memberVars => [LosesNoOwner]_memberVars
  BY StepKeeps, StutterKeeps
<1> QED  BY <1>1, MemberInvariant, PTL DEF MemberSpec, SegmentLostOnlyByRestart, LosesNoOwner
=============================================================================
