---------------------------- MODULE MCMembership ----------------------------
(***************************************************************************)
(* One TLC run for three modules about the conversations of a run that     *)
(* share no variable: who takes part in them, the summaries of their       *)
(* segments, and what an NPC takes with it when it leaves.  A behaviour is *)
(* one of one of them, chosen in its initial state.                        *)
(***************************************************************************)
EXTENDS Membership, SegmentSummary, Consolidation, TLC

VARIABLE part

\* the NPCs are interchangeable: no definition orders them
TalksSymmetry == Permutations(NPCs)

\* Two conversations with: two joins that race, also with a leave; a daily action
\* and an invitation with a restart, or with a leave; and one conversation whose
\* requests and closing reach into the next day.
SmallAllowances ==
    {[talk |-> 2, invite |-> 0, join |-> 2, thought |-> 0, leave |-> 1, day |-> 0, restart |-> 0],
     [talk |-> 2, invite |-> 1, join |-> 1, thought |-> 1, leave |-> 0, day |-> 0, restart |-> 1],
     [talk |-> 2, invite |-> 1, join |-> 0, thought |-> 1, leave |-> 1, day |-> 0, restart |-> 0],
     [talk |-> 1, invite |-> 1, join |-> 1, thought |-> 1, leave |-> 0, day |-> 1, restart |-> 0]}

\* A stay in each of two conversations: with the player in one of them and one handler at
\* work beside the maintenance tasks, or in both and a failure among the tasks; and one
\* conversation with two handlers: with a failure, or entered twice.
One == CHOOSE c \in Stays : TRUE
Visits(one, others) == [c \in Stays |-> IF c = One THEN one ELSE others]
SmallBounds ==
    {[visits |-> Visits(1, 1), shared |-> {One}, handlers |-> 1, failures |-> 0],
     [visits |-> Visits(1, 1), shared |-> Stays, handlers |-> 0, failures |-> 1],
     [visits |-> Visits(1, 0), shared |-> {One}, handlers |-> 2, failures |-> 1],
     [visits |-> Visits(2, 0), shared |-> {One}, handlers |-> 2, failures |-> 0]}

\* one set of allowances is enough where the behaviour is one of another module
TalksInit ==
    /\ part \in {"places", "summaries", "stay"}
    /\ MemberInit /\ SummaryInit /\ StayInit
    /\ part = "places" \/ left = CHOOSE a \in SmallAllowances : TRUE
    /\ part = "stay" \/ bound = CHOOSE b \in SmallBounds : TRUE

TalksNext ==
    \/ part = "places" /\ MemberNext /\ UNCHANGED <<part, summaryVars, stayVars>>
    \/ part = "summaries" /\ SummaryNext /\ UNCHANGED <<part, memberVars, stayVars>>
    \/ part = "stay" /\ StayNext /\ UNCHANGED <<part, memberVars, summaryVars>>

TalksSpec == TalksInit /\ [][TalksNext]_<<part, memberVars, summaryVars, stayVars>>

\* The type invariants of the modules.
TalksTypeOK == MemberTypeOK /\ SummaryTypeOK /\ StayTypeOK
=============================================================================
