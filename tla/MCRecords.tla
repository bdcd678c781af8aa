------------------------------ MODULE MCRecords ------------------------------
(***************************************************************************)
(* One TLC run for small modules that share no variable: the browser's     *)
(* view of the events of a run, the commands and the store of a run, the   *)
(* agent of an NPC and the tables of the database.  A behaviour is one of  *)
(* one of them, chosen in its initial state; the variables of the others   *)
(* keep their initial values.                                              *)
(***************************************************************************)
EXTENDS ClientStore, RunStore, NpcAgent, RunTables, TLC

VARIABLE part

\* sections are interchangeable: no definition orders or names them
RecordsSymmetry == Permutations(Sections)

RecordsInit ==
    /\ part \in {"client", "store", "agent", "tables"}
    /\ ClientInit /\ StoreInit /\ AgentInit /\ TablesInit
    /\ part = "tables" \/ revision = 0

RecordsNext ==
    \/ part = "client" /\ ClientNext
       /\ UNCHANGED <<part, storeVars, agentVars, tableVars>>
    \/ part = "store" /\ StoreNext
       /\ UNCHANGED <<part, allVars, agentVars, tableVars>>
    \/ part = "agent" /\ AgentNext
       /\ UNCHANGED <<part, allVars, storeVars, tableVars>>
    \/ part = "tables" /\ TablesNext
       /\ UNCHANGED <<part, allVars, storeVars, agentVars>>

RecordsSpec ==
    RecordsInit
    /\ [][RecordsNext]_<<part, allVars, storeVars, agentVars, tableVars>>

\* The type invariants of the modules.
RecordsTypeOK == ClientTypeOK /\ StoreTypeOK /\ AgentTypeOK /\ TablesTypeOK
=============================================================================
