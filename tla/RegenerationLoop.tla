-------------------------- MODULE RegenerationLoop --------------------------
(***************************************************************************)
(* What EnvironmentAnalyzer promises its caller: an analysis asks the      *)
(* model again until one answer is valid, at most Limit times, reports as  *)
(* soon as there is one and fails only when none of the Limit answers was; *)
(* the time limit may stop it at any moment.  Nothing here knows of        *)
(* threads, locks or answers that come too late.                           *)
(***************************************************************************)
EXTENDS Naturals

CONSTANTS Runs, Limit

VARIABLES
    state,  \* of each analysis
    tries   \* answers each analysis has got

loopVars == <<state, tries>>

LoopInit ==
    /\ state = [r \in Runs |-> "idle"]
    /\ tries = [r \in Runs |-> 0]

Ask(r) ==
    /\ state[r] = "idle"
    /\ state' = [state EXCEPT ![r] = "asking"]
    /\ UNCHANGED tries

\* An answer, the failure of a call counted as one.
Answer(r) ==
    /\ state[r] = "asking"
    /\ tries' = [tries EXCEPT ![r] = @ + 1]
    /\ \/ state' = [state EXCEPT ![r] = "reported"]
       \/ tries'[r] < Limit /\ UNCHANGED state
       \/ tries'[r] = Limit /\ state' = [state EXCEPT ![r] = "failed"]

Stop(r) ==
    /\ state[r] = "asking"
    /\ state' = [state EXCEPT ![r] = "cancelled"]
    /\ UNCHANGED tries

LoopNext == \E r \in Runs : Ask(r) \/ Answer(r) \/ Stop(r)

\* Whoever asks gets an answer.
LoopSpec ==
    /\ LoopInit
    /\ [][LoopNext]_loopVars
    /\ \A r \in Runs : WF_loopVars(Answer(r))
=============================================================================
