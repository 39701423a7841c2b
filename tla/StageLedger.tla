----------------------------- MODULE StageLedger -----------------------------
(***************************************************************************)
(* What provision promises of its stages, seen from outside: the host is   *)
(* worked on for the first stage the state file does not record, a stage   *)
(* is recorded when it is in force, and what is recorded stays in force.   *)
(* That is what lets repair skip the stages that are recorded.             *)
(***************************************************************************)
CONSTANTS
  Stage,     \* the stages
  Before     \* Stage -> the stages before it

VARIABLES
  inForce,   \* stages whose effects are on the host
  recorded   \* stages the state file records

ledgerVars == <<inForce, recorded>>

(* A host may come with the effects of some stages.                        *)
LedgerInit ==
  /\ inForce \in SUBSET Stage
  /\ recorded = {}

IsNext(s) == s \notin recorded /\ Before[s] \subseteq recorded

(* A stage that is interrupted and repeated may be undone on the way.      *)
Perform(s) ==
  /\ IsNext(s)
  /\ inForce' \in {inForce \union {s}, inForce \ {s}}
  /\ UNCHANGED recorded

Record(s) ==
  /\ IsNext(s)
  /\ s \in inForce
  /\ recorded' = recorded \union {s}
  /\ UNCHANGED inForce

LedgerNext == \E s \in Stage : Perform(s) \/ Record(s)

LedgerSpec == LedgerInit /\ [][LedgerNext]_ledgerVars
=============================================================================
