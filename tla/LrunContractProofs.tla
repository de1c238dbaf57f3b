------------------------- MODULE LrunContractProofs -------------------------
(***************************************************************************)
(* The contract of one lrun run is honest: one report at most, a finished *)
(* verdict only for an ended command, status 0 only with a report.        *)
(***************************************************************************)
EXTENDS LrunContract, TLAPS

\* ContractInv holds initially.
LEMMA InitContractInv == Init => ContractInv
  BY DEF Init, ContractInv, TypeOK, Stages

\* Every step keeps ContractInv: the report is written from the watch,
\* which is entered once, before any status is set; the exits without a
\* report set a nonzero status.
LEMMA ContractInvStep == ContractInv /\ [Next]_vars => ContractInv'
<1> SUFFICES ASSUME ContractInv, [Next]_vars PROVE ContractInv'
  OBVIOUS
<1> USE DEF ContractInv, TypeOK, Stages
<1>1. CASE Start
  BY <1>1 DEF Start
<1>2. CASE Watch
  BY <1>2 DEF Watch
<1>3. CASE Fatal
  BY <1>3 DEF Fatal
<1>4. CASE Fail
  BY <1>4 DEF Fail
<1>5. ASSUME NEW v \in {"finished", "exceeded"}, Report(v) PROVE ContractInv'
  BY <1>5 DEF Report
<1>6. CASE Abort
  BY <1>6 DEF Abort
<1>7. CASE Leave
  BY <1>7 DEF Leave
<1>8. CASE Die
  BY <1>8 DEF Die
<1>9. CASE End
  BY <1>9 DEF End
<1>10. CASE UNCHANGED vars
  BY <1>10 DEF vars
<1>11. QED
  BY <1>1, <1>2, <1>3, <1>4, <1>5, <1>6, <1>7, <1>8, <1>9, <1>10 DEF Next

\* ContractInv holds in every state of the contract.
THEOREM ContractInvHolds == SafeSpec => []ContractInv
  BY InitContractInv, ContractInvStep, PTL DEF SafeSpec

\* A run writes at most one status report, reports a finished command only
\* once it has ended, and leaves with status 0 only after its report.
THEOREM HonestHolds == SafeSpec => []Honest
<1>1. ContractInv => Honest
  BY DEF ContractInv, Honest
<1>2. QED
  BY <1>1, ContractInvHolds, PTL
====
