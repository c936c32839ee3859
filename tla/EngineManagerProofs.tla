------------------------- MODULE EngineManagerProofs -------------------------
(***************************************************************************)
(* Proofs about the supervisor of the engine, for every number of polls    *)
(* and in every environment.                                               *)
(***************************************************************************)
EXTENDS EngineManager, TLAPS

USE ManagerConstants

(* Each step preserves the inductive invariant. *)
LEMMA SupervisorStep ==
    ASSUME SupervisorInv, [SupNext]_supVars
    PROVE  SupervisorInv'
<1> USE DEF SupervisorInv, SupTypeOK, ChildIsOwn, CleanStop, Settled, mgrVars, procVars
<1>1. CASE StartCalled
  BY <1>1 DEF StartCalled
<1>2. CASE ProbeAnswered
  BY <1>2 DEF ProbeAnswered, Answer
<1>3. CASE Attach
  BY <1>3 DEF Attach
<1>4. CASE Spawn
  <2>1. ~dev /\ own = "none" /\ exit = "none" /\ quit # "settled" /\ start = "absent"
    BY <1>4 DEF Spawn
  <2>2. CASE own' = "booting"
    BY <1>4, <2>1, <2>2 DEF Spawn
  <2>3. CASE own' = "failed"
    BY <1>4, <2>1, <2>3 DEF Spawn
  <2>4. CASE own' = own
    BY <1>4, <2>1, <2>4 DEF Spawn
  <2> QED
    BY <1>4, <2>2, <2>3, <2>4 DEF Spawn
<1>5. CASE PollAnswered
  BY <1>5 DEF PollAnswered, Answer
<1>6. CASE PollYes
  BY <1>6 DEF PollYes
<1>7. CASE PollNo
  BY <1>7 DEF PollNo
<1>8. CASE Deadline
  BY <1>8 DEF Deadline
<1>9. CASE Exited
  BY <1>9 DEF Exited
<1>10. CASE ReprobeAnswered
  BY <1>10 DEF ReprobeAnswered
<1>11. CASE ReprobeDone
  BY <1>11 DEF ReprobeDone
<1>12. CASE Stop
  BY <1>12 DEF Stop
<1>13. CASE OwnUp
  BY <1>13 DEF OwnUp
<1>14. CASE OwnExits
  BY <1>14 DEF OwnExits
<1>15. CASE OtherChanges
  BY <1>15 DEF OtherChanges
<1>16. CASE UNCHANGED supVars
  BY <1>16 DEF supVars
<1> QED
  BY <1>1, <1>2, <1>3, <1>4, <1>5, <1>6, <1>7, <1>8, <1>9, <1>10, <1>11, <1>12,
     <1>13, <1>14, <1>15, <1>16 DEF SupNext, ManagerStep, ProcessStep

(* Every reachable state satisfies the inductive invariant. *)
THEOREM SupervisorCorrect == SupSpec => []SupervisorInv
<1>1. SupInit => SupervisorInv
  <2> SUFFICES ASSUME SupInit PROVE SupervisorInv
    OBVIOUS
  <2>1. dev \in BOOLEAN /\ other \in BOOLEAN /\ child = FALSE
    BY DEF SupInit
  <2>2. SupTypeOK
    <3>1. polls \in 0..MaxPolls
      BY SMT DEF SupInit
    <3>2. /\ status \in {"starting", "ready", "error", "stopped"}
          /\ start \in {"idle", "probe", "found", "absent", "poll", "pollYes", "pollNo", "done"}
          /\ exit \in {"none", "probe", "yes", "no", "done"}
          /\ own \in {"none", "booting", "failed", "up", "killed", "exited", "gone"}
          /\ quit \in {"no", "early", "settled"}
      BY DEF SupInit
    <3>3. child \in BOOLEAN /\ external \in BOOLEAN
      BY Zenon DEF SupInit
    <3> QED
      BY <2>1, <3>1, <3>2, <3>3, Zenon DEF SupTypeOK
  <2>3. ChildIsOwn /\ CleanStop
    BY <2>1 DEF SupInit, ChildIsOwn, CleanStop
  <2> QED
    BY <2>2, <2>3 DEF SupInit, SupervisorInv
<1>2. SupervisorInv /\ [SupNext]_supVars => SupervisorInv'
  BY SupervisorStep
<1> QED
  BY <1>1, <1>2, PTL DEF SupSpec

(* Quitting after start() has settled kills the engine that was spawned,   *)
(* and no late exit event brings another status back.                      *)
THEOREM CleanStopCorrect == SupSpec => []CleanStop
<1>1. SupervisorInv => CleanStop
  BY DEF SupervisorInv
<1> QED
  BY <1>1, SupervisorCorrect, PTL

(* Whatever runs of ours is in the handle that stop() would kill, also     *)
(* after a spawn that failed without throwing.                             *)
THEOREM ChildIsOwnCorrect == SupSpec => []ChildIsOwn
<1>1. SupervisorInv => ChildIsOwn
  BY DEF SupervisorInv
<1> QED
  BY <1>1, SupervisorCorrect, PTL
=============================================================================
