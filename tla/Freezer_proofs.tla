--------------------------- MODULE Freezer_proofs ---------------------------
(***************************************************************************)
(* Proofs about the freezer, for any sets of user tasks and kernel threads.*)
(*                                                                         *)
(* FlagInv says what the two flags of a task can be at each place, ThawInv *)
(* what thawing has achieved so far, and RoundInv what a round of the      *)
(* freezer that found nothing to do has established.                       *)
(***************************************************************************)
EXTENDS Freezer, TLAPS

Scanning == {"scan", "ask", "flag", "signal", "count"}

(* p is in the refrigerator, or goes there before it does anything else. *)
Settled(p) ==
  \/ p \in frozen /\ at[p] \in InIce \cup {"mark"}
  \/ p \in freezing /\ at[p] \in {"stopped", "vfork", "entry"}

FlagInv ==
  /\ \A p \in Tasks : p \in frozen => at[p] \in InIce \cup {"mark"}
  /\ \A p \in Tasks : p \in frozen /\ p \in freezing => at[p] = "mark"
  /\ \A p \in Tasks : at[p] = "mark" => p \in frozen
  /\ \A p \in Tasks : p \in skip => at[p] = "vfork"

ThawInv ==
  /\ step = "idle" => freezing = {} /\ frozen = {}
  /\ step \in {"thaw", "wake"} /\ ~sig_only =>
       \A p \in Tasks \ rest : p \notin freezing /\ p \notin frozen

RoundInv ==
  /\ step \in {"signal", "count"} => task \in freezing \cup frozen
  /\ step \in Scanning /\ ~todo =>
       \A p \in Tasks \ rest :
         (step = "scan" \/ p # task) /\ (sig_only => p \in UserTasks)
           => Settled(p)
  /\ step = "done" => \A p \in Tasks : Settled(p)

FreezerInv == TypeOK /\ FlagInv /\ ThawInv /\ RoundInv

USE DEF Tasks

-----------------------------------------------------------------------------
(* The types. *)
LEMMA TypeStep == TypeOK /\ [Next]_vars => TypeOK'
<1> SUFFICES ASSUME TypeOK, [Next]_vars PROVE TypeOK'
  OBVIOUS
<1> USE DEF TypeOK, Places, InIce, taskvars, freezervars
<1>1. CASE freeze_processes
  BY <1>1 DEF freeze_processes, start_round
<1>2. CASE FreezerStep
  <2>1. CASE freeze_task
    BY <2>1 DEF freeze_task
  <2>2. CASE set_freeze_flag
    BY <2>2 DEF set_freeze_flag
  <2>3. CASE signal_task
    <3>1. at' \in [Tasks -> Places]
      BY <2>3 DEF signal_task
    <3> QED
      BY <2>3, <3>1 DEF signal_task
  <2>4. CASE count_task
    BY <2>4 DEF count_task
  <2>5. CASE next_round
    BY <2>5 DEF next_round, start_round
  <2>6. CASE round_done
    BY <2>6 DEF round_done, start_round
  <2>7. CASE \E p \in Tasks : scan(p)
    BY <2>7 DEF scan
  <2> QED
    BY <1>2, <2>1, <2>2, <2>3, <2>4, <2>5, <2>6, <2>7 DEF FreezerStep
<1>3. CASE give_up
  BY <1>3 DEF give_up
<1>4. CASE thaw_processes
  BY <1>4 DEF thaw_processes
<1>5. CASE ThawStep
  <2>1. CASE wake_up_process
    BY <2>1 DEF wake_up_process
  <2>2. CASE thaw_tasks_done
    BY <2>2 DEF thaw_tasks_done
  <2>3. ASSUME NEW p \in Tasks, thaw_process(p) PROVE TypeOK'
    BY <2>3 DEF thaw_process
  <2>4. ASSUME NEW p \in Tasks, cancel_freezing(p) PROVE TypeOK'
    BY <2>4 DEF cancel_freezing
  <2> QED
    BY <1>5, <2>1, <2>2, <2>3, <2>4 DEF ThawStep
<1>6. ASSUME NEW p \in Tasks, TaskStep(p) PROVE TypeOK'
  <2>1. CASE leaves_cpu(p)
    BY <2>1 DEF leaves_cpu, move
  <2>2. CASE wakes_up(p)
    BY <2>2 DEF wakes_up, move
  <2>3. CASE try_to_freeze(p)
    BY <2>3 DEF try_to_freeze, move
  <2>4. CASE freezer_count(p)
    BY <2>4 DEF freezer_count, move
  <2>5. CASE refrigerator(p)
    BY <2>5 DEF refrigerator, move
  <2>6. CASE frozen_process(p)
    BY <2>6 DEF frozen_process, move
  <2>7. CASE refrigerator_loop(p)
    BY <2>7 DEF refrigerator_loop, move
  <2> QED
    BY <1>6, <2>1, <2>2, <2>3, <2>4, <2>5, <2>6, <2>7
    DEF TaskStep, RefrigeratorStep
<1>7. CASE UNCHANGED vars
  BY <1>7 DEF vars
<1> QED
  BY <1>1, <1>2, <1>3, <1>4, <1>5, <1>6, <1>7 DEF Next

(* The flags: only the task itself becomes frozen, and under task_lock. *)
LEMMA FlagStep == TypeOK /\ FlagInv /\ [Next]_vars => FlagInv'
<1> SUFFICES ASSUME TypeOK, FlagInv, [Next]_vars PROVE FlagInv'
  OBVIOUS
<1> USE DEF TypeOK, FlagInv, Places, InIce, taskvars, freezervars
<1>1. CASE freeze_processes
  BY <1>1 DEF freeze_processes, start_round
<1>2. CASE freeze_task
  BY <1>2 DEF freeze_task
<1>3. CASE set_freeze_flag
  BY <1>3 DEF set_freeze_flag
<1>4. CASE signal_task
  BY <1>4 DEF signal_task
<1>5. CASE count_task
  BY <1>5 DEF count_task
<1>6. CASE next_round
  BY <1>6 DEF next_round, start_round
<1>7. CASE round_done
  BY <1>7 DEF round_done, start_round
<1>8. ASSUME NEW p \in Tasks, scan(p) PROVE FlagInv'
  BY <1>8 DEF scan
<1>9. CASE give_up
  BY <1>9 DEF give_up
<1>10. CASE thaw_processes
  BY <1>10 DEF thaw_processes
<1>11. CASE wake_up_process
  BY <1>11 DEF wake_up_process
<1>12. CASE thaw_tasks_done
  BY <1>12 DEF thaw_tasks_done
<1>13. ASSUME NEW p \in Tasks, thaw_process(p) PROVE FlagInv'
  BY <1>13 DEF thaw_process, TaskLocked
<1>14. ASSUME NEW p \in Tasks, cancel_freezing(p) PROVE FlagInv'
  BY <1>14 DEF cancel_freezing, TaskLocked
<1>15. ASSUME NEW p \in Tasks, leaves_cpu(p) PROVE FlagInv'
  BY <1>15 DEF leaves_cpu, move
<1>16. ASSUME NEW p \in Tasks, wakes_up(p) PROVE FlagInv'
  BY <1>16 DEF wakes_up, move
<1>17. ASSUME NEW p \in Tasks, try_to_freeze(p) PROVE FlagInv'
  BY <1>17 DEF try_to_freeze, move
<1>18. ASSUME NEW p \in Tasks, freezer_count(p) PROVE FlagInv'
  BY <1>18 DEF freezer_count, move
<1>19. ASSUME NEW p \in Tasks, refrigerator(p) PROVE FlagInv'
  BY <1>19 DEF refrigerator, move
<1>20. ASSUME NEW p \in Tasks, frozen_process(p) PROVE FlagInv'
  BY <1>20 DEF frozen_process, move
<1>21. ASSUME NEW p \in Tasks, refrigerator_loop(p) PROVE FlagInv'
  BY <1>21 DEF refrigerator_loop, move
<1>22. CASE UNCHANGED vars
  BY <1>22 DEF vars
<1> QED
  BY <1>1, <1>2, <1>3, <1>4, <1>5, <1>6, <1>7, <1>8, <1>9, <1>10, <1>11,
     <1>12, <1>13, <1>14, <1>15, <1>16, <1>17, <1>18, <1>19, <1>20, <1>21,
     <1>22
     DEF Next, FreezerStep, ThawStep, TaskStep, RefrigeratorStep


(* Thawing: a task that was visited is not frozen and is not asked again. *)
LEMMA ThawingStep == TypeOK /\ FlagInv /\ ThawInv /\ [Next]_vars => ThawInv'
<1> SUFFICES ASSUME TypeOK, FlagInv, ThawInv, [Next]_vars PROVE ThawInv'
  OBVIOUS
<1> USE DEF TypeOK, FlagInv, ThawInv, Places, InIce, taskvars, freezervars
<1>1. CASE freeze_processes
  BY <1>1 DEF freeze_processes, start_round
<1>2. CASE freeze_task
  BY <1>2 DEF freeze_task
<1>3. CASE set_freeze_flag
  BY <1>3 DEF set_freeze_flag
<1>4. CASE signal_task
  BY <1>4 DEF signal_task
<1>5. CASE count_task
  BY <1>5 DEF count_task
<1>6. CASE next_round
  BY <1>6 DEF next_round, start_round
<1>7. CASE round_done
  BY <1>7 DEF round_done, start_round
<1>8. ASSUME NEW p \in Tasks, scan(p) PROVE ThawInv'
  BY <1>8 DEF scan
<1>9. CASE give_up
  BY <1>9 DEF give_up
<1>10. CASE thaw_processes
  BY <1>10 DEF thaw_processes
<1>11. CASE wake_up_process
  BY <1>11 DEF wake_up_process
<1>12. CASE thaw_tasks_done
  BY <1>12 DEF thaw_tasks_done
<1>13. ASSUME NEW p \in Tasks, thaw_process(p) PROVE ThawInv'
  BY <1>13 DEF thaw_process, TaskLocked
<1>14. ASSUME NEW p \in Tasks, cancel_freezing(p) PROVE ThawInv'
  BY <1>14 DEF cancel_freezing, TaskLocked
<1>15. ASSUME NEW p \in Tasks, leaves_cpu(p) PROVE ThawInv'
  BY <1>15 DEF leaves_cpu, move
<1>16. ASSUME NEW p \in Tasks, wakes_up(p) PROVE ThawInv'
  BY <1>16 DEF wakes_up, move
<1>17. ASSUME NEW p \in Tasks, try_to_freeze(p) PROVE ThawInv'
  BY <1>17 DEF try_to_freeze, move
<1>18. ASSUME NEW p \in Tasks, freezer_count(p) PROVE ThawInv'
  BY <1>18 DEF freezer_count, move
<1>19. ASSUME NEW p \in Tasks, refrigerator(p) PROVE ThawInv'
  BY <1>19 DEF refrigerator, move
<1>20. ASSUME NEW p \in Tasks, frozen_process(p) PROVE ThawInv'
  BY <1>20 DEF frozen_process, move
<1>21. ASSUME NEW p \in Tasks, refrigerator_loop(p) PROVE ThawInv'
  BY <1>21 DEF refrigerator_loop, move
<1>22. CASE UNCHANGED vars
  BY <1>22 DEF vars
<1> QED
  BY <1>1, <1>2, <1>3, <1>4, <1>5, <1>6, <1>7, <1>8, <1>9, <1>10, <1>11,
     <1>12, <1>13, <1>14, <1>15, <1>16, <1>17, <1>18, <1>19, <1>20, <1>21,
     <1>22
     DEF Next, FreezerStep, ThawStep, TaskStep, RefrigeratorStep


(* Freezing: a task that a round passes by is settled and stays so. *)
LEMMA RoundStep == TypeOK /\ FlagInv /\ RoundInv /\ [Next]_vars => RoundInv'
<1> SUFFICES ASSUME TypeOK, FlagInv, RoundInv, [Next]_vars PROVE RoundInv'
  OBVIOUS
<1> USE DEF TypeOK, FlagInv, RoundInv, Settled, Scanning, Places, InIce, taskvars,
            freezervars
<1>1. CASE freeze_processes
  BY <1>1 DEF freeze_processes, start_round
<1>2. CASE freeze_task
  BY <1>2 DEF freeze_task
<1>3. CASE set_freeze_flag
  BY <1>3, TasksAssumption DEF set_freeze_flag
<1>4. CASE signal_task
  BY <1>4, TasksAssumption DEF signal_task
<1>5. CASE count_task
  BY <1>5 DEF count_task
<1>6. CASE next_round
  BY <1>6 DEF next_round, start_round
<1>7. CASE round_done
  BY <1>7 DEF round_done, start_round
<1>8. ASSUME NEW p \in Tasks, scan(p) PROVE RoundInv'
  BY <1>8 DEF scan
<1>9. CASE give_up
  BY <1>9 DEF give_up
<1>10. CASE thaw_processes
  BY <1>10 DEF thaw_processes
<1>11. CASE wake_up_process
  BY <1>11 DEF wake_up_process
<1>12. CASE thaw_tasks_done
  BY <1>12 DEF thaw_tasks_done
<1>13. ASSUME NEW p \in Tasks, thaw_process(p) PROVE RoundInv'
  BY <1>13 DEF thaw_process, TaskLocked
<1>14. ASSUME NEW p \in Tasks, cancel_freezing(p) PROVE RoundInv'
  BY <1>14 DEF cancel_freezing, TaskLocked
<1>15. ASSUME NEW p \in Tasks, leaves_cpu(p) PROVE RoundInv'
  BY <1>15 DEF leaves_cpu, move
<1>16. ASSUME NEW p \in Tasks, wakes_up(p) PROVE RoundInv'
  BY <1>16 DEF wakes_up, move
<1>17. ASSUME NEW p \in Tasks, try_to_freeze(p) PROVE RoundInv'
  BY <1>17 DEF try_to_freeze, move
<1>18. ASSUME NEW p \in Tasks, freezer_count(p) PROVE RoundInv'
  BY <1>18 DEF freezer_count, move
<1>19. ASSUME NEW p \in Tasks, refrigerator(p) PROVE RoundInv'
  BY <1>19 DEF refrigerator, move
<1>20. ASSUME NEW p \in Tasks, frozen_process(p) PROVE RoundInv'
  BY <1>20 DEF frozen_process, move
<1>21. ASSUME NEW p \in Tasks, refrigerator_loop(p) PROVE RoundInv'
  BY <1>21 DEF refrigerator_loop, move
<1>22. CASE UNCHANGED vars
  BY <1>22 DEF vars
<1> QED
  BY <1>1, <1>2, <1>3, <1>4, <1>5, <1>6, <1>7, <1>8, <1>9, <1>10, <1>11,
     <1>12, <1>13, <1>14, <1>15, <1>16, <1>17, <1>18, <1>19, <1>20, <1>21,
     <1>22
     DEF Next, FreezerStep, ThawStep, TaskStep, RefrigeratorStep

-----------------------------------------------------------------------------
(* The invariant holds in every reachable state. *)
THEOREM FreezerInvariance == Spec => []FreezerInv
<1>1. Init => FreezerInv
  BY DEF Init, FreezerInv, TypeOK, FlagInv, ThawInv, RoundInv, Scanning,
         Places, InIce
<1>2. FreezerInv /\ [Next]_vars => FreezerInv'
  BY TypeStep, FlagStep, ThawingStep, RoundStep DEF FreezerInv
<1> QED
  BY <1>1, <1>2, PTL DEF Spec

(* Every variable of the freezer keeps its type, also the places of tasks  *)
(* that are asked to freeze, freeze and are thawed in any order.           *)
THEOREM TypeTheorem == Spec => []TypeOK
<1>1. FreezerInv => TypeOK
  BY DEF FreezerInv
<1> QED
  BY <1>1, FreezerInvariance, PTL

(* After every suspend attempt, whether tasks could be frozen or not, no   *)
(* task is left in the refrigerator and none is still asked to go there.   *)
THEOREM NobodyLeftFrozenTheorem == Spec => []NobodyLeftFrozen
<1>1. FreezerInv => NobodyLeftFrozen
  BY DEF FreezerInv, ThawInv, NobodyLeftFrozen
<1> QED
  BY <1>1, FreezerInvariance, PTL

(* While freeze_processes has succeeded and nothing is thawed, no task runs*)
(* anything but the way into the refrigerator.                             *)
THEOREM NobodyRunsTheorem == Spec => []NobodyRunsWhenDone
<1>1. FreezerInv => NobodyRunsWhenDone
  BY DEF FreezerInv, RoundInv, Settled, NobodyRunsWhenDone
<1> QED
  BY <1>1, FreezerInvariance, PTL
=============================================================================
