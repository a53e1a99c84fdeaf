------------------------------ MODULE Freezer -------------------------------
(***************************************************************************)
(* The freezer: kernel/kernel/power/process.c stops all tasks before the   *)
(* devices are suspended and restarts them afterwards; the per-task half is*)
(* in kernel/kernel/freezer.c and kernel/include/linux/freezer.h.          *)
(*                                                                         *)
(* One thread, the freezer, walks all tasks again and again; each task     *)
(* takes itself to the refrigerator.  The model has one action per access  *)
(* to the flags of a task that others can see, as the comments in the code *)
(* do, and so allows for more CPUs than this phone has.                    *)
(*                                                                         *)
(* Tasks are the freezeable ones: not PF_NOFREEZE, not exited, not the     *)
(* caller.  No cgroup freezer is configured.                               *)
(***************************************************************************)
EXTENDS Naturals

CONSTANTS
  UserTasks,      \* tasks without PF_FREEZER_NOSIG
  KernelThreads   \* tasks with PF_FREEZER_NOSIG

Tasks == UserTasks \cup KernelThreads

ASSUME TasksAssumption == UserTasks \cap KernelThreads = {}

VARIABLES
  freezing,   \* tasks with TIF_FREEZE
  frozen,     \* tasks with PF_FROZEN
  skip,       \* tasks with PF_FREEZER_SKIP
  blocked,    \* tasks in TASK_UNINTERRUPTIBLE inside the refrigerator
  at,         \* at[p]: where task p is
  step,       \* where the freezer is
  sig_only,   \* its argument: first user space, then everything
  rest,       \* tasks that its loop has not visited yet
  task,       \* the task it is working on
  todo        \* its loop met a task that is not frozen

taskvars == <<skip, blocked, at>>
vars == <<freezing, frozen, taskvars, step, sig_only, rest, task, todo>>

(* A task may be running, in interruptible or uninterruptible sleep,       *)
(* stopped, or a vfork parent; the other places are in refrigerator().     *)
InIce == {"ice", "test", "sched"}
Places == {"run", "sleep", "disk", "stopped", "vfork", "entry", "mark"}
            \cup InIce

(* task_lock(p) is held by p itself. *)
TaskLocked(p) == at[p] = "mark"

move(p, place) == at' = [at EXCEPT ![p] = place]

freezervars == <<step, sig_only, rest, task, todo>>

-----------------------------------------------------------------------------
(* What tasks do *)

(* A planted bug: freezer_do_not_count without its test of current->mm.    *)
leaves_cpu_anyone(p) ==
  /\ at[p] = "run"
  /\ move(p, "vfork")
  /\ skip' = skip \cup {p}
  /\ UNCHANGED <<freezing, frozen, blocked, freezervars>>

(* A running task goes to sleep, is stopped, or forks with vfork.          *)
leaves_cpu(p) ==
  /\ at[p] = "run"
  /\ \/ move(p, "sleep") /\ UNCHANGED skip
     \/ move(p, "disk") /\ UNCHANGED skip
     \/ p \in UserTasks /\ move(p, "stopped") /\ UNCHANGED skip
     \/ p \in UserTasks /\ move(p, "vfork") /\ skip' = skip \cup {p}
  /\ UNCHANGED <<freezing, frozen, blocked, freezervars>>

(* The event it sleeps for comes. *)
wakes_up(p) ==
  /\ at[p] \in {"sleep", "disk"}
  /\ move(p, "run")
  /\ UNCHANGED <<freezing, frozen, skip, blocked, freezervars>>

(* The two conditions of try_to_freeze: one for a running task, when it    *)
(* returns to user space or in the main loop of a kernel thread, and one   *)
(* for a stopped task that is continued.                                   *)
try_to_freeze(p) ==
  /\ at[p] \in {"run", "stopped"}
  /\ p \in freezing \/ at[p] = "stopped"
  /\ move(p, IF p \in freezing THEN "entry" ELSE "run")
  /\ UNCHANGED <<freezing, frozen, skip, blocked, freezervars>>

(* The vfork child is done: freezer_count clears the flag and calls        *)
(* try_to_freeze as soon as the parent runs.                               *)
freezer_count(p) ==
  /\ at[p] = "vfork"
  /\ \/ p \in skip /\ skip' = skip \ {p} /\ UNCHANGED at
     \/ /\ p \notin skip
        /\ move(p, IF p \in freezing THEN "entry" ELSE "run")
        /\ UNCHANGED skip
  /\ UNCHANGED <<freezing, frozen, blocked, freezervars>>

(* refrigerator: task_lock, check again; frozen_process sets PF_FROZEN ... *)
refrigerator(p) ==
  /\ at[p] = "entry"
  /\ IF p \in freezing
     THEN frozen' = frozen \cup {p} /\ move(p, "mark")
     ELSE UNCHANGED frozen /\ move(p, "run")
  /\ UNCHANGED <<freezing, skip, blocked, freezervars>>

(* ... and then clears TIF_FREEZE, still under task_lock. *)
frozen_process(p) ==
  /\ at[p] = "mark"
  /\ freezing' = freezing \ {p}
  /\ move(p, "ice")
  /\ UNCHANGED <<frozen, skip, blocked, freezervars>>

(* A planted bug: the task is marked as sleeping after the test of frozen, *)
(* not before.                                                             *)
refrigerator_loop_late(p) ==
  /\ UNCHANGED <<freezing, frozen, skip, freezervars>>
  /\ \/ /\ at[p] = "ice"
        /\ move(p, IF p \in frozen THEN "test" ELSE "run")
        /\ UNCHANGED blocked
     \/ /\ at[p] = "test"
        /\ blocked' = blocked \cup {p}
        /\ move(p, "sched")
     \/ /\ at[p] = "sched"
        /\ p \notin blocked
        /\ move(p, "ice")
        /\ UNCHANGED blocked

(* The loop: TASK_UNINTERRUPTIBLE, then the test of frozen, then schedule. *)
refrigerator_loop(p) ==
  /\ UNCHANGED <<freezing, frozen, skip, freezervars>>
  /\ \/ /\ at[p] = "ice"
        /\ blocked' = blocked \cup {p}
        /\ move(p, "test")
     \/ /\ at[p] = "test"
        /\ IF p \in frozen
           THEN move(p, "sched") /\ UNCHANGED blocked
           ELSE move(p, "run") /\ blocked' = blocked \ {p}
     \/ /\ at[p] = "sched"
        /\ p \notin blocked
        /\ move(p, "ice")
        /\ UNCHANGED blocked

-----------------------------------------------------------------------------
(* try_to_freeze_tasks *)

start_round(sig) ==
  /\ sig_only' = sig
  /\ rest' = Tasks
  /\ todo' = FALSE
  /\ step' = "scan"

(* freeze_processes is called by suspend_prepare. *)
freeze_processes ==
  /\ step = "idle"
  /\ start_round(TRUE)
  /\ UNCHANGED <<freezing, frozen, taskvars, task>>

(* The next task of the round, unless it is frozen. *)
scan(p) ==
  /\ step = "scan"
  /\ p \in rest
  /\ rest' = rest \ {p}
  /\ task' = p
  /\ step' = IF p \in frozen THEN "scan" ELSE "ask"
  /\ UNCHANGED <<freezing, frozen, taskvars, sig_only, todo>>

(* freeze_task: freezing is read first, because a task that freezes itself *)
(* is first marked as frozen and then no longer freezing.                  *)
freeze_task ==
  /\ step = "ask"
  /\ step' = IF task \in freezing THEN "signal" ELSE "flag"
  /\ UNCHANGED <<freezing, frozen, taskvars, sig_only, rest, task, todo>>

(* A planted bug: frozen is not read again after freezing, so that a task  *)
(* that freezes in between is asked to freeze once more.                   *)
set_freeze_flag_swapped ==
  /\ step = "flag"
  /\ freezing' = IF sig_only /\ task \in KernelThreads THEN freezing
                 ELSE freezing \cup {task}
  /\ step' = IF sig_only /\ task \in KernelThreads THEN "scan" ELSE "signal"
  /\ UNCHANGED <<frozen, taskvars, sig_only, rest, task, todo>>

(* Not freezing: the task is left alone if it is frozen by now, or if it   *)
(* is a kernel thread and only user space is to be frozen.                 *)
set_freeze_flag ==
  /\ step = "flag"
  /\ IF task \in frozen \/ (sig_only /\ task \in KernelThreads)
     THEN step' = "scan" /\ UNCHANGED freezing
     ELSE step' = "signal" /\ freezing' = freezing \cup {task}
  /\ UNCHANGED <<frozen, taskvars, sig_only, rest, task, todo>>

(* A planted bug: the flag is set but a sleeping task is not woken.        *)
signal_task_silent ==
  /\ step = "signal"
  /\ step' = IF sig_only /\ task \in KernelThreads THEN "scan" ELSE "count"
  /\ UNCHANGED <<freezing, frozen, taskvars, sig_only, rest, task, todo>>

(* fake_signal_wake_up or wake_up_state: the task leaves an interruptible  *)
(* sleep.  A kernel thread still freezing from before is not counted in the*)
(* first phase.                                                            *)
signal_task ==
  /\ step = "signal"
  /\ at' = [at EXCEPT ![task] =
              IF @ = "sleep" /\ ~(sig_only /\ task \in KernelThreads)
              THEN "run" ELSE @]
  /\ step' = IF sig_only /\ task \in KernelThreads THEN "scan" ELSE "count"
  /\ UNCHANGED <<freezing, frozen, skip, blocked, sig_only, rest, task, todo>>

(* A planted bug: every task that was asked is taken as frozen.            *)
count_task_never ==
  /\ step = "count"
  /\ step' = "scan"
  /\ UNCHANGED <<freezing, frozen, taskvars, sig_only, rest, task, todo>>

(* A stopped task and a vfork parent are frozen enough. *)
count_task ==
  /\ step = "count"
  /\ todo' = (todo \/ (at[task] # "stopped" /\ task \notin skip))
  /\ step' = "scan"
  /\ UNCHANGED <<freezing, frozen, taskvars, sig_only, rest, task>>

(* The end of a round: go round again while there is something to do, or   *)
(* give up because of a wake lock or after TIMEOUT.                        *)
next_round ==
  /\ step = "scan"
  /\ rest = {}
  /\ todo
  /\ start_round(sig_only)
  /\ UNCHANGED <<freezing, frozen, taskvars, task>>

give_up ==
  /\ step = "scan"
  /\ rest = {}
  /\ todo
  /\ step' = "cancel"
  /\ rest' = Tasks
  /\ UNCHANGED <<freezing, frozen, taskvars, sig_only, task, todo>>

(* Everything is frozen: user space first, then the kernel threads.  Then  *)
(* devices are suspended and resumed.                                      *)
round_done ==
  /\ step = "scan"
  /\ rest = {}
  /\ ~todo
  /\ IF sig_only
     THEN start_round(FALSE)
     ELSE step' = "done" /\ UNCHANGED <<sig_only, rest, todo>>
  /\ UNCHANGED <<freezing, frozen, taskvars, task>>

(* cancel_freezing under task_lock; recalc_sigpending_and_wake. *)
cancel_freezing(p) ==
  /\ step = "cancel"
  /\ p \in rest
  /\ ~TaskLocked(p)
  /\ rest' = rest \ {p}
  /\ freezing' = freezing \ {p}
  /\ UNCHANGED <<frozen, taskvars, step, sig_only, task, todo>>

-----------------------------------------------------------------------------
(* thaw_processes: by suspend_prepare when freezing failed or memory is    *)
(* short, and by suspend_finish.                                           *)

thaw_processes ==
  /\ \/ step = "done"
     \/ step = "cancel" /\ rest = {}
  /\ step' = "thaw"
  /\ sig_only' = TRUE
  /\ rest' = Tasks
  /\ UNCHANGED <<freezing, frozen, taskvars, task, todo>>

(* thaw_process, under task_lock: a task is thawed, or its freeze request  *)
(* is withdrawn.  The first pass, nosig_only, visits kernel threads only.  *)
thaw_process(p) ==
  /\ step = "thaw"
  /\ p \in rest
  /\ sig_only => p \in KernelThreads
  /\ ~TaskLocked(p)
  /\ rest' = rest \ {p}
  /\ task' = p
  /\ IF p \in frozen
     THEN frozen' = frozen \ {p} /\ step' = "wake" /\ UNCHANGED freezing
     ELSE freezing' = freezing \ {p} /\ UNCHANGED <<frozen, step>>
  /\ UNCHANGED <<taskvars, sig_only, todo>>

wake_up_process ==
  /\ step = "wake"
  /\ blocked' = blocked \ {task}
  /\ step' = "thaw"
  /\ UNCHANGED <<freezing, frozen, skip, at, sig_only, rest, task, todo>>

thaw_tasks_done ==
  /\ step = "thaw"
  /\ IF sig_only
     THEN rest \cap KernelThreads = {} /\ sig_only' = FALSE /\ rest' = Tasks
          /\ UNCHANGED step
     ELSE rest = {} /\ step' = "idle" /\ UNCHANGED <<sig_only, rest>>
  /\ UNCHANGED <<freezing, frozen, taskvars, task, todo>>

-----------------------------------------------------------------------------
FreezerStep ==
  \/ freeze_task \/ set_freeze_flag \/ signal_task \/ count_task
  \/ next_round \/ round_done
  \/ \E p \in Tasks : scan(p)

ThawStep ==
  \/ wake_up_process \/ thaw_tasks_done
  \/ \E p \in Tasks : thaw_process(p) \/ cancel_freezing(p)

RefrigeratorStep(p) ==
  refrigerator(p) \/ frozen_process(p) \/ refrigerator_loop(p)

TaskStep(p) ==
  \/ leaves_cpu(p) \/ wakes_up(p) \/ try_to_freeze(p) \/ freezer_count(p)
  \/ RefrigeratorStep(p)

Init ==
  /\ freezing = {} /\ frozen = {} /\ skip = {} /\ blocked = {}
  /\ at = [p \in Tasks |-> "run"]
  /\ step = "idle"
  /\ sig_only = FALSE
  /\ rest = {}
  /\ task \in Tasks
  /\ todo = FALSE

Next ==
  \/ freeze_processes \/ FreezerStep \/ give_up \/ thaw_processes \/ ThawStep
  \/ \E p \in Tasks : TaskStep(p)

Spec == Init /\ [][Next]_vars

(* The freezer's thread runs, I/O completes, and a running task that was   *)
(* asked to freeze comes to a place where it looks.  Nothing wakes a task  *)
(* from an interruptible sleep but the freezer, and nobody continues a     *)
(* stopped task or ends the wait for a vfork child.                        *)
Fairness ==
  /\ WF_vars(FreezerStep)
  /\ WF_vars(ThawStep)
  /\ WF_vars(step = "cancel" /\ thaw_processes)
  /\ \A p \in Tasks : /\ WF_vars(RefrigeratorStep(p))
                      /\ WF_vars(at[p] = "disk" /\ wakes_up(p))
                      /\ WF_vars(at[p] = "run" /\ try_to_freeze(p))
                      /\ WF_vars(p \notin skip /\ freezer_count(p))

FairSpec == Spec /\ Fairness

-----------------------------------------------------------------------------
(* Every variable has its type. *)
TypeOK ==
  /\ freezing \subseteq Tasks /\ frozen \subseteq Tasks
  /\ skip \subseteq UserTasks /\ blocked \subseteq Tasks
  /\ at \in [Tasks -> Places]
  /\ step \in {"idle", "scan", "ask", "flag", "signal", "count", "cancel", "done",
               "thaw", "wake"}
  /\ sig_only \in BOOLEAN /\ todo \in BOOLEAN
  /\ rest \subseteq Tasks
  /\ task \in Tasks

(* Outside a suspend attempt, successful or not, no task is left frozen and*)
(* no freeze request is left over: the race with refrigerator() that the   *)
(* comment on thaw_process describes does not happen.                      *)
NobodyLeftFrozen ==
  step = "idle" => freezing = {} /\ frozen = {}

(* When freeze_processes succeeds, no task runs until it is thawed: all are*)
(* in the refrigerator, or stopped or waiting for a vfork child and go to  *)
(* the refrigerator before anything else.                                  *)
NobodyRunsWhenDone ==
  step = "done" =>
    \A p \in Tasks : \/ p \in frozen /\ at[p] \in InIce \cup {"mark"}
                     \/ p \in freezing /\ at[p] \in {"stopped", "vfork",
                                                     "entry"}

(* A task that is thawed leaves the refrigerator: the wake-up is never lost*)
(* between its test of frozen and its schedule().                          *)
ThawedTasksRun ==
  \A p \in Tasks :
    (at[p] \in InIce /\ p \notin frozen) ~> (at[p] \notin InIce \/ p \in frozen)

(* Once no task goes to sleep any more, freezing ends without the time-out *)
(* even if tasks slept when it began: the freezer's signal wakes them.     *)
FreezingSucceeds ==
  <>[][~give_up /\ \A p \in Tasks : ~leaves_cpu(p)]_vars
    => []<>(step \in {"idle", "done"})
=============================================================================
