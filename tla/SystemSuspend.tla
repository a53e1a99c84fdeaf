--------------------------- MODULE SystemSuspend ----------------------------
(***************************************************************************)
(* The suspend_work of kernel/kernel/power/wakelock.c and the system       *)
(* suspend it runs, pm_suspend of kernel/kernel/power/main.c, one action   *)
(* per step after which other code can run.                                *)
(*                                                                         *)
(* worker is the program counter of the one thread of suspend_work_queue.  *)
(* Between power_down and the return of suspend_ops->enter interrupts are  *)
(* off and one CPU is online, so no other code runs.                       *)
(***************************************************************************)
EXTENDS WakeLock

CONSTANT UnknownTimeout   \* HZ / 2, the time-out of unknown_wakeup

ASSUME UnknownTimeoutAssumption == UnknownTimeout \in 1 .. MaxTimeout

VARIABLES
  worker,                   \* where the suspend_work_queue thread is
  requested_suspend_state   \* the state pm_suspend will be asked for

spvars == <<worker, requested_suspend_state>>

SleepStates == {"on", "mem"}

(* Locations inside suspend(), in the order they are passed. *)
SuspendSteps == {"suspend", "entry_event", "pm_suspend", "prepare", "freeze",
                 "devices", "power_down", "late", "asleep", "resume",
                 "exit"}

(* arch_suspend_disable_irqs has been called. *)
irqs_disabled == worker \in {"power_down", "late", "asleep"}

(* User space is in the refrigerator. *)
Frozen == worker \in {"devices", "power_down", "late", "asleep", "resume"}

Asleep == worker = "asleep"

goto(step) == worker' = step

-----------------------------------------------------------------------------
(* run_workqueue takes the first work, clears its pending bit, calls it.   *)
EntryStep(work) ==
  CASE work = "suspend_work"       -> "suspend"
    [] work = "early_suspend_work" -> "early_suspend"
    [] work = "late_resume_work"   -> "late_resume"

run_workqueue ==
  /\ worker = "idle"
  /\ worklist # <<>>
  /\ goto(EntryStep(Head(worklist)))
  /\ worklist' = Tail(worklist)
  /\ UNCHANGED <<initialized, active, auto, left, preventing, expire_timer,
                 event, abandoned, requested_suspend_state>>

-----------------------------------------------------------------------------
(* suspend() *)

suspend_check ==
  /\ worker = "suspend"
  /\ has_wake_lock(SuspendLocks)
  /\ goto(IF HasWakeLock(SuspendLocks) # 0 THEN "idle" ELSE "entry_event")
  /\ UNCHANGED requested_suspend_state

(* entry_event_num = current_event_num, read without list_lock; sys_sync.  *)
suspend_entry_event ==
  /\ worker = "entry_event"
  /\ event' = FALSE
  /\ goto("pm_suspend")
  /\ UNCHANGED <<initialized, active, auto, left, preventing, expire_timer,
                 worklist, abandoned, requested_suspend_state>>

(* pm_suspend and enter_state up to the sync: "on" is not a sleep state.   *)
pm_suspend ==
  /\ worker = "pm_suspend"
  /\ goto(IF requested_suspend_state = "on" THEN "exit" ELSE "prepare")
  /\ UNCHANGED <<wlvars, requested_suspend_state>>

(* suspend_prepare up to the freezer: notifiers, usermodehelper_disable.   *)
suspend_prepare ==
  /\ worker = "prepare"
  /\ goto("freeze")
  /\ UNCHANGED <<wlvars, requested_suspend_state>>

(* A notifier vetoes, or usermodehelper_disable fails. *)
suspend_prepare_fails ==
  /\ worker = "prepare"
  /\ goto("exit")
  /\ UNCHANGED <<wlvars, requested_suspend_state>>

(* try_to_freeze_tasks finds every task frozen. *)
freeze_done ==
  /\ worker = "freeze"
  /\ goto("devices")
  /\ UNCHANGED <<wlvars, requested_suspend_state>>

(* Some tasks are not frozen yet: the loop gives up if a wake lock is held *)
(* and goes round again otherwise.                                         *)
freeze_retry ==
  /\ worker = "freeze"
  /\ has_wake_lock(SuspendLocks)
  /\ goto(IF HasWakeLock(SuspendLocks) # 0 THEN "exit" ELSE "freeze")
  /\ UNCHANGED requested_suspend_state

(* The freezer times out, or too little memory is free: thaw and give up.  *)
freeze_fails ==
  /\ worker = "freeze"
  /\ goto("exit")
  /\ UNCHANGED <<wlvars, requested_suspend_state>>

(* suspend_devices_and_enter up to arch_suspend_disable_irqs. *)
device_suspend ==
  /\ worker = "devices"
  /\ goto("power_down")
  /\ UNCHANGED <<wlvars, requested_suspend_state>>

device_suspend_fails ==
  /\ worker = "devices"
  /\ goto("resume")
  /\ UNCHANGED <<wlvars, requested_suspend_state>>

(* A planted bug: the last look at the wake locks is left out. *)
power_suspend_late_unchecked ==
  /\ worker = "power_down"
  /\ goto("late")
  /\ UNCHANGED <<wlvars, requested_suspend_state>>

(* device_power_down reaches the "power" device of wakelock.c. *)
power_suspend_late ==
  /\ worker = "power_down"
  /\ has_wake_lock(SuspendLocks)
  /\ goto(IF HasWakeLock(SuspendLocks) # 0 THEN "resume" ELSE "late")
  /\ UNCHANGED requested_suspend_state

(* The remaining devices and sysdev_suspend; then suspend_ops->enter. *)
suspend_enter ==
  /\ worker = "late"
  /\ goto("asleep")
  /\ UNCHANGED <<wlvars, requested_suspend_state>>

(* A device before or after "power", or a sysdev, refuses. *)
power_down_fails ==
  /\ worker \in {"power_down", "late"}
  /\ goto("resume")
  /\ UNCHANGED <<wlvars, requested_suspend_state>>

(* suspend_ops->enter returns: a wake-up interrupt is pending. *)
wake_up ==
  /\ worker = "asleep"
  /\ goto("resume")
  /\ UNCHANGED <<wlvars, requested_suspend_state>>

(* device_resume and suspend_finish: thaw, post-suspend notifiers. *)
suspend_finish ==
  /\ worker = "resume"
  /\ goto("exit")
  /\ UNCHANGED <<wlvars, requested_suspend_state>>

(* A planted bug: an unexplained return is not tried again. *)
suspend_exit_forgets ==
  /\ worker = "exit"
  /\ goto("idle")
  /\ UNCHANGED <<wlvars, requested_suspend_state>>

(* The end of suspend(): without an event to explain the return, keep the  *)
(* system up for a while, so that the timer tries again.                   *)
suspend_exit ==
  /\ worker = "exit"
  /\ goto("idle")
  /\ IF event
     THEN UNCHANGED wlvars
     ELSE /\ wake_lock_timeout(unknown_wakeup, UnknownTimeout)
          /\ UNCHANGED initialized
  /\ UNCHANGED requested_suspend_state

SuspendWork ==
  \/ suspend_check \/ suspend_entry_event \/ pm_suspend \/ suspend_prepare
  \/ freeze_done \/ freeze_retry \/ device_suspend \/ power_suspend_late
  \/ suspend_enter \/ suspend_finish \/ suspend_exit

SuspendFailure ==
  \/ suspend_prepare_fails \/ freeze_fails \/ device_suspend_fails
  \/ power_down_fails
=============================================================================
