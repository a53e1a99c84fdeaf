-------------------------- MODULE PowerManagement ---------------------------
(***************************************************************************)
(* The whole of Android power management on this kernel: wake locks, early *)
(* suspend and system suspend run together with the clients that use them. *)
(*                                                                         *)
(* Clients are drivers, interrupt handlers and, through the sysfs files of *)
(* kernel/kernel/power/userwakelock.c, user space.  None of them runs while*)
(* interrupts are off, and user space does not run while it is frozen.     *)
(***************************************************************************)
EXTENDS EarlySuspend

CONSTANTS
  UserLocks       \* wake locks named by user space in /sys/power/wake_lock

ASSUME UserLocksAssumption ==
  UserLocks \subseteq ClientLocks \cap SuspendLocks

vars == <<wlvars, spvars, esvars>>

KernelLocks == ClientLocks \ UserLocks

-----------------------------------------------------------------------------
(* What kernel clients do with their own locks.  Some destroy a lock that  *)
(* they still hold (msm_rpcrouter_destroy_local_endpoint).                 *)

KernelClient ==
  /\ ~irqs_disabled
  /\ \E l \in KernelLocks :
       \/ wake_lock_init(l)
       \/ /\ l \in initialized
          /\ UNCHANGED initialized
          /\ \/ wake_lock(l) /\ UNCHANGED worklist
             \/ \E t \in 0 .. MaxTimeout : wake_lock_timeout(l, t)
             \/ wake_unlock(l)
       \/ wake_lock_destroy(l)
  /\ UNCHANGED <<spvars, esvars>>

(* lookup_wake_lock_name(buf, 1, &timeout): a name that is not in the tree *)
(* is added to it with a fresh lock.                                       *)
lookup_wake_lock_name(l) == initialized' = initialized \cup {l}

(* wake_lock_store: a text without a time-out takes the lock for good.  A  *)
(* time-out becomes a 32-bit number of jiffies (see UserWakeLock): one that*)
(* comes out negative is over at once, one that comes out 0 is no time-out.*)
wake_lock_store(l) ==
  /\ lookup_wake_lock_name(l)
  /\ \/ wake_lock(l) /\ UNCHANGED worklist
     \/ \E t \in 0 .. MaxTimeout : wake_lock_timeout(l, t)

(* wake_unlock_store: -EINVAL for a name that is not in the tree. *)
wake_unlock_store(l) ==
  /\ l \in initialized
  /\ wake_unlock(l)

UserClient ==
  /\ ~Frozen
  /\ \/ /\ \E l \in UserLocks : wake_lock_store(l) \/ wake_unlock_store(l)
        /\ UNCHANGED <<spvars, esvars>>
     \/ \E s \in SleepStates : request_suspend_state(s)

(* Drivers are loaded and unloaded by user space. *)
DriverClient ==
  /\ ~Frozen
  /\ \E h \in Handlers : \/ register_early_suspend(h)
                         \/ unregister_early_suspend(h)

Client == KernelClient \/ UserClient \/ DriverClient

(* The idle loop asks for idle wake locks (arch_idle in mach-msm/pm2.c).   *)
arch_idle ==
  /\ ~irqs_disabled
  /\ has_wake_lock(IdleLocks)
  /\ UNCHANGED <<spvars, esvars>>

TimerTick ==
  /\ ~irqs_disabled
  /\ Tick
  /\ UNCHANGED <<spvars, esvars>>

TimerSoftirq ==
  /\ ~irqs_disabled
  /\ expire_wake_locks
  /\ UNCHANGED <<spvars, esvars>>

Worker ==
  \/ run_workqueue /\ UNCHANGED esvars
  \/ SuspendWork /\ UNCHANGED esvars
  \/ EarlySuspendWork

Failure == SuspendFailure /\ UNCHANGED esvars

WakeUp == wake_up /\ UNCHANGED esvars

Init ==
  /\ WakeLockInit
  /\ worker = "idle"
  /\ requested_suspend_state = "mem"
  /\ suspend_requested = FALSE
  /\ suspended = FALSE
  /\ handlers = <<>>
  /\ off = {}
  /\ pos = 0

Next ==
  \/ Client \/ arch_idle \/ TimerTick \/ TimerSoftirq
  \/ Worker \/ Failure \/ WakeUp

Spec == Init /\ [][Next]_vars

(* The worker thread and the timer interrupt run; nothing is assumed of    *)
(* clients, of failures or of wake-ups.  A round of the freezer's loop that*)
(* finds a task still running changes nothing, so fairness of the worker   *)
(* says that tasks do reach the refrigerator unless the freezer times out. *)
Fairness ==
  /\ WF_vars(Worker)
  /\ WF_<<left, expire_timer>>(TimerTick)
  /\ WF_vars(TimerSoftirq)

FairSpec == Spec /\ Fairness

-----------------------------------------------------------------------------
(* Every variable has its type. *)
TypeOK ==
  /\ WakeLockTypeOK
  /\ worker \in {"idle"} \cup SuspendSteps \cup EarlySteps
  /\ requested_suspend_state \in SleepStates
  /\ suspend_requested \in BOOLEAN
  /\ suspended \in BOOLEAN
  /\ handlers \in Seq(Handlers)
  /\ off \subseteq Handlers
  /\ pos \in Nat

(* The system does not sleep while a wake lock is held or has time left:   *)
(* whatever was locked after suspend() looked is seen by power_suspend_late.*)
NoSleepWithWakeLock ==
  Asleep => active \cap SuspendLocks = {}

(* The main wake lock is released only by early_suspend, after user space  *)
(* asked for sleep and with the handlers called; it is taken again in the  *)
(* step that withdraws the request.                                        *)
MainLockFollowsRequest ==
  ~MainActive => suspend_requested /\ suspended

(* The system sleeps only when user space wants it to, and with every      *)
(* registered handler suspended.                                           *)
SleepOnlyWhenRequested ==
  Asleep => /\ suspend_requested
            /\ requested_suspend_state # "on"
            /\ Registered \subseteq off

(* Outside early_suspend_lock the registered handlers are suspended exactly*)
(* when the SUSPENDED bit is set, also those registered in between.        *)
HandlersFollowState ==
  ~EarlySuspendLocked =>
    off \cap Registered = IF suspended THEN Registered ELSE {}

(* Handlers suspend in low to high level order and resume in the opposite  *)
(* order: at every moment, if one is suspended so are those below it.      *)
HandlersInLevelOrder ==
  \A g, h \in Registered :
    level[g] < level[h] /\ h \in off => g \in off

(* No suspend attempt is lost: unless a lock is held without a time-out,   *)
(* the timer is pending, or suspend_work is pending or running.  The one   *)
(* way to lose it is to destroy the last lock that is held so, and the next*)
(* operation on a suspend lock makes up for it.                            *)
NoLostSuspend ==
  \/ abandoned
  \/ HeldSuspendLocks # {}
  \/ expire_timer # NoTimer
  \/ Pending("suspend_work")
  \/ worker \in SuspendSteps

(* Once clients stop and nothing fails any more, the system sleeps again   *)
(* and again, unless some lock stays held without a time-out or the last   *)
(* thing a client did was to destroy the lock it held.                     *)
EventuallySleeps ==
  <>[][~Client /\ ~Failure]_vars =>
    []<>(Asleep \/ HeldSuspendLocks # {} \/ abandoned)

(* A request for sleep that is not withdrawn suspends every handler and    *)
(* releases the main lock; one for wake-up resumes every handler.          *)
RequestTakesEffect ==
  /\ <>[]suspend_requested => []<>(suspended /\ ~MainActive)
  /\ <>[](~suspend_requested) => <>[](~suspended /\ MainActive)
=============================================================================
