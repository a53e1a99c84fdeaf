------------------------------ MODULE WakeLock ------------------------------
(***************************************************************************)
(* The wake lock core of kernel/kernel/power/wakelock.c: the locks, their  *)
(* time-outs, the expire timer and the suspend_work it queues.             *)
(*                                                                         *)
(* Every operation below runs under the spinlock list_lock with interrupts *)
(* off, so each is one atomic step.  The module declares the state and the *)
(* operations; SystemSuspend and EarlySuspend add the code that calls them.*)
(*                                                                         *)
(* Time is kept relative to now: left[l] stands for lock->expires - jiffies*)
(* and 0 for every value <= 0, which is all the code tells apart.          *)
(***************************************************************************)
EXTENDS Integers, SequencesExt

CONSTANTS
  SuspendLocks,     \* locks of type WAKE_LOCK_SUSPEND
  IdleLocks,        \* locks of type WAKE_LOCK_IDLE
  main_wake_lock,   \* held from boot; released and taken by earlysuspend.c
  unknown_wakeup,   \* taken by suspend() when no event explains a wake-up
  MaxTimeout        \* the longest time-out a client asks for, in jiffies

Locks == SuspendLocks \cup IdleLocks

ClientLocks == Locks \ {main_wake_lock, unknown_wakeup}

ASSUME LockAssumption ==
  /\ main_wake_lock \in SuspendLocks
  /\ unknown_wakeup \in SuspendLocks
  /\ main_wake_lock # unknown_wakeup
  /\ SuspendLocks \cap IdleLocks = {}
  /\ MaxTimeout \in Nat \ {0}

(* The three work items that are ever put on suspend_work_queue. *)
Works == {"suspend_work", "early_suspend_work", "late_resume_work"}

(* The expire timer when it is not pending. *)
NoTimer == -1

VARIABLES
  initialized,    \* locks with WAKE_LOCK_INITIALIZED, on one of the lists
  active,         \* locks with WAKE_LOCK_ACTIVE, on an active_wake_locks list
  auto,           \* locks with WAKE_LOCK_AUTO_EXPIRE
  left,           \* left[l]: jiffies until l expires, for l in auto
  preventing,     \* locks with WAKE_LOCK_PREVENTING_SUSPEND (statistics)
  expire_timer,   \* jiffies until expire_timer fires, or NoTimer
  worklist,       \* pending works of the single-threaded suspend_work_queue
  event,          \* current_event_num # entry_event_num
  abandoned       \* history: see wake_lock_destroy

wlvars == <<initialized, active, auto, left, preventing, expire_timer,
            worklist, event, abandoned>>

-----------------------------------------------------------------------------
(* The work queue (kernel/kernel/workqueue.c): a work that is already      *)
(* pending is not queued again and keeps its place.                        *)

Pending(work) == Contains(worklist, work)

(* A planted bug: one pending bit for the whole queue. *)
queue_work_once(work) ==
  worklist' = IF worklist # <<>> THEN worklist ELSE <<work>>

queue_work(work) ==
  worklist' = IF Pending(work) THEN worklist ELSE Append(worklist, work)

-----------------------------------------------------------------------------
(* has_wake_lock_locked walks one active list.  Locks without a time-out   *)
(* are put at its head and locks with one at its tail, so the walk meets   *)
(* every lock without a time-out first: it returns -1 before it can expire *)
(* anything, or it visits only locks with a time-out.  The operators take  *)
(* the set S of locks on the list, AUTO_EXPIRE flags and times as          *)
(* arguments, because callers change these before they scan.               *)

Unlimited(S, a) == {l \in S : l \notin a}

Overdue(S, a, t) == {l \in S : l \in a /\ t[l] = 0}

(* The locks that has_wake_lock_locked moves to inactive_locks. *)
Expires(S, a, t) == IF Unlimited(S, a) # {} THEN {} ELSE Overdue(S, a, t)

(* A planted bug: the first time-out that ends, not the last.              *)
MaxLeft_shortest(S, t) == Min({t[l] : l \in S})

MaxLeft(S, t) == Max({t[l] : l \in S})

(* What has_wake_lock_locked returns. *)
has_wake_lock_locked(S, a, t) ==
  IF Unlimited(S, a) # {} THEN -1
  ELSE IF S = {} THEN 0
  ELSE MaxLeft(S, t)

(* Moves the locks E to inactive_locks (expire_wake_lock on each), given   *)
(* the flags as the caller left them.                                      *)
ExpireWakeLocks(E, act, a, p) ==
  /\ active' = act \ E
  /\ auto' = a \ E
  /\ preventing' = p \ E

(* wake_lock_active(&main_wake_lock) *)
MainActive == main_wake_lock \in active

(* Statistics: which locks update_sleep_wait_stats_locked(done) leaves     *)
(* marked as preventing suspend, given the locks on the suspend list.      *)
(* A planted bug: marks are set but never cleared. *)
update_sleep_wait_stats_sticky(done, S, a, t, p) ==
  IF done THEN p ELSE p \cup S

update_sleep_wait_stats_locked(done, S, a, t, p) ==
  IF done THEN p \ S
  ELSE (p \ Overdue(S, a, t)) \cup (S \ Overdue(S, a, t))

-----------------------------------------------------------------------------
(* Operations *)

wake_lock_init(l) ==
  /\ l \notin initialized
  /\ initialized' = initialized \cup {l}
  /\ active' = active \ {l}
  /\ auto' = auto \ {l}
  /\ preventing' = preventing \ {l}
  /\ UNCHANGED <<left, expire_timer, worklist, event, abandoned>>

(* Locks held without a time-out, which only their holder can release. *)
HeldSuspendLocks == Unlimited(active \cap SuspendLocks, auto)

(* A planted bug: the lock stays on its active list. *)
wake_lock_destroy_listed(l) ==
  /\ l \in initialized
  /\ initialized' = initialized \ {l}
  /\ UNCHANGED <<active, auto, left, preventing, expire_timer, worklist,
                 event, abandoned>>

(* The lock leaves its list whether or not it is held; neither the timer   *)
(* nor suspend_work is looked at.  abandoned records that the last lock    *)
(* held without a time-out went this way, until the next operation on a    *)
(* suspend lock looks at the list again.                                   *)
wake_lock_destroy(l) ==
  /\ l \in initialized
  /\ initialized' = initialized \ {l}
  /\ active' = active \ {l}
  /\ auto' = auto \ {l}
  /\ left' = [left EXCEPT ![l] = 0]
  /\ preventing' = preventing \ {l}
  /\ abandoned' = (abandoned \/ HeldSuspendLocks = {l})
  /\ UNCHANGED <<expire_timer, worklist, event>>

(* The history variable in the three operations that look at the list. *)
LooksAtList(l) == abandoned' = (abandoned /\ l \notin SuspendLocks)

(* Marks after the two statistics blocks of wake_lock_internal, when act,  *)
(* a and t describe the lists with l already added.                        *)
LockStats(l, act, a, t) ==
  LET S  == act \cap SuspendLocks
      p0 == IF l \in auto /\ left[l] = 0 THEN preventing \ {l} ELSE preventing
  IN  IF l \notin SuspendLocks THEN p0
      ELSE IF l = main_wake_lock
           THEN update_sleep_wait_stats_locked(TRUE, S, a, t, p0)
      ELSE IF main_wake_lock \notin act
           THEN update_sleep_wait_stats_locked(FALSE, S, a, t, p0)
      ELSE p0

(* wake_lock: wake_lock_internal(lock, 0, 0).  It never queues a work, and *)
(* leaves worklist to the caller: request_suspend_state queues one itself. *)
(* That l is initialized is also up to the callers of these operations.    *)
wake_lock(l) ==
  /\ active' = active \cup {l}
  /\ auto' = auto \ {l}
  /\ left' = [left EXCEPT ![l] = 0]
  /\ preventing' = LockStats(l, active \cup {l}, auto \ {l},
                             [left EXCEPT ![l] = 0])
  /\ expire_timer' = IF l \in SuspendLocks THEN NoTimer ELSE expire_timer
  /\ event' = (event \/ l = main_wake_lock)
  /\ LooksAtList(l)

(* wake_lock_timeout: wake_lock_internal(lock, timeout, 1) *)
wake_lock_timeout(l, timeout) ==
  LET act == active \cup {l}
      a   == auto \cup {l}
      t   == [left EXCEPT ![l] = timeout]
      S   == act \cap SuspendLocks
      expire_in == has_wake_lock_locked(S, a, t)
  IN  /\ left' = t
      /\ event' = (event \/ l = main_wake_lock)
      /\ LooksAtList(l)
      /\ IF l \in SuspendLocks
         THEN /\ ExpireWakeLocks(Expires(S, a, t), act, a,
                                 LockStats(l, act, a, t))
              /\ expire_timer' = IF expire_in > 0 THEN expire_in ELSE NoTimer
              /\ IF expire_in = 0
                 THEN queue_work("suspend_work")
                 ELSE UNCHANGED worklist
         ELSE /\ ExpireWakeLocks({}, act, a, LockStats(l, act, a, t))
              /\ UNCHANGED <<expire_timer, worklist>>

wake_unlock(l) ==
  LET act == active \ {l}
      a   == auto \ {l}
      t   == [left EXCEPT ![l] = 0]
      S   == act \cap SuspendLocks
      E   == Expires(S, a, t)
      has_lock == has_wake_lock_locked(S, a, t)
      p0  == preventing \ {l}
      p   == IF l = main_wake_lock
             THEN update_sleep_wait_stats_locked(FALSE, S \ E, a, t, p0 \ E)
             ELSE p0
  IN  /\ left' = t
      /\ UNCHANGED <<initialized, event>>
      /\ LooksAtList(l)
      /\ IF l \in SuspendLocks
         THEN /\ ExpireWakeLocks(E, act, a, p)
              /\ expire_timer' = IF has_lock > 0 THEN has_lock ELSE NoTimer
              /\ IF has_lock = 0
                 THEN queue_work("suspend_work")
                 ELSE UNCHANGED worklist
         ELSE /\ ExpireWakeLocks({}, act, a, p)
              /\ UNCHANGED <<expire_timer, worklist>>

(* The value has_wake_lock(type) returns for the locks T of a type, and    *)
(* the expiry it performs.  Nothing is queued and the timer is left alone. *)
HasWakeLock(T) == has_wake_lock_locked(active \cap T, auto, left)

has_wake_lock(T) ==
  /\ ExpireWakeLocks(Expires(active \cap T, auto, left),
                     active, auto, preventing)
  /\ UNCHANGED <<initialized, left, expire_timer, worklist, event, abandoned>>

(* The timer function. *)
expire_wake_locks ==
  /\ expire_timer = 0
  /\ expire_timer' = NoTimer
  /\ ExpireWakeLocks(Expires(active \cap SuspendLocks, auto, left),
                     active, auto, preventing)
  /\ IF HasWakeLock(SuspendLocks) = 0
     THEN queue_work("suspend_work")
     ELSE UNCHANGED worklist
  /\ UNCHANGED <<initialized, left, event, abandoned>>

(* One jiffy passes. *)
Tick ==
  /\ left' = [l \in Locks |-> IF left[l] > 0 THEN left[l] - 1 ELSE 0]
  /\ expire_timer' = IF expire_timer > 0 THEN expire_timer - 1
                                         ELSE expire_timer
  /\ UNCHANGED <<initialized, active, auto, preventing, worklist, event,
                 abandoned>>

(* wakelocks_init: the main lock is taken before anything can suspend.     *)
WakeLockInit ==
  /\ initialized = {main_wake_lock, unknown_wakeup}
  /\ active = {main_wake_lock}
  /\ auto = {}
  /\ left = [l \in Locks |-> 0]
  /\ preventing = {}
  /\ expire_timer = NoTimer
  /\ worklist = <<>>
  /\ event = FALSE
  /\ abandoned = FALSE

-----------------------------------------------------------------------------
(* Every variable has its type. *)
WakeLockTypeOK ==
  /\ initialized \subseteq Locks
  /\ active \subseteq initialized
  /\ auto \subseteq active
  /\ left \in [Locks -> 0 .. MaxTimeout]
  /\ preventing \subseteq SuspendLocks
  /\ expire_timer \in NoTimer .. MaxTimeout
  /\ worklist \in Seq(Works)
  /\ event \in BOOLEAN
  /\ abandoned \in BOOLEAN

(* The timer covers every running time-out: while no lock is held without  *)
(* a time-out, a lock that has time left is covered by a timer that is     *)
(* pending for at least as long.  Otherwise expire_wake_locks, which never *)
(* re-arms the timer, would fire too early and leave the lock to nobody.   *)
(* Only a held lock that is destroyed lets go of the list without a look at*)
(* the time-outs that run beside it.                                       *)
TimerCoversTimeouts ==
  HeldSuspendLocks = {} /\ ~abandoned =>
    \A l \in active \cap SuspendLocks :
      left[l] > 0 => expire_timer >= left[l]

(* The PREVENTING_SUSPEND marks that wakelock statistics are computed from *)
(* are exact: an active, not overdue suspend lock carries the mark exactly *)
(* when the main lock is released, and no inactive lock carries it.        *)
PreventingIsExact ==
  /\ preventing \subseteq active \cap SuspendLocks
  /\ \A l \in (active \cap SuspendLocks) \ Overdue(active, auto, left) :
       l \in preventing <=> main_wake_lock \notin active
=============================================================================
