----------------------- MODULE PowerManagement_proofs -----------------------
(***************************************************************************)
(* Proofs about wake locks, early suspend and system suspend, for any set  *)
(* of locks and handlers and any bound on time-outs.                       *)
(***************************************************************************)
EXTENDS PowerManagement, TLAPS, SequenceTheorems, WellFoundedInduction

USE DEF NoTimer

-----------------------------------------------------------------------------
(* has_wake_lock_locked *)

Timeouts == [Locks -> 0 .. MaxTimeout]

LEMMA LeastNatural ==
  ASSUME NEW T, T \subseteq Nat, T # {}
  PROVE  \E m \in T : \A n \in T : m <= n
<1>1. PICK m \in T : \A n \in T : ~(<<n, m>> \in OpToRel(<, Nat))
  BY NatLessThanWellFounded, WFMin
<1>2. \A i, j \in Nat : i < j => <<i, j>> \in OpToRel(<, Nat)
  BY DEF OpToRel
<1>3. \A n \in T : ~(n < m)
  BY <1>1, <1>2
<1> QED
  BY <1>3

(* The maximum that has_wake_lock_locked computes over the locks with a    *)
(* time-out exists: time-outs are bounded.                                 *)
LEMMA MaxLeftIsMax ==
  ASSUME NEW S, S \subseteq Locks, S # {}, NEW t \in Timeouts
  PROVE  /\ MaxLeft(S, t) \in {t[l] : l \in S}
         /\ \A l \in S : t[l] <= MaxLeft(S, t)
<1> DEFINE U == {m \in Nat : \A l \in S : t[l] <= m}
<1>1. MaxTimeout \in U
  BY LockAssumption DEF Timeouts
<1>2. PICK m \in U : \A n \in U : m <= n
  BY <1>1, LeastNatural
<1>3. m \in {t[l] : l \in S}
  <2>1. SUFFICES ASSUME \A l \in S : t[l] # m PROVE FALSE
    OBVIOUS
  <2>2. \A l \in S : t[l] \in Nat /\ t[l] <= m /\ t[l] # m
    BY <2>1 DEF Timeouts
  <2>3. PICK l \in S : TRUE
    OBVIOUS
  <2>4. m \in Nat /\ m - 1 \in Nat
    BY <2>2, <2>3
  <2>5. m - 1 \in U
    BY <2>2, <2>4
  <2> QED
    BY <2>4, <2>5, <1>2
<1>4. \A l \in S : t[l] <= m
  OBVIOUS
<1>5. \A l \in S : t[l] \in Nat
  BY DEF Timeouts
<1> QED
  BY <1>3, <1>4, <1>5 DEF MaxLeft, Max

(* What the value that has_wake_lock_locked returns says about the locks.  *)
LEMMA HasWakeLockValue ==
  ASSUME NEW S, S \subseteq Locks, NEW a, NEW t \in Timeouts
  PROVE  /\ has_wake_lock_locked(S, a, t) \in -1 .. MaxTimeout
         /\ has_wake_lock_locked(S, a, t) = -1 <=> Unlimited(S, a) # {}
         /\ has_wake_lock_locked(S, a, t) = 0 <=>
              Unlimited(S, a) = {} /\ \A l \in S : t[l] = 0
         /\ has_wake_lock_locked(S, a, t) > 0 =>
              \A l \in S : t[l] <= has_wake_lock_locked(S, a, t)
<1>1. CASE Unlimited(S, a) # {}
  BY <1>1, LockAssumption DEF has_wake_lock_locked
<1>2. CASE Unlimited(S, a) = {} /\ S = {}
  BY <1>2, LockAssumption DEF has_wake_lock_locked
<1>3. CASE Unlimited(S, a) = {} /\ S # {}
  <2>1. /\ MaxLeft(S, t) \in {t[l] : l \in S}
        /\ \A l \in S : t[l] <= MaxLeft(S, t)
    BY <1>3, MaxLeftIsMax
  <2>2. has_wake_lock_locked(S, a, t) = MaxLeft(S, t)
    BY <1>3 DEF has_wake_lock_locked
  <2>3. \A l \in S : t[l] \in 0 .. MaxTimeout
    BY DEF Timeouts
  <2> QED
    BY <1>3, <2>1, <2>2, <2>3, LockAssumption
<1> QED
  BY <1>1, <1>2, <1>3

-----------------------------------------------------------------------------
(* The operations of wakelock.c keep the types and the two built-in locks, *)
(* and only wake_lock and wake_unlock of the main lock change whether it is*)
(* held.                                                                   *)

LocksOK ==
  /\ WakeLockTypeOK
  /\ {main_wake_lock, unknown_wakeup} \subseteq initialized
  /\ main_wake_lock \notin auto

(* A step that changes initialized and worklist properly. *)
Registers(l) ==
  /\ l \in initialized'
  /\ initialized \subseteq initialized'
  /\ initialized' \subseteq Locks
  /\ worklist' \in Seq(Works)

LEMMA QueueWorkType ==
  ASSUME worklist \in Seq(Works), NEW w \in Works, queue_work(w)
  PROVE  worklist' \in Seq(Works)
BY DEF queue_work

LEMMA LockStatsType ==
  ASSUME LocksOK, NEW l, NEW act, NEW a, NEW t
  PROVE  LockStats(l, act, a, t) \subseteq SuspendLocks
BY DEF LockStats, update_sleep_wait_stats_locked, Overdue, LocksOK,
       WakeLockTypeOK

LEMMA WakeLockOK ==
  ASSUME LocksOK, NEW l \in Locks, wake_lock(l), Registers(l)
  PROVE  LocksOK' /\ active' = active \cup {l}
<1> USE DEF LocksOK, WakeLockTypeOK, wake_lock
<1>1. preventing' \subseteq SuspendLocks
  BY LockStatsType
<1>2. left' \in [Locks -> 0 .. MaxTimeout]
  BY LockAssumption
<1>3. expire_timer' \in NoTimer .. MaxTimeout
  BY LockAssumption
<1>4. event' \in BOOLEAN
  OBVIOUS
<1>5. abandoned' \in BOOLEAN
  BY Zenon DEF LooksAtList
<1> QED
  BY <1>1, <1>2, <1>3, <1>4, <1>5 DEF Registers

LEMMA WakeLockTimeoutOK ==
  ASSUME LocksOK, NEW l \in Locks \ {main_wake_lock},
         NEW timeout \in 0 .. MaxTimeout,
         wake_lock_timeout(l, timeout),
         l \in initialized', initialized \subseteq initialized',
         initialized' \subseteq Locks
  PROVE  LocksOK' /\ (MainActive' <=> MainActive)
<1> DEFINE act == active \cup {l}
           a   == auto \cup {l}
           t   == [left EXCEPT ![l] = timeout]
           S   == act \cap SuspendLocks
           expire_in == has_wake_lock_locked(S, a, t)
<1>1. t \in Timeouts /\ S \subseteq Locks
  BY DEF Timeouts, LocksOK, WakeLockTypeOK, Locks
<1>2. expire_in \in -1 .. MaxTimeout
  BY <1>1, HasWakeLockValue
<1>3. PICK E : /\ ExpireWakeLocks(E, act, a, LockStats(l, act, a, t))
               /\ E \subseteq a
               /\ E = {} \/ E = Expires(S, a, t)
  BY DEF wake_lock_timeout, Expires, Overdue
<1>4. preventing' \subseteq SuspendLocks
  BY <1>3, LockStatsType DEF ExpireWakeLocks
<1>5. expire_timer' \in NoTimer .. MaxTimeout
  BY <1>2, LockAssumption DEF wake_lock_timeout, LocksOK, WakeLockTypeOK
<1>6. worklist' \in Seq(Works)
  BY QueueWorkType DEF wake_lock_timeout, LocksOK, WakeLockTypeOK, Works
<1>7. left' \in [Locks -> 0 .. MaxTimeout]
  BY <1>1 DEF wake_lock_timeout, Timeouts
<1>8. event' \in BOOLEAN
  BY DEF wake_lock_timeout, LocksOK, WakeLockTypeOK
<1>9. abandoned' \in BOOLEAN
  <2>1. LooksAtList(l)
    BY DEF wake_lock_timeout
  <2> QED
    BY <2>1, Zenon DEF LooksAtList
<1> QED
  BY <1>3, <1>4, <1>5, <1>6, <1>7, <1>8, <1>9
     DEF ExpireWakeLocks, LocksOK, WakeLockTypeOK, MainActive

LEMMA WakeUnlockOK ==
  ASSUME LocksOK, NEW l \in Locks, wake_unlock(l)
  PROVE  /\ LocksOK'
         /\ l # main_wake_lock => (MainActive' <=> MainActive)
<1> DEFINE act == active \ {l}
           a   == auto \ {l}
           t   == [left EXCEPT ![l] = 0]
           S   == act \cap SuspendLocks
           E   == Expires(S, a, t)
           has_lock == has_wake_lock_locked(S, a, t)
           p0  == preventing \ {l}
           p   == IF l = main_wake_lock
                  THEN update_sleep_wait_stats_locked(FALSE, S \ E, a, t,
                                                      p0 \ E)
                  ELSE p0
<1>1. t \in Timeouts /\ S \subseteq Locks
  BY LockAssumption DEF Timeouts, LocksOK, WakeLockTypeOK, Locks
<1>2. has_lock \in -1 .. MaxTimeout
  BY <1>1, HasWakeLockValue
<1>0. /\ left' = t
      /\ initialized' = initialized /\ event' = event
      /\ \/ /\ ExpireWakeLocks(E, act, a, p)
            /\ expire_timer' = IF has_lock > 0 THEN has_lock ELSE NoTimer
            /\ queue_work("suspend_work") \/ worklist' = worklist
         \/ /\ ExpireWakeLocks({}, act, a, p)
            /\ expire_timer' = expire_timer
            /\ worklist' = worklist
  BY DEF wake_unlock
<1>3. PICK D : ExpireWakeLocks(D, act, a, p) /\ D \subseteq a
  <2>1. E \subseteq a
    BY DEF Expires, Overdue
  <2> HIDE DEF E, act, a, p
  <2> QED
    BY <1>0, <2>1
<1>4. preventing' \subseteq SuspendLocks
  BY <1>3 DEF ExpireWakeLocks, update_sleep_wait_stats_locked, Overdue,
              LocksOK, WakeLockTypeOK
<1>5. expire_timer' \in NoTimer .. MaxTimeout
  <2> HIDE DEF has_lock, E, act, a, p, t
  <2> QED
    BY <1>0, <1>2, LockAssumption DEF LocksOK, WakeLockTypeOK
<1>6. worklist' \in Seq(Works)
  BY <1>0, QueueWorkType DEF LocksOK, WakeLockTypeOK, Works
<1>7. left' \in [Locks -> 0 .. MaxTimeout]
  BY <1>0, <1>1 DEF Timeouts
<1>8. abandoned' \in BOOLEAN
  <2>1. LooksAtList(l)
    BY DEF wake_unlock
  <2> QED
    BY <2>1, Zenon DEF LooksAtList
<1> QED
  BY <1>3, <1>4, <1>5, <1>6, <1>7, <1>8, <1>0
     DEF ExpireWakeLocks, LocksOK, WakeLockTypeOK, MainActive

LEMMA HasWakeLockOK ==
  ASSUME LocksOK, NEW T, has_wake_lock(T)
  PROVE  LocksOK' /\ (MainActive' <=> MainActive)
BY DEF has_wake_lock, ExpireWakeLocks, Expires, Overdue, LocksOK,
       WakeLockTypeOK, MainActive

LEMMA InitDestroyOK ==
  ASSUME LocksOK, NEW l \in ClientLocks,
         wake_lock_init(l) \/ wake_lock_destroy(l)
  PROVE  LocksOK' /\ (MainActive' <=> MainActive)
<1>1. abandoned' \in BOOLEAN
  <2>1. \/ abandoned' = abandoned
        \/ abandoned' = (abandoned \/ HeldSuspendLocks = {l})
    BY DEF wake_lock_init, wake_lock_destroy
  <2>2. abandoned \in BOOLEAN
    BY DEF LocksOK, WakeLockTypeOK
  <2> QED
    BY <2>1, <2>2, Zenon
<1> QED
  BY <1>1, LockAssumption
     DEF wake_lock_init, wake_lock_destroy, LocksOK, WakeLockTypeOK,
         MainActive, ClientLocks

LEMMA ExpireOK ==
  ASSUME LocksOK, expire_wake_locks
  PROVE  LocksOK' /\ (MainActive' <=> MainActive)
<1>1. worklist' \in Seq(Works)
  BY QueueWorkType DEF expire_wake_locks, LocksOK, WakeLockTypeOK, Works
<1>2. expire_timer' \in NoTimer .. MaxTimeout
  BY LockAssumption DEF expire_wake_locks
<1> QED
  BY <1>1, <1>2
     DEF expire_wake_locks, ExpireWakeLocks, Expires, Overdue, LocksOK,
         WakeLockTypeOK, MainActive

LEMMA TickOK ==
  ASSUME LocksOK, Tick
  PROVE  LocksOK' /\ (MainActive' <=> MainActive)
BY LockAssumption DEF Tick, LocksOK, WakeLockTypeOK, MainActive

-----------------------------------------------------------------------------
(* The invariant of the locks, the requests and the suspend worker. *)

ControlOK ==
  /\ worker \in {"idle"} \cup SuspendSteps \cup EarlySteps
  /\ requested_suspend_state \in SleepStates
  /\ suspend_requested \in BOOLEAN
  /\ suspended \in BOOLEAN

(* From power_suspend_late on nothing can be locked. *)
LateMeansUnlocked ==
  worker \in {"late", "asleep"} => active \cap SuspendLocks = {}

RequestIsSleep ==
  suspend_requested => requested_suspend_state # "on"

SleepInv ==
  /\ LocksOK
  /\ ControlOK
  /\ MainLockFollowsRequest
  /\ LateMeansUnlocked
  /\ RequestIsSleep

(* A step of a client, of the timer or of the idle loop that changes wake  *)
(* locks only, and not the main lock.                                      *)
LEMMA LockStepKeepsSleepInv ==
  ASSUME SleepInv, LocksOK', MainActive' <=> MainActive, ~irqs_disabled,
         UNCHANGED <<spvars, esvars>>
  PROVE  SleepInv'
BY DEF SleepInv, ControlOK, MainLockFollowsRequest, LateMeansUnlocked,
       RequestIsSleep, irqs_disabled, spvars, esvars

(* A step of the worker that leaves requests alone. *)
LEMMA WorkerStepKeepsSleepInv ==
  ASSUME SleepInv, LocksOK', MainActive' <=> MainActive,
         worker' \in {"idle"} \cup SuspendSteps \cup EarlySteps,
         UNCHANGED <<requested_suspend_state, suspend_requested, suspended>>,
         LateMeansUnlocked'
  PROVE  SleepInv'
BY DEF SleepInv, ControlOK, MainLockFollowsRequest, RequestIsSleep

LEMMA KernelClientKeepsSleepInv ==
  ASSUME SleepInv, KernelClient PROVE SleepInv'
<1>1. PICK l \in KernelLocks :
        \/ wake_lock_init(l)
        \/ /\ l \in initialized
           /\ UNCHANGED initialized
           /\ \/ wake_lock(l) /\ UNCHANGED worklist
              \/ \E t \in 0 .. MaxTimeout : wake_lock_timeout(l, t)
              \/ wake_unlock(l)
        \/ wake_lock_destroy(l)
  BY DEF KernelClient
<1>2. /\ l \in ClientLocks /\ l \in Locks
      /\ l # main_wake_lock
      /\ LocksOK /\ initialized \subseteq Locks /\ worklist \in Seq(Works)
  BY DEF KernelLocks, ClientLocks, SleepInv, LocksOK, WakeLockTypeOK
<1>3. LocksOK' /\ (MainActive' <=> MainActive)
  <2>1. CASE wake_lock_init(l) \/ wake_lock_destroy(l)
    BY <1>2, <2>1, InitDestroyOK
  <2>2. CASE /\ l \in initialized
             /\ UNCHANGED initialized
             /\ wake_lock(l) /\ UNCHANGED worklist
    <3>1. Registers(l)
      BY <1>2, <2>2 DEF Registers
    <3> QED
      BY <1>2, <2>2, <3>1, WakeLockOK DEF MainActive
  <2>3. CASE /\ l \in initialized
             /\ UNCHANGED initialized
             /\ \E t \in 0 .. MaxTimeout : wake_lock_timeout(l, t)
    BY <1>2, <2>3, WakeLockTimeoutOK
  <2>4. CASE wake_unlock(l)
    BY <1>2, <2>4, WakeUnlockOK
  <2> QED
    BY <1>1, <2>1, <2>2, <2>3, <2>4
<1> QED
  BY <1>3, LockStepKeepsSleepInv DEF KernelClient

LEMMA UserClientKeepsSleepInv ==
  ASSUME SleepInv, UserClient PROVE SleepInv'
<1>1. /\ ~irqs_disabled
      /\ LocksOK /\ initialized \subseteq Locks /\ worklist \in Seq(Works)
  BY DEF UserClient, Frozen, irqs_disabled, SleepInv, LocksOK,
         WakeLockTypeOK
<1>2. CASE /\ \E l \in UserLocks : wake_lock_store(l) \/ wake_unlock_store(l)
           /\ UNCHANGED <<spvars, esvars>>
  <2>1. PICK l \in UserLocks : wake_lock_store(l) \/ wake_unlock_store(l)
    BY <1>2
  <2>2. l \in Locks \ {main_wake_lock}
    BY UserLocksAssumption DEF ClientLocks
  <2>3. CASE wake_lock_store(l) /\ wake_lock(l) /\ UNCHANGED worklist
    <3>1. Registers(l)
      BY <1>1, <2>2, <2>3 DEF Registers, wake_lock_store,
                              lookup_wake_lock_name
    <3>2. LocksOK' /\ (MainActive' <=> MainActive)
      BY <1>1, <2>2, <2>3, <3>1, WakeLockOK DEF MainActive
    <3> QED
      BY <1>1, <1>2, <3>2, LockStepKeepsSleepInv
  <2>4. CASE /\ wake_lock_store(l)
             /\ \E t \in 0 .. MaxTimeout : wake_lock_timeout(l, t)
    <3>1. /\ l \in initialized' /\ initialized \subseteq initialized'
          /\ initialized' \subseteq Locks
      BY <1>1, <2>2, <2>4 DEF wake_lock_store, lookup_wake_lock_name
    <3>2. LocksOK' /\ (MainActive' <=> MainActive)
      BY <1>1, <2>2, <2>4, <3>1, WakeLockTimeoutOK
    <3> QED
      BY <1>1, <1>2, <3>2, LockStepKeepsSleepInv
  <2>5. CASE wake_unlock_store(l)
    <3>1. LocksOK' /\ (MainActive' <=> MainActive)
      BY <1>1, <2>2, <2>5, WakeUnlockOK DEF wake_unlock_store
    <3> QED
      BY <1>1, <1>2, <3>1, LockStepKeepsSleepInv
  <2> QED
    BY <2>1, <2>3, <2>4, <2>5 DEF wake_lock_store
<1>3. ASSUME NEW s \in SleepStates, request_suspend_state(s)
      PROVE  SleepInv'
  <2>1. /\ requested_suspend_state' = s
        /\ UNCHANGED <<worker, suspended>>
    BY <1>3 DEF request_suspend_state
  <2>2. CASE /\ ~suspend_requested /\ s # "on"
             /\ suspend_requested' = TRUE
             /\ queue_work("early_suspend_work")
             /\ UNCHANGED <<initialized, active, auto, left, preventing,
                            expire_timer, event, abandoned>>
    <3>1. worklist' \in Seq(Works)
      BY <1>1, <2>2, QueueWorkType DEF Works
    <3>2. LocksOK'
      BY <2>2, <3>1 DEF SleepInv, LocksOK, WakeLockTypeOK
    <3> QED
      BY <2>1, <2>2, <3>2 DEF SleepInv, ControlOK, MainLockFollowsRequest,
         MainActive, LateMeansUnlocked, RequestIsSleep
  <2>3. CASE /\ suspend_requested /\ s = "on"
             /\ suspend_requested' = FALSE
             /\ wake_lock(main_wake_lock)
             /\ UNCHANGED initialized
             /\ queue_work("late_resume_work")
    <3>1. Registers(main_wake_lock) /\ main_wake_lock \in Locks
      BY <1>1, <2>3, QueueWorkType, LockAssumption
         DEF Registers, Works, LocksOK, Locks
    <3>2. LocksOK' /\ MainActive'
      BY <1>1, <2>3, <3>1, WakeLockOK DEF MainActive
    <3>3. worker' = worker /\ worker \notin {"late", "asleep"}
      BY <1>1, <2>1 DEF irqs_disabled
    <3> QED
      BY <2>1, <2>3, <3>2, <3>3
         DEF SleepInv, ControlOK, MainLockFollowsRequest, LateMeansUnlocked,
             RequestIsSleep
  <2>4. CASE /\ suspend_requested <=> s # "on"
             /\ UNCHANGED <<suspend_requested, wlvars>>
    <3>1. LocksOK'
      BY <1>1, <2>4 DEF LocksOK, WakeLockTypeOK, wlvars
    <3> QED
      BY <2>1, <2>4, <3>1
         DEF SleepInv, ControlOK, MainLockFollowsRequest, MainActive,
             LateMeansUnlocked, RequestIsSleep, wlvars
  <2> QED
    BY <1>3, <2>2, <2>3, <2>4 DEF request_suspend_state
<1> QED
  BY <1>2, <1>3 DEF UserClient

(* The steps of suspend(), of its failures and of the wake-up. *)
LEMMA SuspendKeepsSleepInv ==
  ASSUME SleepInv, SuspendWork \/ SuspendFailure \/ wake_up,
         UNCHANGED esvars
  PROVE  SleepInv'
<1>1. /\ LocksOK /\ unknown_wakeup \in Locks \ {main_wake_lock}
      /\ initialized \subseteq Locks /\ unknown_wakeup \in initialized
  BY LockAssumption DEF SleepInv, LocksOK, WakeLockTypeOK, Locks
<1>2. UNCHANGED <<requested_suspend_state, suspend_requested, suspended>>
  BY DEF SuspendWork, SuspendFailure, esvars, suspend_check,
     suspend_entry_event, pm_suspend, suspend_prepare, freeze_done,
     freeze_retry, device_suspend, power_suspend_late, suspend_enter,
     suspend_finish, suspend_exit, suspend_prepare_fails, freeze_fails,
     device_suspend_fails, power_down_fails, wake_up
<1>3. worker' \in {"idle"} \cup SuspendSteps \cup EarlySteps
  BY DEF SuspendWork, SuspendFailure, goto, SuspendSteps, suspend_check,
     suspend_entry_event, pm_suspend, suspend_prepare, freeze_done,
     freeze_retry, device_suspend, power_suspend_late, suspend_enter,
     suspend_finish, suspend_exit, suspend_prepare_fails, freeze_fails,
     device_suspend_fails, power_down_fails, wake_up
<1>4. CASE has_wake_lock(SuspendLocks) /\ worker' \notin {"late", "asleep"}
  <2>1. LocksOK' /\ (MainActive' <=> MainActive)
    BY <1>1, <1>4, HasWakeLockOK
  <2> QED
    BY <1>2, <1>3, <1>4, <2>1, WorkerStepKeepsSleepInv DEF LateMeansUnlocked
<1>5. CASE power_suspend_late
  <2>1. LocksOK' /\ (MainActive' <=> MainActive)
    BY <1>1, <1>5, HasWakeLockOK DEF power_suspend_late
  <2>2. LateMeansUnlocked'
    <3>1. CASE HasWakeLock(SuspendLocks) = 0
      <4> DEFINE S == active \cap SuspendLocks
      <4>1. left \in Timeouts /\ S \subseteq Locks
        BY <1>1 DEF LocksOK, WakeLockTypeOK, Timeouts, Locks
      <4>2. has_wake_lock_locked(S, auto, left) = 0
        BY <3>1 DEF HasWakeLock
      <4>3. Unlimited(S, auto) = {} /\ \A l \in S : left[l] = 0
        BY <4>1, <4>2, HasWakeLockValue
      <4>4. Expires(S, auto, left) = S
        BY <4>3 DEF Expires, Unlimited, Overdue
      <4> QED
        BY <1>5, <4>4 DEF power_suspend_late, has_wake_lock,
           ExpireWakeLocks, LateMeansUnlocked
    <3>2. CASE HasWakeLock(SuspendLocks) # 0
      BY <1>5, <3>2 DEF power_suspend_late, goto, LateMeansUnlocked
    <3> QED
      BY <3>1, <3>2
  <2> QED
    BY <1>2, <1>3, <2>1, <2>2, WorkerStepKeepsSleepInv
<1>6. CASE UNCHANGED wlvars /\ (worker' \notin {"late", "asleep"} \/ suspend_enter)
  <2>1. LocksOK' /\ (MainActive' <=> MainActive)
    BY <1>1, <1>6 DEF LocksOK, WakeLockTypeOK, MainActive, wlvars
  <2>2. LateMeansUnlocked'
    BY <1>6 DEF suspend_enter, goto, SleepInv, LateMeansUnlocked, wlvars
  <2> QED
    BY <1>2, <1>3, <2>1, <2>2, WorkerStepKeepsSleepInv
<1>7. CASE suspend_exit /\ ~event
  <2>1. /\ wake_lock_timeout(unknown_wakeup, UnknownTimeout)
        /\ UNCHANGED initialized
    BY <1>7 DEF suspend_exit
  <2>2. UnknownTimeout \in 0 .. MaxTimeout
    BY UnknownTimeoutAssumption, LockAssumption
  <2>3. LocksOK' /\ (MainActive' <=> MainActive)
    BY <1>1, <2>1, <2>2, WakeLockTimeoutOK
  <2>4. LateMeansUnlocked'
    BY <1>7 DEF suspend_exit, goto, LateMeansUnlocked
  <2> QED
    BY <1>2, <1>3, <2>3, <2>4, WorkerStepKeepsSleepInv
<1>8. CASE suspend_entry_event
  <2>1. LocksOK' /\ (MainActive' <=> MainActive)
    BY <1>1, <1>8 DEF suspend_entry_event, LocksOK, WakeLockTypeOK,
                      MainActive
  <2>2. LateMeansUnlocked'
    BY <1>8 DEF suspend_entry_event, goto, LateMeansUnlocked
  <2> QED
    BY <1>2, <1>3, <2>1, <2>2, WorkerStepKeepsSleepInv
<1>9. \/ has_wake_lock(SuspendLocks) /\ worker' \notin {"late", "asleep"}
      \/ power_suspend_late
      \/ UNCHANGED wlvars /\ (worker' \notin {"late", "asleep"} \/ suspend_enter)
      \/ suspend_exit /\ ~event
      \/ suspend_entry_event
  BY DEF SuspendWork, SuspendFailure, goto, suspend_check,
     pm_suspend, suspend_prepare, freeze_done,
     freeze_retry, device_suspend, suspend_enter,
     suspend_finish, suspend_exit, suspend_prepare_fails, freeze_fails,
     device_suspend_fails, power_down_fails, wake_up
<1> QED
  BY <1>4, <1>5, <1>6, <1>7, <1>8, <1>9

LEMMA RunWorkqueueKeepsSleepInv ==
  ASSUME SleepInv, run_workqueue, UNCHANGED esvars PROVE SleepInv'
<1>1. worklist' \in Seq(Works) /\ Head(worklist) \in Works
  BY DEF SleepInv, LocksOK, WakeLockTypeOK, run_workqueue
<1>2. worker' \in {"suspend", "early_suspend", "late_resume"}
  BY <1>1 DEF run_workqueue, goto, EntryStep, Works
<1>3. LocksOK' /\ (MainActive' <=> MainActive)
  BY <1>1 DEF SleepInv, LocksOK, WakeLockTypeOK, run_workqueue, MainActive
<1>4. /\ LateMeansUnlocked'
      /\ worker' \in {"idle"} \cup SuspendSteps \cup EarlySteps
      /\ UNCHANGED <<requested_suspend_state, suspend_requested, suspended>>
  BY <1>2 DEF LateMeansUnlocked, SuspendSteps, EarlySteps, run_workqueue,
              esvars
<1> QED
  BY <1>3, <1>4, WorkerStepKeepsSleepInv

LEMMA EarlySuspendKeepsSleepInv ==
  ASSUME SleepInv, EarlySuspendWork PROVE SleepInv'
<1> USE DEF goto, LateMeansUnlocked, EarlySteps
<1>1. LocksOK /\ main_wake_lock \in Locks
  BY LockAssumption DEF SleepInv, Locks
<1>2. CASE early_suspend_final /\ suspend_requested /\ suspended
  <2>1. LocksOK'
    BY <1>1, <1>2, WakeUnlockOK DEF early_suspend_final
  <2>2. /\ worker' = "idle"
        /\ UNCHANGED <<requested_suspend_state, suspend_requested, suspended>>
    BY <1>2 DEF early_suspend_final, esvars
  <2> QED
    BY <1>2, <2>1, <2>2
       DEF SleepInv, ControlOK, MainLockFollowsRequest, RequestIsSleep
<1>3. CASE UNCHANGED wlvars
  <2>1. LocksOK' /\ (MainActive' <=> MainActive)
    BY <1>1, <1>3 DEF LocksOK, WakeLockTypeOK, MainActive, wlvars
  <2>2. CASE early_suspend_state
    BY <2>1, <2>2 DEF early_suspend_state, SleepInv, ControlOK,
       MainLockFollowsRequest, RequestIsSleep
  <2>3. CASE late_resume_state
    BY <2>1, <2>3 DEF late_resume_state, SleepInv, ControlOK,
       MainLockFollowsRequest, RequestIsSleep
  <2>4. CASE \/ early_suspend_call \/ early_suspend_sync
             \/ early_suspend_final \/ late_resume_call
             \/ late_resume_done
    <3>1. /\ LateMeansUnlocked'
          /\ worker' \in {"idle"} \cup SuspendSteps \cup EarlySteps
          /\ UNCHANGED <<requested_suspend_state, suspend_requested,
                         suspended>>
      BY <1>3, <2>4 DEF early_suspend_call, early_suspend_sync,
         early_suspend_final, late_resume_call, late_resume_done, spvars,
         esvars, SleepInv, ControlOK
    <3> QED
      BY <2>1, <3>1, WorkerStepKeepsSleepInv
  <2> QED
    BY <2>2, <2>3, <2>4 DEF EarlySuspendWork
<1> QED
  BY <1>2, <1>3 DEF EarlySuspendWork, early_suspend_state,
     early_suspend_call, early_suspend_sync, early_suspend_final,
     late_resume_state, late_resume_call, late_resume_done

LEMMA InitSleepInv == Init => SleepInv
<1> SUFFICES ASSUME Init PROVE SleepInv
  OBVIOUS
<1>1. left \in [Locks -> 0 .. MaxTimeout]
  BY LockAssumption DEF Init, WakeLockInit
<1>2. expire_timer \in NoTimer .. MaxTimeout
  BY LockAssumption DEF Init, WakeLockInit
<1>3. LocksOK
  <2>1. worklist \in Seq(Works)
    BY DEF Init, WakeLockInit
  <2>3. event \in BOOLEAN /\ abandoned \in BOOLEAN
    BY DEF Init, WakeLockInit
  <2>2. /\ initialized \subseteq Locks /\ active \subseteq initialized
        /\ auto = {} /\ preventing = {}
        /\ {main_wake_lock, unknown_wakeup} \subseteq initialized
    BY LockAssumption DEF Init, WakeLockInit, Locks
  <2> QED
    BY <1>1, <1>2, <2>1, <2>2, <2>3 DEF LocksOK, WakeLockTypeOK
<1>4. ControlOK /\ LateMeansUnlocked /\ RequestIsSleep
  BY DEF Init, ControlOK, SleepStates, LateMeansUnlocked, RequestIsSleep
<1> QED
  BY <1>3, <1>4 DEF Init, WakeLockInit, SleepInv, MainLockFollowsRequest,
     MainActive

LEMMA NextSleepInv == SleepInv /\ [Next]_vars => SleepInv'
<1> SUFFICES ASSUME SleepInv, [Next]_vars PROVE SleepInv'
  OBVIOUS
<1>1. CASE KernelClient
  BY <1>1, KernelClientKeepsSleepInv
<1>2. CASE UserClient
  BY <1>2, UserClientKeepsSleepInv
<1>3. CASE DriverClient \/ UNCHANGED vars
  <2>1. UNCHANGED <<wlvars, spvars, suspend_requested, suspended>>
    BY <1>3 DEF DriverClient, register_early_suspend,
       unregister_early_suspend, vars, esvars
  <2> QED
    BY <2>1 DEF SleepInv, LocksOK, WakeLockTypeOK, ControlOK,
       MainLockFollowsRequest, MainActive, LateMeansUnlocked,
       RequestIsSleep, wlvars, spvars
<1>4. CASE arch_idle \/ TimerTick \/ TimerSoftirq
  <2>1. LocksOK' /\ (MainActive' <=> MainActive)
    BY <1>4, HasWakeLockOK, TickOK, ExpireOK
       DEF arch_idle, TimerTick, TimerSoftirq, SleepInv
  <2> QED
    BY <1>4, <2>1, LockStepKeepsSleepInv
       DEF arch_idle, TimerTick, TimerSoftirq
<1>5. CASE Worker \/ Failure \/ WakeUp
  BY <1>5, RunWorkqueueKeepsSleepInv, SuspendKeepsSleepInv,
     EarlySuspendKeepsSleepInv DEF Worker, Failure, WakeUp
<1> QED
  BY <1>1, <1>2, <1>3, <1>4, <1>5 DEF Next, Client

(* The system never sleeps while a wake lock is held or has time left, with*)
(* any number of locks: power_suspend_late, with interrupts off, decides.  *)
THEOREM NoSleepTheorem == Spec => []NoSleepWithWakeLock
<1>1. SleepInv => NoSleepWithWakeLock
  BY DEF SleepInv, LateMeansUnlocked, NoSleepWithWakeLock, Asleep
<1> QED
  BY <1>1, InitSleepInv, NextSleepInv, PTL DEF Spec

(* The main wake lock is free only while a request for sleep stands and the*)
(* handlers were called, whatever order requests and works come in.        *)
THEOREM MainLockTheorem == Spec => []MainLockFollowsRequest
<1>1. SleepInv => MainLockFollowsRequest
  BY DEF SleepInv
<1> QED
  BY <1>1, InitSleepInv, NextSleepInv, PTL DEF Spec

-----------------------------------------------------------------------------
(* The marks that wakelock statistics are computed from, as an invariant of*)
(* any locks: PreventingIsExact is kept by every operation of wakelock.c.  *)
(* That the main lock has no time-out (LocksOK) matters: if it could expire*)
(* the other locks would not get their marks.                              *)

(* Locks are expired, or time passes: no lock that is overdue before is    *)
(* not overdue after, and marks of expired locks are cleared.              *)
LEMMA ExpiryKeepsMarks ==
  ASSUME LocksOK, PreventingIsExact, NEW E,
         E \subseteq Overdue(active, auto, left),
         ExpireWakeLocks(E, active, auto, preventing), left' = left
  PROVE  PreventingIsExact'
BY DEF LocksOK, PreventingIsExact, ExpireWakeLocks, Overdue

LEMMA HasWakeLockKeepsMarks ==
  ASSUME LocksOK, PreventingIsExact, NEW T, has_wake_lock(T)
  PROVE  PreventingIsExact'
<1>1. Expires(active \cap T, auto, left) \subseteq Overdue(active, auto, left)
  BY DEF Expires, Overdue
<1> QED
  BY <1>1, ExpiryKeepsMarks DEF has_wake_lock

LEMMA TimerKeepsMarks ==
  ASSUME LocksOK, PreventingIsExact, expire_wake_locks
  PROVE  PreventingIsExact'
<1>1. Expires(active \cap SuspendLocks, auto, left)
        \subseteq Overdue(active, auto, left)
  BY DEF Expires, Overdue
<1> QED
  BY <1>1, ExpiryKeepsMarks DEF expire_wake_locks

LEMMA TickKeepsMarks ==
  ASSUME LocksOK, PreventingIsExact, Tick
  PROVE  PreventingIsExact'
<1>1. Overdue(active, auto, left) \subseteq Overdue(active, auto, left)'
  BY DEF Tick, Overdue, LocksOK, WakeLockTypeOK, Locks
<1> QED
  BY <1>1 DEF PreventingIsExact, Tick

LEMMA InitDestroyKeepsMarks ==
  ASSUME LocksOK, PreventingIsExact, NEW l \in ClientLocks,
         wake_lock_init(l) \/ wake_lock_destroy(l)
  PROVE  PreventingIsExact'
BY LockAssumption
   DEF LocksOK, WakeLockTypeOK, ClientLocks, wake_lock_init, wake_lock_destroy,
       PreventingIsExact, Overdue

(* What wake_lock_internal leaves marked when l is on the lists with the   *)
(* flags and times it was given: exactly the locks that keep the system up.*)
LEMMA LockStatsIsExact ==
  ASSUME LocksOK, PreventingIsExact, NEW l \in Locks,
         NEW act, act = active \cup {l},
         NEW a, a \in {auto \cup {l}, auto \ {l}},
         NEW x \in 0 .. MaxTimeout, NEW t, t = [left EXCEPT ![l] = x]
  PROVE  /\ LockStats(l, act, a, t) \subseteq act \cap SuspendLocks
         /\ \A k \in (act \cap SuspendLocks) \ Overdue(act, a, t) :
              k \in LockStats(l, act, a, t) <=> main_wake_lock \notin act
<1> DEFINE S  == act \cap SuspendLocks
           p0 == IF l \in auto /\ left[l] = 0 THEN preventing \ {l}
                 ELSE preventing
<1>1. /\ p0 \subseteq S
      /\ main_wake_lock \in active => l \notin p0
  BY DEF PreventingIsExact, Overdue
<1>2. ASSUME NEW k \in S \ Overdue(act, a, t), k # l
      PROVE  k \in p0 <=> main_wake_lock \notin active
  <2>1. k \in (active \cap SuspendLocks) \ Overdue(active, auto, left)
    BY <1>2 DEF Overdue, LocksOK, WakeLockTypeOK, Locks
  <2> QED
    BY <1>2, <2>1 DEF PreventingIsExact
<1> HIDE DEF p0
<1>3. CASE l \notin SuspendLocks
  <2>1. LockStats(l, act, a, t) = p0
    BY <1>3 DEF LockStats, p0
  <2> QED
    BY <1>1, <1>2, <1>3, <2>1, LockAssumption
<1>4. CASE l = main_wake_lock
  <2>1. LockStats(l, act, a, t) = p0 \ S
    BY <1>4, LockAssumption DEF LockStats, p0, update_sleep_wait_stats_locked
  <2> QED
    BY <1>1, <1>4, <2>1
<1>5. CASE l \in SuspendLocks /\ l # main_wake_lock /\ main_wake_lock \notin act
  <2>1. LockStats(l, act, a, t) =
          (p0 \ Overdue(S, a, t)) \cup (S \ Overdue(S, a, t))
    BY <1>5 DEF LockStats, p0, update_sleep_wait_stats_locked
  <2> QED
    BY <1>1, <1>5, <2>1 DEF Overdue
<1>6. CASE l \in SuspendLocks /\ l # main_wake_lock /\ main_wake_lock \in act
  <2>1. LockStats(l, act, a, t) = p0
    BY <1>6 DEF LockStats, p0
  <2> QED
    BY <1>1, <1>2, <1>6, <2>1
<1> QED
  BY <1>3, <1>4, <1>5, <1>6

LEMMA WakeLockKeepsMarks ==
  ASSUME LocksOK, PreventingIsExact, NEW l \in Locks, wake_lock(l)
  PROVE  PreventingIsExact'
<1> DEFINE act == active \cup {l}
           a   == auto \ {l}
           t   == [left EXCEPT ![l] = 0]
           p   == LockStats(l, act, a, t)
<1>1. 0 \in 0 .. MaxTimeout
  BY LockAssumption
<1>2. /\ p \subseteq act \cap SuspendLocks
      /\ \A k \in (act \cap SuspendLocks) \ Overdue(act, a, t) :
           k \in p <=> main_wake_lock \notin act
  BY <1>1, LockStatsIsExact
<1>3. active' = act /\ auto' = a /\ left' = t /\ preventing' = p
  BY DEF wake_lock
<1> HIDE DEF act, a, t, p
<1> QED
  BY <1>2, <1>3 DEF PreventingIsExact, Overdue

LEMMA WakeLockTimeoutKeepsMarks ==
  ASSUME LocksOK, PreventingIsExact, NEW l \in Locks \ {main_wake_lock},
         NEW timeout \in 0 .. MaxTimeout, wake_lock_timeout(l, timeout)
  PROVE  PreventingIsExact'
<1> DEFINE act == active \cup {l}
           a   == auto \cup {l}
           t   == [left EXCEPT ![l] = timeout]
           S   == act \cap SuspendLocks
           p   == LockStats(l, act, a, t)
<1>1. /\ p \subseteq S
      /\ \A k \in S \ Overdue(act, a, t) :
           k \in p <=> main_wake_lock \notin act
  BY LockStatsIsExact
<1>2. left' = t
  BY DEF wake_lock_timeout
<1>3. PICK E : ExpireWakeLocks(E, act, a, p) /\ E \subseteq Overdue(act, a, t)
  <2>1. Expires(S, a, t) \subseteq Overdue(act, a, t)
    BY DEF Expires, Overdue
  <2>2. \/ ExpireWakeLocks(Expires(S, a, t), act, a, p)
        \/ ExpireWakeLocks({}, act, a, p)
    BY DEF wake_lock_timeout
  <2> HIDE DEF act, a, t, p, S
  <2> QED
    BY <2>1, <2>2
<1>4. main_wake_lock \notin a
  BY DEF LocksOK
<1> HIDE DEF act, a, t, p
<1> QED
  BY <1>1, <1>2, <1>3, <1>4 DEF ExpireWakeLocks, PreventingIsExact, Overdue

LEMMA WakeUnlockKeepsMarks ==
  ASSUME LocksOK, PreventingIsExact, NEW l \in Locks, wake_unlock(l)
  PROVE  PreventingIsExact'
<1> DEFINE act == active \ {l}
           a   == auto \ {l}
           t   == [left EXCEPT ![l] = 0]
           S   == act \cap SuspendLocks
           E   == Expires(S, a, t)
           p0  == preventing \ {l}
           p   == IF l = main_wake_lock
                  THEN update_sleep_wait_stats_locked(FALSE, S \ E, a, t,
                                                      p0 \ E)
                  ELSE p0
<1>1. left' = t
  BY DEF wake_unlock
<1>2. \A D : Overdue(D, a, t) = {k \in D : k \in auto /\ k # l /\ left[k] = 0}
  BY DEF Overdue, LocksOK, WakeLockTypeOK
<1>3. E \subseteq Overdue(act, a, t)
  BY DEF Expires, Overdue
<1>4. /\ p0 \subseteq S
      /\ \A k \in S \ Overdue(act, a, t) : k \in p0 <=> main_wake_lock \notin active
  BY <1>2 DEF PreventingIsExact, Overdue
<1>5. /\ p \subseteq S
      /\ \A k \in S \ Overdue(act, a, t) : k \in p <=> main_wake_lock \notin act
  <2>1. CASE l = main_wake_lock
    <3>1. p = ((p0 \ E) \ Overdue(S \ E, a, t)) \cup ((S \ E) \ Overdue(S \ E, a, t))
      BY <2>1 DEF update_sleep_wait_stats_locked
    <3>2. S \ Overdue(act, a, t) \subseteq (S \ E) \ Overdue(S \ E, a, t)
      BY <1>2, <1>3
    <3> HIDE DEF p, p0, E, a, t
    <3> QED
      BY <1>4, <2>1, <3>1, <3>2
  <2>2. CASE l # main_wake_lock
    BY <1>4, <2>2
  <2> QED
    BY <2>1, <2>2
<1>6. PICK D : ExpireWakeLocks(D, act, a, p) /\ D \subseteq Overdue(act, a, t)
  <2>1. ExpireWakeLocks(E, act, a, p) \/ ExpireWakeLocks({}, act, a, p)
    BY DEF wake_unlock
  <2> HIDE DEF E, act, a, p, t
  <2> QED
    BY <1>3, <2>1
<1>7. main_wake_lock \notin a
  BY DEF LocksOK
<1> HIDE DEF act, a, t, p, E
<1> QED
  BY <1>1, <1>5, <1>6, <1>7 DEF ExpireWakeLocks, PreventingIsExact, Overdue

(* Every step of the composition is one of these operations, or leaves the *)
(* locks and their marks alone.                                            *)
LEMMA NextKeepsMarks ==
  ASSUME SleepInv, PreventingIsExact, [Next]_vars
  PROVE  PreventingIsExact'
<1>1. LocksOK /\ main_wake_lock \in Locks
      /\ unknown_wakeup \in Locks \ {main_wake_lock}
      /\ UnknownTimeout \in 0 .. MaxTimeout
  BY LockAssumption, UnknownTimeoutAssumption DEF SleepInv, Locks
<1>2. CASE UNCHANGED <<active, auto, left, preventing>>
  BY <1>2 DEF PreventingIsExact, Overdue
<1>3. CASE KernelClient
  <2>1. PICK l \in KernelLocks :
          \/ wake_lock_init(l) \/ wake_lock_destroy(l)
          \/ wake_lock(l) \/ wake_unlock(l)
          \/ \E t \in 0 .. MaxTimeout : wake_lock_timeout(l, t)
    BY <1>3 DEF KernelClient
  <2>2. l \in ClientLocks /\ l \in Locks \ {main_wake_lock}
    BY DEF KernelLocks, ClientLocks
  <2> QED
    BY <1>1, <2>1, <2>2, InitDestroyKeepsMarks, WakeLockKeepsMarks,
       WakeUnlockKeepsMarks, WakeLockTimeoutKeepsMarks
<1>4. CASE UserClient
  <2>1. CASE \E l \in UserLocks : wake_lock_store(l) \/ wake_unlock_store(l)
    <3>1. PICK l \in UserLocks : wake_lock(l) \/ wake_unlock(l)
                         \/ \E t \in 0 .. MaxTimeout : wake_lock_timeout(l, t)
      BY <2>1 DEF wake_lock_store, wake_unlock_store
    <3>2. l \in Locks \ {main_wake_lock}
      BY UserLocksAssumption DEF ClientLocks
    <3> QED
      BY <1>1, <3>1, <3>2, WakeLockKeepsMarks, WakeUnlockKeepsMarks,
         WakeLockTimeoutKeepsMarks
  <2>2. CASE \E s \in SleepStates : request_suspend_state(s)
    <3>1. wake_lock(main_wake_lock) \/ UNCHANGED <<active, auto, left, preventing>>
      BY <2>2 DEF request_suspend_state, wlvars
    <3> QED
      BY <1>1, <1>2, <3>1, WakeLockKeepsMarks
  <2> QED
    BY <1>4, <2>1, <2>2 DEF UserClient
<1>5. CASE DriverClient \/ UNCHANGED vars
  BY <1>2, <1>5 DEF DriverClient, register_early_suspend,
     unregister_early_suspend, vars, wlvars
<1>6. CASE arch_idle \/ TimerTick \/ TimerSoftirq
  BY <1>1, <1>6, HasWakeLockKeepsMarks, TickKeepsMarks, TimerKeepsMarks
     DEF arch_idle, TimerTick, TimerSoftirq
<1>7. CASE run_workqueue \/ EarlySuspendWork
  <2>1. wake_unlock(main_wake_lock) \/ UNCHANGED <<active, auto, left, preventing>>
    BY <1>7 DEF run_workqueue, EarlySuspendWork, early_suspend_state,
       early_suspend_call, early_suspend_sync, early_suspend_final,
       late_resume_state, late_resume_call, late_resume_done, wlvars
  <2> QED
    BY <1>1, <1>2, <2>1, WakeUnlockKeepsMarks
<1>8. CASE SuspendWork \/ SuspendFailure \/ wake_up
  <2>1. \/ has_wake_lock(SuspendLocks)
        \/ wake_lock_timeout(unknown_wakeup, UnknownTimeout)
        \/ UNCHANGED <<active, auto, left, preventing>>
    BY <1>8 DEF SuspendWork, SuspendFailure, suspend_check,
       suspend_entry_event, pm_suspend, suspend_prepare, freeze_done,
       freeze_retry, device_suspend, power_suspend_late, suspend_enter,
       suspend_finish, suspend_exit, suspend_prepare_fails, freeze_fails,
       device_suspend_fails, power_down_fails, wake_up, wlvars
  <2> QED
    BY <1>1, <1>2, <2>1, HasWakeLockKeepsMarks, WakeLockTimeoutKeepsMarks
<1> QED
  BY <1>3, <1>4, <1>5, <1>6, <1>7, <1>8
     DEF Next, Client, Worker, Failure, WakeUp

(* The marks of the statistics are exact, for any locks and time-outs: no  *)
(* path through locking, unlocking, expiry and requests leaves one behind. *)
THEOREM PreventingTheorem == Spec => []PreventingIsExact
<1>1. Init => PreventingIsExact
  BY DEF Init, WakeLockInit, PreventingIsExact
<1>2. SleepInv /\ PreventingIsExact /\ [Next]_vars => PreventingIsExact'
  BY NextKeepsMarks
<1> QED
  BY <1>1, <1>2, InitSleepInv, NextSleepInv, PTL DEF Spec

-----------------------------------------------------------------------------
(***************************************************************************)
(* No suspend attempt is lost unless a client destroys the lock it holds:  *)
(* as long as nothing holds the system up, somebody (the timer, a queued   *)
(* work or the worker) will look again.  An operation on a suspend lock    *)
(* establishes this whatever was before it, all other steps keep it.       *)
(***************************************************************************)

(* suspend() returns without taking unknown_wakeup only when the main lock *)
(* was taken after entry_event_num was read, and it is still held then.    *)
EventMeansMain ==
  worker \in SuspendSteps \ {"suspend", "entry_event"} /\ event => MainActive

WatchInv ==
  /\ TimerCoversTimeouts
  /\ NoLostSuspend
  /\ EventMeansMain

-----------------------------------------------------------------------------
(* The work queue *)

LEMMA QueueWorkPending ==
  ASSUME worklist \in Seq(Works), NEW w \in Works, queue_work(w)
  PROVE  /\ Pending(w)'
         /\ \A v \in Works : Pending(v) => Pending(v)'
<1>1. CASE Pending(w)
  BY <1>1 DEF queue_work, Pending
<1>2. CASE ~Pending(w)
  <2> DEFINE n == Len(worklist)
  <2>1. /\ worklist' = Append(worklist, w) /\ n \in Nat
        /\ Len(worklist') = n + 1 /\ worklist'[n + 1] = w
        /\ \A i \in 1 .. n : worklist'[i] = worklist[i]
    BY <1>2 DEF queue_work
  <2> HIDE DEF n
  <2>2. \E i \in 1 .. Len(worklist') : worklist'[i] = w
    <3>1. n + 1 \in 1 .. Len(worklist')
      BY <2>1
    <3> QED
      BY <2>1, <3>1
  <2>3. ASSUME NEW v \in Works, NEW i \in 1 .. n, worklist[i] = v
        PROVE  \E j \in 1 .. Len(worklist') : worklist'[j] = v
    <3>1. i \in 1 .. Len(worklist') /\ worklist'[i] = v
      BY <2>1, <2>3
    <3> QED
      BY <3>1
  <2> QED
    BY <2>2, <2>3 DEF Pending, Contains, n
<1> QED
  BY <1>1, <1>2

LEMMA TailKeepsPending ==
  ASSUME worklist \in Seq(Works), worklist # <<>>, NEW w, Pending(w),
         Head(worklist) # w, worklist' = Tail(worklist)
  PROVE  Pending(w)'
<1>1. PICK i \in 1 .. Len(worklist) : worklist[i] = w
  BY DEF Pending, Contains
<1>2. /\ Len(worklist) \in Nat /\ Len(worklist') = Len(worklist) - 1
      /\ \A j \in 1 .. Len(worklist) - 1 : worklist'[j] = worklist[j + 1]
      /\ Head(worklist) = worklist[1]
  OBVIOUS
<1>3. i # 1
  BY <1>1, <1>2
<1>4. i - 1 \in 1 .. Len(worklist') /\ worklist'[i - 1] = w
  BY <1>1, <1>2, <1>3
<1> QED
  BY <1>4 DEF Pending, Contains

-----------------------------------------------------------------------------
(* Scans of the suspend list *)

(* A scan that sets the timer from its result, as wake_unlock and          *)
(* wake_lock_timeout do, covers every time-out; unless it returns 0, a lock*)
(* is held for good or the timer runs.                                     *)
LEMMA ScanSetsTimer ==
  ASSUME NEW act, act \subseteq Locks, NEW a, NEW t \in Timeouts, NEW p,
         NEW v, v = has_wake_lock_locked(act \cap SuspendLocks, a, t),
         ExpireWakeLocks(Expires(act \cap SuspendLocks, a, t), act, a, p),
         left' = t,
         expire_timer' = IF v > 0 THEN v ELSE NoTimer
  PROVE  /\ TimerCoversTimeouts'
         /\ v # 0 => HeldSuspendLocks' # {} \/ expire_timer' # NoTimer
<1> DEFINE S == act \cap SuspendLocks
           E == Expires(S, a, t)
<1>1. S \subseteq Locks
  OBVIOUS
<1>2. /\ v \in -1 .. MaxTimeout
      /\ v = -1 <=> Unlimited(S, a) # {}
      /\ v = 0 <=> Unlimited(S, a) = {} /\ \A l \in S : t[l] = 0
      /\ v > 0 => \A l \in S : t[l] <= v
  BY <1>1, HasWakeLockValue
<1>3. /\ active' = act \ E /\ auto' = a \ E
      /\ \A l \in S : t[l] \in Nat
  BY DEF ExpireWakeLocks, Timeouts
<1>4. CASE v = -1
  <2>1. E = {}
    BY <1>2, <1>4 DEF Expires
  <2>2. HeldSuspendLocks' # {}
    BY <1>2, <1>3, <1>4, <2>1 DEF HeldSuspendLocks, Unlimited
  <2> QED
    BY <2>2 DEF TimerCoversTimeouts
<1>5. CASE v = 0
  BY <1>2, <1>3, <1>5 DEF TimerCoversTimeouts
<1>6. CASE v > 0
  <2>1. expire_timer' = v /\ v # NoTimer /\ \A l \in S : t[l] <= v
    BY <1>2, <1>6, LockAssumption
  <2> QED
    BY <1>2, <1>3, <2>1 DEF TimerCoversTimeouts
<1> QED
  BY <1>2, <1>4, <1>5, <1>6, LockAssumption

(* Expiring overdue locks changes neither the locks held for good nor the  *)
(* locks with time left.                                                   *)
LEMMA ExpiryKeepsWatch ==
  ASSUME LocksOK, NEW T, T = SuspendLocks \/ T = IdleLocks,
         ExpireWakeLocks(Expires(active \cap T, auto, left), active, auto,
                         preventing),
         left' = left
  PROVE  /\ HeldSuspendLocks' = HeldSuspendLocks
         /\ active' \subseteq active
BY DEF ExpireWakeLocks, Expires, Overdue, HeldSuspendLocks, Unlimited

LEMMA HasWakeLockKeepsTimer ==
  ASSUME LocksOK, NEW T, T = SuspendLocks \/ T = IdleLocks,
         has_wake_lock(T), TimerCoversTimeouts
  PROVE  /\ TimerCoversTimeouts'
         /\ HeldSuspendLocks' = HeldSuspendLocks
         /\ expire_timer' = expire_timer /\ worklist' = worklist
         /\ event' = event /\ abandoned' = abandoned
<1>1. /\ HeldSuspendLocks' = HeldSuspendLocks /\ active' \subseteq active
  BY ExpiryKeepsWatch DEF has_wake_lock
<1>2. UNCHANGED <<left, expire_timer, worklist, event, abandoned>>
  BY DEF has_wake_lock
<1> QED
  BY <1>1, <1>2 DEF TimerCoversTimeouts

(* What a scan that returns a value other than 0 found. *)
LEMMA FoundMeansWatched ==
  ASSUME LocksOK, TimerCoversTimeouts, HasWakeLock(SuspendLocks) # 0
  PROVE  HeldSuspendLocks # {} \/ expire_timer # NoTimer \/ abandoned
<1> DEFINE S == active \cap SuspendLocks
<1>1. left \in Timeouts /\ S \subseteq Locks /\ expire_timer \in Int
  BY LockAssumption DEF LocksOK, WakeLockTypeOK, Timeouts
<1>2. HeldSuspendLocks # {} \/ \E l \in S : left[l] # 0
  BY <1>1, HasWakeLockValue DEF HasWakeLock, HeldSuspendLocks
<1>3. SUFFICES ASSUME HeldSuspendLocks = {}, ~abandoned
               PROVE  expire_timer # NoTimer
  OBVIOUS
<1>4. PICK l \in S : left[l] # 0
  BY <1>2, <1>3
<1>5. left[l] \in Nat /\ left[l] > 0
  BY <1>1, <1>4, LockAssumption DEF Timeouts
<1>6. expire_timer >= left[l]
  BY <1>3, <1>4, <1>5 DEF TimerCoversTimeouts
<1> QED
  BY <1>1, <1>5, <1>6

-----------------------------------------------------------------------------
(* Locks of the other type do not matter. *)

LEMMA IdleLockStep ==
  ASSUME LocksOK, WatchInv,
         active' \cap SuspendLocks = active \cap SuspendLocks,
         \A l \in active \cap SuspendLocks :
           (l \in auto' <=> l \in auto) /\ left'[l] = left[l],
         UNCHANGED <<expire_timer, worklist, event, worker>>,
         abandoned => abandoned'
  PROVE  WatchInv'
<1>1. HeldSuspendLocks' = HeldSuspendLocks
  BY DEF HeldSuspendLocks, Unlimited
<1>2. MainActive' <=> MainActive
  BY LockAssumption DEF MainActive
<1> QED
  BY <1>1, <1>2 DEF WatchInv, TimerCoversTimeouts, NoLostSuspend,
     EventMeansMain, Pending

(* A step that locks or unlocks a suspend lock and leaves the worker alone.*)
LEMMA ScanStep ==
  ASSUME LocksOK, WatchInv, TimerCoversTimeouts',
         UNCHANGED <<event, worker>>, MainActive' <=> MainActive,
         \/ HeldSuspendLocks' # {}
         \/ expire_timer' # NoTimer
         \/ queue_work("suspend_work")
  PROVE  WatchInv'
<1>1. queue_work("suspend_work") => Pending("suspend_work")'
  BY QueueWorkPending DEF LocksOK, WakeLockTypeOK, Works
<1> QED
  BY <1>1 DEF WatchInv, NoLostSuspend, EventMeansMain

LEMMA WakeLockStep ==
  ASSUME LocksOK, WatchInv, NEW l \in Locks \ {main_wake_lock},
         wake_lock(l), UNCHANGED <<worklist, worker>>
  PROVE  WatchInv'
<1>1. event' = event /\ active' = active \cup {l} /\ auto' = auto \ {l}
  BY DEF wake_lock, LocksOK, WakeLockTypeOK
<1>2. CASE l \in SuspendLocks
  <2>1. HeldSuspendLocks' # {}
    BY <1>1, <1>2 DEF HeldSuspendLocks, Unlimited
  <2>2. TimerCoversTimeouts' /\ (MainActive' <=> MainActive)
    BY <1>1, <2>1 DEF TimerCoversTimeouts, MainActive
  <2> QED
    BY <1>1, <2>1, <2>2, ScanStep
<1>3. CASE l \notin SuspendLocks
  <2>1. abandoned => abandoned'
    BY <1>3 DEF wake_lock, LooksAtList
  <2> QED
    BY <1>1, <1>3, <2>1, IdleLockStep DEF wake_lock, LocksOK, WakeLockTypeOK
<1> QED
  BY <1>2, <1>3

LEMMA WakeLockTimeoutStep ==
  ASSUME LocksOK, WatchInv, NEW l \in Locks \ {main_wake_lock},
         NEW timeout \in 0 .. MaxTimeout, wake_lock_timeout(l, timeout),
         MainActive' <=> MainActive, worker' = worker
  PROVE  WatchInv'
<1> DEFINE act == active \cup {l}
           a   == auto \cup {l}
           t   == [left EXCEPT ![l] = timeout]
           S   == act \cap SuspendLocks
           v   == has_wake_lock_locked(S, a, t)
           p   == LockStats(l, act, a, t)
<1>1. /\ t \in Timeouts /\ act \subseteq Locks
      /\ left' = t /\ event' = event
  BY DEF wake_lock_timeout, LocksOK, WakeLockTypeOK, Timeouts
<1>2. CASE l \in SuspendLocks
  <2>1. /\ ExpireWakeLocks(Expires(S, a, t), act, a, p)
        /\ expire_timer' = IF v > 0 THEN v ELSE NoTimer
        /\ v = 0 => queue_work("suspend_work")
    BY <1>2 DEF wake_lock_timeout
  <2> HIDE DEF act, a, t, p, v
  <2>2. v = has_wake_lock_locked(act \cap SuspendLocks, a, t)
    BY DEF v
  <2>3. /\ TimerCoversTimeouts'
        /\ v # 0 => HeldSuspendLocks' # {} \/ expire_timer' # NoTimer
    BY <1>1, <2>1, <2>2, ScanSetsTimer
  <2> QED
    BY <1>1, <2>1, <2>3, ScanStep
<1>3. CASE l \notin SuspendLocks
  <2>1. /\ active' = act /\ auto' = a
        /\ UNCHANGED <<expire_timer, worklist>>
    BY <1>3 DEF wake_lock_timeout, ExpireWakeLocks
  <2>2. abandoned => abandoned'
    BY <1>3 DEF wake_lock_timeout, LooksAtList
  <2> QED
    BY <1>1, <1>3, <2>1, <2>2, IdleLockStep DEF LocksOK, WakeLockTypeOK
<1> QED
  BY <1>2, <1>3

(* Also used for the main lock, which early_suspend releases. *)
LEMMA UnlockScan ==
  ASSUME LocksOK, NEW l \in SuspendLocks, wake_unlock(l)
  PROVE  /\ TimerCoversTimeouts'
         /\ \/ HeldSuspendLocks' # {}
            \/ expire_timer' # NoTimer
            \/ queue_work("suspend_work")
         /\ event' = event
<1> DEFINE act == active \ {l}
           a   == auto \ {l}
           t   == [left EXCEPT ![l] = 0]
           S   == act \cap SuspendLocks
           E   == Expires(S, a, t)
           v   == has_wake_lock_locked(S, a, t)
           p0  == preventing \ {l}
           p   == IF l = main_wake_lock
                  THEN update_sleep_wait_stats_locked(FALSE, S \ E, a, t,
                                                      p0 \ E)
                  ELSE p0
<1>1. t \in Timeouts /\ act \subseteq Locks
  <2>1. 0 \in 0 .. MaxTimeout
    BY LockAssumption
  <2>2. left \in [Locks -> 0 .. MaxTimeout] /\ active \subseteq Locks
    BY DEF LocksOK, WakeLockTypeOK
  <2> QED
    BY <2>1, <2>2 DEF Timeouts
<1>2. /\ left' = t /\ event' = event
      /\ ExpireWakeLocks(E, act, a, p)
      /\ expire_timer' = IF v > 0 THEN v ELSE NoTimer
      /\ v = 0 => queue_work("suspend_work")
  BY DEF wake_unlock
<1> HIDE DEF act, a, t, p, v
<1>3. v = has_wake_lock_locked(act \cap SuspendLocks, a, t)
  BY DEF v
<1>4. /\ TimerCoversTimeouts'
      /\ v # 0 => HeldSuspendLocks' # {} \/ expire_timer' # NoTimer
  BY <1>1, <1>2, <1>3, ScanSetsTimer
<1> QED
  BY <1>2, <1>4

LEMMA WakeUnlockStep ==
  ASSUME LocksOK, WatchInv, NEW l \in Locks \ {main_wake_lock},
         wake_unlock(l), MainActive' <=> MainActive, worker' = worker
  PROVE  WatchInv'
<1>1. CASE l \in SuspendLocks
  BY <1>1, UnlockScan, ScanStep
<1>2. CASE l \notin SuspendLocks
  <2>1. /\ active' = active \ {l} /\ auto' = auto \ {l}
        /\ left' = [left EXCEPT ![l] = 0]
        /\ UNCHANGED <<expire_timer, worklist, event>>
    BY <1>2 DEF wake_unlock, ExpireWakeLocks
  <2>2. abandoned => abandoned'
    BY <1>2 DEF wake_unlock, LooksAtList
  <2> QED
    BY <1>2, <2>1, <2>2, IdleLockStep DEF LocksOK, WakeLockTypeOK
<1> QED
  BY <1>1, <1>2

LEMMA InitDestroyStep ==
  ASSUME LocksOK, WatchInv, NEW l \in ClientLocks,
         wake_lock_init(l) \/ wake_lock_destroy(l),
         worker' = worker
  PROVE  WatchInv'
<1>1. /\ active' = active \ {l} /\ auto' = auto \ {l}
      /\ left' = left \/ left' = [left EXCEPT ![l] = 0]
      /\ UNCHANGED <<expire_timer, worklist, event>>
  BY DEF wake_lock_init, wake_lock_destroy
<1>2. /\ abandoned => abandoned'
      /\ HeldSuspendLocks = {l} => abandoned'
  <2>1. CASE wake_lock_init(l)
    BY <2>1 DEF wake_lock_init, HeldSuspendLocks, Unlimited, LocksOK,
       WakeLockTypeOK
  <2>2. CASE wake_lock_destroy(l)
    BY <2>2 DEF wake_lock_destroy
  <2> QED
    BY <2>1, <2>2
<1>3. HeldSuspendLocks' = HeldSuspendLocks \ {l}
  BY <1>1 DEF HeldSuspendLocks, Unlimited
<1>4. MainActive' <=> MainActive
  BY <1>1 DEF MainActive, ClientLocks
<1>5. ~abandoned' /\ HeldSuspendLocks' = {} =>
         ~abandoned /\ HeldSuspendLocks = {}
  BY <1>2, <1>3
<1>6. TimerCoversTimeouts'
  BY <1>1, <1>5 DEF WatchInv, TimerCoversTimeouts, LocksOK, WakeLockTypeOK
<1>7. NoLostSuspend'
  BY <1>1, <1>5 DEF WatchInv, NoLostSuspend, Pending
<1> QED
  BY <1>1, <1>4, <1>6, <1>7 DEF WatchInv, EventMeansMain

-----------------------------------------------------------------------------
(* The actions *)

LEMMA KernelClientWatch ==
  ASSUME SleepInv, WatchInv, KernelClient
  PROVE  WatchInv'
<1>1. LocksOK /\ worker' = worker
  BY DEF SleepInv, KernelClient, spvars
<1>2. PICK l \in KernelLocks :
        \/ wake_lock_init(l)
        \/ /\ l \in initialized
           /\ UNCHANGED initialized
           /\ \/ wake_lock(l) /\ UNCHANGED worklist
              \/ \E t \in 0 .. MaxTimeout : wake_lock_timeout(l, t)
              \/ wake_unlock(l)
        \/ wake_lock_destroy(l)
  BY DEF KernelClient
<1>3. l \in ClientLocks /\ l \in Locks \ {main_wake_lock}
  BY DEF KernelLocks, ClientLocks
<1>4. CASE wake_lock_init(l) \/ wake_lock_destroy(l)
  BY <1>1, <1>3, <1>4, InitDestroyStep
<1>5. CASE wake_lock(l) /\ UNCHANGED worklist
  BY <1>1, <1>3, <1>5, WakeLockStep
<1>6. CASE /\ l \in initialized /\ UNCHANGED initialized
           /\ \E t \in 0 .. MaxTimeout : wake_lock_timeout(l, t)
  <2>1. PICK t \in 0 .. MaxTimeout : wake_lock_timeout(l, t)
    BY <1>6
  <2>2. initialized' \subseteq Locks
    BY <1>1, <1>6 DEF LocksOK, WakeLockTypeOK
  <2>3. MainActive' <=> MainActive
    BY <1>1, <1>3, <1>6, <2>1, <2>2, WakeLockTimeoutOK
  <2> QED
    BY <1>1, <1>3, <2>1, <2>3, WakeLockTimeoutStep
<1>7. CASE wake_unlock(l)
  <2>1. MainActive' <=> MainActive
    BY <1>1, <1>3, <1>7, WakeUnlockOK
  <2> QED
    BY <1>1, <1>3, <1>7, <2>1, WakeUnlockStep
<1> QED
  BY <1>2, <1>4, <1>5, <1>6, <1>7

LEMMA UserClientWatch ==
  ASSUME SleepInv, WatchInv, UserClient PROVE WatchInv'
<1>1. LocksOK /\ worklist \in Seq(Works)
  BY DEF SleepInv, LocksOK, WakeLockTypeOK
<1>2. CASE /\ \E l \in UserLocks : wake_lock_store(l) \/ wake_unlock_store(l)
           /\ UNCHANGED <<spvars, esvars>>
  <2>1. PICK l \in UserLocks : wake_lock_store(l) \/ wake_unlock_store(l)
    BY <1>2
  <2>2. l \in Locks \ {main_wake_lock} /\ worker' = worker
    BY <1>2, UserLocksAssumption DEF ClientLocks, spvars
  <2>3. CASE wake_lock(l) /\ UNCHANGED worklist
    BY <1>1, <2>2, <2>3, WakeLockStep
  <2>4. CASE /\ wake_lock_store(l)
             /\ \E t \in 0 .. MaxTimeout : wake_lock_timeout(l, t)
    <3>1. PICK t \in 0 .. MaxTimeout : wake_lock_timeout(l, t)
      BY <2>4
    <3>2. /\ l \in initialized' /\ initialized \subseteq initialized'
          /\ initialized' \subseteq Locks
      BY <1>1, <2>2, <2>4 DEF wake_lock_store, lookup_wake_lock_name,
         LocksOK, WakeLockTypeOK
    <3>3. MainActive' <=> MainActive
      BY <1>1, <2>2, <3>1, <3>2, WakeLockTimeoutOK
    <3> QED
      BY <1>1, <2>2, <3>1, <3>3, WakeLockTimeoutStep
  <2>5. CASE wake_unlock_store(l)
    <3>1. wake_unlock(l)
      BY <2>5 DEF wake_unlock_store
    <3>2. MainActive' <=> MainActive
      BY <1>1, <2>2, <3>1, WakeUnlockOK
    <3> QED
      BY <1>1, <2>2, <3>1, <3>2, WakeUnlockStep
  <2> QED
    BY <2>1, <2>3, <2>4, <2>5 DEF wake_lock_store
<1>3. ASSUME NEW s \in SleepStates, request_suspend_state(s)
      PROVE  WatchInv'
  <2>1. worker' = worker
    BY <1>3 DEF request_suspend_state
  <2>2. CASE /\ queue_work("early_suspend_work")
             /\ UNCHANGED <<initialized, active, auto, left, preventing,
                            expire_timer, event, abandoned>>
    <3>1. Pending("suspend_work") => Pending("suspend_work")'
      BY <1>1, <2>2, QueueWorkPending DEF Works
    <3>2. HeldSuspendLocks' = HeldSuspendLocks /\ (MainActive' <=> MainActive)
      BY <2>2 DEF HeldSuspendLocks, MainActive
    <3> QED
      BY <2>1, <2>2, <3>1, <3>2 DEF WatchInv, TimerCoversTimeouts,
         NoLostSuspend, EventMeansMain
  <2>3. CASE wake_lock(main_wake_lock)
    <3>1. main_wake_lock \in active' /\ main_wake_lock \notin auto'
      BY <2>3 DEF wake_lock
    <3>2. MainActive' /\ HeldSuspendLocks' # {}
      BY <3>1, LockAssumption DEF MainActive, HeldSuspendLocks, Unlimited
    <3> QED
      BY <3>2 DEF WatchInv, TimerCoversTimeouts, NoLostSuspend,
         EventMeansMain
  <2>4. CASE UNCHANGED wlvars
    BY <1>1, <2>1, <2>4, IdleLockStep DEF wlvars
  <2> QED
    BY <1>3, <2>2, <2>3, <2>4 DEF request_suspend_state
<1> QED
  BY <1>2, <1>3 DEF UserClient

LEMMA TimerWatch ==
  ASSUME SleepInv, WatchInv, arch_idle \/ TimerTick \/ TimerSoftirq
  PROVE  WatchInv'
<1>1. LocksOK /\ worker' = worker /\ TimerCoversTimeouts
  BY DEF SleepInv, WatchInv, arch_idle, TimerTick, TimerSoftirq, spvars
<1>2. CASE arch_idle
  <2>1. /\ TimerCoversTimeouts' /\ HeldSuspendLocks' = HeldSuspendLocks
        /\ UNCHANGED <<expire_timer, worklist, event, abandoned>>
        /\ (MainActive' <=> MainActive)
    BY <1>1, <1>2, HasWakeLockKeepsTimer, HasWakeLockOK DEF arch_idle
  <2> QED
    BY <1>1, <2>1 DEF WatchInv, NoLostSuspend, EventMeansMain, Pending
<1>3. CASE TimerTick
  <2>1. Tick
    BY <1>3 DEF TimerTick
  <2>2. /\ left \in [Locks -> Nat] /\ expire_timer \in Int
        /\ active \subseteq Locks /\ expire_timer >= -1
    BY <1>1, LockAssumption DEF LocksOK, WakeLockTypeOK
  <2>3. HeldSuspendLocks' = HeldSuspendLocks /\ (MainActive' <=> MainActive)
    BY <2>1 DEF Tick, HeldSuspendLocks, MainActive
  <2>4. expire_timer # NoTimer => expire_timer' # NoTimer
    BY <2>1, <2>2 DEF Tick
  <2>5. TimerCoversTimeouts'
    BY <1>1, <2>1, <2>2, <2>3 DEF Tick, TimerCoversTimeouts
  <2>6. UNCHANGED <<worklist, event, abandoned>>
    BY <2>1 DEF Tick
  <2> QED
    BY <1>1, <2>3, <2>4, <2>5, <2>6
       DEF WatchInv, NoLostSuspend, EventMeansMain, Pending
<1>4. CASE TimerSoftirq
  <2>1. expire_wake_locks
    BY <1>4 DEF TimerSoftirq
  <2>2. /\ HeldSuspendLocks' = HeldSuspendLocks /\ active' \subseteq active
        /\ UNCHANGED <<left, event, abandoned>> /\ (MainActive' <=> MainActive)
    BY <1>1, <2>1, ExpiryKeepsWatch, ExpireOK DEF expire_wake_locks
  <2>3. CASE HeldSuspendLocks # {} \/ abandoned
    <3>1. TimerCoversTimeouts' /\ (HeldSuspendLocks' # {} \/ abandoned')
      BY <2>2, <2>3 DEF TimerCoversTimeouts
    <3> QED
      BY <1>1, <2>2, <3>1 DEF WatchInv, NoLostSuspend, EventMeansMain
  <2>4. CASE HeldSuspendLocks = {} /\ ~abandoned
    <3> DEFINE S == active \cap SuspendLocks
    <3>1. left \in Timeouts /\ S \subseteq Locks
      BY <1>1 DEF LocksOK, WakeLockTypeOK, Timeouts
    <3>2. \A l \in S : left[l] \in Nat /\ ~(left[l] > 0)
      <4>1. expire_timer = 0
        BY <2>1 DEF expire_wake_locks
      <4>2. \A l \in S : left[l] \in Nat
        BY <3>1, LockAssumption DEF Timeouts
      <4> QED
        BY <1>1, <2>4, <4>1, <4>2 DEF TimerCoversTimeouts
    <3>3. Unlimited(S, auto) = {} /\ \A l \in S : left[l] = 0
      BY <2>4, <3>2 DEF HeldSuspendLocks
    <3>4. HasWakeLock(SuspendLocks) = 0
      BY <3>1, <3>3, HasWakeLockValue DEF HasWakeLock
    <3>5. queue_work("suspend_work")
      BY <2>1, <3>4 DEF expire_wake_locks
    <3>6. TimerCoversTimeouts'
      BY <2>2, <3>3 DEF TimerCoversTimeouts
    <3> QED
      BY <1>1, <2>2, <3>5, <3>6, ScanStep
  <2> QED
    BY <2>3, <2>4
<1> QED
  BY <1>2, <1>3, <1>4

(* The steps of suspend() that leave the locks alone stay inside it. *)
LEMMA SuspendWatch ==
  ASSUME SleepInv, WatchInv, SuspendWork \/ SuspendFailure \/ wake_up
  PROVE  WatchInv'
<1>1. LocksOK /\ TimerCoversTimeouts /\ EventMeansMain
  BY DEF SleepInv, WatchInv
<1>2. CASE UNCHANGED wlvars /\ {worker, worker'} \subseteq
                SuspendSteps \ {"suspend", "entry_event"}
  <2>1. /\ HeldSuspendLocks' = HeldSuspendLocks
        /\ (MainActive' <=> MainActive)
        /\ TimerCoversTimeouts'
    BY <1>1, <1>2 DEF wlvars, HeldSuspendLocks, MainActive,
       TimerCoversTimeouts
  <2> QED
    BY <1>1, <1>2, <2>1 DEF WatchInv, NoLostSuspend, EventMeansMain, wlvars
<1>3. CASE has_wake_lock(SuspendLocks) /\ {worker, worker'} \subseteq
                SuspendSteps \ {"suspend", "entry_event"}
  <2>1. /\ TimerCoversTimeouts' /\ event' = event
        /\ (MainActive' <=> MainActive)
    BY <1>1, <1>3, HasWakeLockKeepsTimer, HasWakeLockOK
  <2> QED
    BY <1>1, <1>3, <2>1 DEF WatchInv, NoLostSuspend, EventMeansMain
<1>4. CASE suspend_check
  <2>1. /\ TimerCoversTimeouts' /\ HeldSuspendLocks' = HeldSuspendLocks
        /\ UNCHANGED <<expire_timer, abandoned>>
    BY <1>1, <1>4, HasWakeLockKeepsTimer DEF suspend_check
  <2>2. CASE HasWakeLock(SuspendLocks) # 0
    <3>1. HeldSuspendLocks # {} \/ expire_timer # NoTimer \/ abandoned
      BY <1>1, <2>2, FoundMeansWatched
    <3>2. worker' = "idle"
      BY <1>4, <2>2 DEF suspend_check, goto
    <3> QED
      BY <2>1, <3>1, <3>2 DEF WatchInv, NoLostSuspend, EventMeansMain,
         SuspendSteps
  <2>3. CASE HasWakeLock(SuspendLocks) = 0
    <3>1. worker' = "entry_event"
      BY <1>4, <2>3 DEF suspend_check, goto
    <3> QED
      BY <2>1, <3>1 DEF WatchInv, NoLostSuspend, EventMeansMain,
         SuspendSteps
  <2> QED
    BY <2>2, <2>3
<1>5. CASE suspend_entry_event
  <2>1. /\ worker' = "pm_suspend" /\ event' = FALSE
        /\ UNCHANGED <<active, auto, left, expire_timer, abandoned>>
    BY <1>5 DEF suspend_entry_event, goto
  <2>2. TimerCoversTimeouts'
    BY <1>1, <2>1 DEF TimerCoversTimeouts, HeldSuspendLocks
  <2> QED
    BY <2>1, <2>2 DEF WatchInv, NoLostSuspend, EventMeansMain, SuspendSteps
<1>6. CASE suspend_exit
  <2>1. worker = "exit" /\ worker' = "idle"
    BY <1>6 DEF suspend_exit, goto
  <2>2. EventMeansMain'
    BY <2>1 DEF EventMeansMain, SuspendSteps
  <2>3. CASE event
    <3>1. UNCHANGED wlvars
      BY <1>6, <2>3 DEF suspend_exit
    <3>2. MainActive
      BY <1>1, <2>1, <2>3 DEF EventMeansMain, SuspendSteps
    <3>3. HeldSuspendLocks' # {} /\ TimerCoversTimeouts'
      BY <1>1, <3>1, <3>2, LockAssumption
         DEF wlvars, MainActive, HeldSuspendLocks, Unlimited, LocksOK,
             TimerCoversTimeouts
    <3> QED
      BY <2>2, <3>3 DEF WatchInv, NoLostSuspend
  <2>4. CASE ~event
    <3> DEFINE l   == unknown_wakeup
               act == active \cup {l}
               a   == auto \cup {l}
               t   == [left EXCEPT ![l] = UnknownTimeout]
               S   == act \cap SuspendLocks
               v   == has_wake_lock_locked(S, a, t)
               p   == LockStats(l, act, a, t)
    <3>1. wake_lock_timeout(unknown_wakeup, UnknownTimeout)
      BY <1>6, <2>4 DEF suspend_exit
    <3>2. /\ unknown_wakeup \in SuspendLocks /\ unknown_wakeup \in Locks
          /\ UnknownTimeout \in 0 .. MaxTimeout /\ UnknownTimeout # 0
      BY LockAssumption, UnknownTimeoutAssumption DEF Locks
    <3>3. /\ t \in Timeouts /\ act \subseteq Locks
          /\ unknown_wakeup \in S /\ t[unknown_wakeup] = UnknownTimeout
      BY <1>1, <3>2 DEF LocksOK, WakeLockTypeOK, Timeouts
    <3>4. /\ left' = t
          /\ ExpireWakeLocks(Expires(S, a, t), act, a, p)
          /\ expire_timer' = IF v > 0 THEN v ELSE NoTimer
      BY <3>1, <3>2 DEF wake_lock_timeout
    <3> HIDE DEF act, a, t, p, v
    <3>5. v = has_wake_lock_locked(act \cap SuspendLocks, a, t)
      BY DEF v
    <3>6. /\ TimerCoversTimeouts'
          /\ v # 0 => HeldSuspendLocks' # {} \/ expire_timer' # NoTimer
      BY <3>3, <3>4, <3>5, ScanSetsTimer
    <3>7. v # 0
      <4>1. S \subseteq Locks
        BY <3>3
      <4> QED
        BY <3>2, <3>3, <3>5, <4>1, HasWakeLockValue
    <3> QED
      BY <2>2, <3>6, <3>7 DEF WatchInv, NoLostSuspend
  <2> QED
    BY <2>3, <2>4
<1> QED
  BY <1>2, <1>3, <1>4, <1>5, <1>6 DEF SuspendWork, SuspendFailure, goto,
     pm_suspend, suspend_prepare, freeze_done, freeze_retry,
     device_suspend, power_suspend_late, suspend_enter, suspend_finish,
     suspend_prepare_fails, freeze_fails, device_suspend_fails,
     power_down_fails, wake_up, SuspendSteps

LEMMA EarlySuspendWatch ==
  ASSUME SleepInv, WatchInv, EarlySuspendWork PROVE WatchInv'
<1>1. LocksOK /\ worker' \notin SuspendSteps /\ worker \notin SuspendSteps
  BY DEF SleepInv, EarlySuspendWork, early_suspend_state,
     early_suspend_call, early_suspend_sync, early_suspend_final,
     late_resume_state, late_resume_call, late_resume_done, goto, spvars,
     SuspendSteps
<1>2. EventMeansMain'
  BY <1>1 DEF EventMeansMain
<1>3. CASE UNCHANGED wlvars
  <2>1. TimerCoversTimeouts' /\ HeldSuspendLocks' = HeldSuspendLocks
    BY <1>3 DEF wlvars, WatchInv, TimerCoversTimeouts, HeldSuspendLocks
  <2> QED
    BY <1>1, <1>2, <1>3, <2>1 DEF WatchInv, NoLostSuspend, Pending, wlvars
<1>4. CASE wake_unlock(main_wake_lock)
  <2>1. /\ TimerCoversTimeouts'
        /\ \/ HeldSuspendLocks' # {}
           \/ expire_timer' # NoTimer
           \/ queue_work("suspend_work")
    BY <1>1, <1>4, UnlockScan, LockAssumption
  <2>2. queue_work("suspend_work") => Pending("suspend_work")'
    BY <1>1, QueueWorkPending DEF LocksOK, WakeLockTypeOK, Works
  <2> QED
    BY <1>2, <2>1, <2>2 DEF WatchInv, NoLostSuspend
<1> QED
  BY <1>3, <1>4 DEF EarlySuspendWork, early_suspend_state,
     early_suspend_call, early_suspend_sync, early_suspend_final,
     late_resume_state, late_resume_call, late_resume_done

LEMMA RunWorkqueueWatch ==
  ASSUME SleepInv, WatchInv, run_workqueue PROVE WatchInv'
<1>1. /\ worklist \in Seq(Works) /\ worklist # <<>>
      /\ worklist' = Tail(worklist) /\ Head(worklist) \in Works
      /\ UNCHANGED <<active, auto, left, expire_timer, event, abandoned>>
      /\ worker = "idle" /\ worker' = EntryStep(Head(worklist))
  BY DEF SleepInv, LocksOK, WakeLockTypeOK, run_workqueue, goto
<1>2. TimerCoversTimeouts' /\ HeldSuspendLocks' = HeldSuspendLocks
  BY <1>1 DEF WatchInv, TimerCoversTimeouts, HeldSuspendLocks
<1>3. EventMeansMain'
  BY <1>1 DEF EventMeansMain, EntryStep, Works, SuspendSteps
<1>4. NoLostSuspend'
  <2>1. CASE Head(worklist) = "suspend_work"
    BY <1>1, <2>1 DEF NoLostSuspend, EntryStep, SuspendSteps
  <2>2. CASE Head(worklist) # "suspend_work"
    <3>1. Pending("suspend_work") => Pending("suspend_work")'
      BY <1>1, <2>2, TailKeepsPending
    <3> QED
      BY <1>1, <1>2, <3>1 DEF WatchInv, NoLostSuspend, SuspendSteps
  <2> QED
    BY <2>1, <2>2
<1> QED
  BY <1>2, <1>3, <1>4 DEF WatchInv

LEMMA InitWatchInv == Init => WatchInv
<1> SUFFICES ASSUME Init PROVE WatchInv
  OBVIOUS
<1>1. HeldSuspendLocks # {}
  BY LockAssumption DEF Init, WakeLockInit, HeldSuspendLocks, Unlimited
<1> QED
  BY <1>1 DEF Init, WatchInv, TimerCoversTimeouts, NoLostSuspend,
     EventMeansMain, SuspendSteps

LEMMA NextWatchInv == SleepInv /\ WatchInv /\ [Next]_vars => WatchInv'
<1> SUFFICES ASSUME SleepInv, WatchInv, [Next]_vars PROVE WatchInv'
  OBVIOUS
<1>1. CASE KernelClient
  BY <1>1, KernelClientWatch
<1>2. CASE UserClient
  BY <1>2, UserClientWatch
<1>3. CASE DriverClient \/ UNCHANGED vars
  <2>1. UNCHANGED <<wlvars, spvars>>
    BY <1>3 DEF DriverClient, register_early_suspend,
       unregister_early_suspend, vars
  <2>2. LocksOK /\ UNCHANGED <<active, auto, left>>
        /\ UNCHANGED <<expire_timer, worklist, event, abandoned, worker>>
    BY <2>1 DEF SleepInv, wlvars, spvars
  <2> QED
    BY <2>2, IdleLockStep
<1>4. CASE arch_idle \/ TimerTick \/ TimerSoftirq
  BY <1>4, TimerWatch
<1>5. CASE Worker \/ Failure \/ WakeUp
  BY <1>5, RunWorkqueueWatch, SuspendWatch, EarlySuspendWatch
     DEF Worker, Failure, WakeUp
<1> QED
  BY <1>1, <1>2, <1>3, <1>4, <1>5 DEF Next, Client

(* No suspend attempt is lost: while no lock is held without a time-out,   *)
(* the expire timer is pending or suspend_work is queued or running, except*)
(* from the moment wake_lock_destroy takes the last lock held so off its   *)
(* list until the next operation on a suspend lock.                        *)
THEOREM NoLostSuspendTheorem == Spec => []NoLostSuspend
<1>1. WatchInv => NoLostSuspend
  BY DEF WatchInv
<1> QED
  BY <1>1, InitSleepInv, NextSleepInv, InitWatchInv, NextWatchInv, PTL
     DEF Spec

(* The expire timer never fires before the last time-out it stands for,    *)
(* with the same exception.                                                *)
THEOREM TimerTheorem == Spec => []TimerCoversTimeouts
<1>1. WatchInv => TimerCoversTimeouts
  BY DEF WatchInv
<1> QED
  BY <1>1, InitSleepInv, NextSleepInv, InitWatchInv, NextWatchInv, PTL
     DEF Spec
=============================================================================
