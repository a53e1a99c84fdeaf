------------------------------- MODULE Alarm --------------------------------
(***************************************************************************)
(* The alarm device, kernel/drivers/rtc/alarm.c, with the RTC driver of    *)
(* this phone, kernel/drivers/rtc/rtc-msm.c, and the steps of a suspend    *)
(* that the two take part in.                                              *)
(*                                                                         *)
(* Time is counted in ticks, Sec of them to a second; the RTC and its alarm*)
(* count whole seconds.  Three clocks advance together: the time since     *)
(* boot, the wall clock and the RTC.  An hrtimer is the set of at most one *)
(* time it expires at.  A wake lock is the number of ticks it has left;    *)
(* WakeLock models what is inside one.  Alarms of type SYSTEMTIME, on a    *)
(* clock that SET_RTC and suspend leave alone, are left out, and so are    *)
(* clocks set to a time before 1970, which is negative.                    *)
(*                                                                         *)
(* The phone has one CPU: a section under alarm_slock with interrupts off, *)
(* and the callback of a timer, are each one step, and hrtimer_try_to_     *)
(* cancel never meets a callback that is running.                          *)
(***************************************************************************)
EXTENDS Integers

CONSTANTS
  Types,            \* the alarm types that are used, numbered as in the enum
  AlarmTimes,       \* AlarmTimes[t]: times that alarms of type t are set to
  SetAndWait,       \* the pairs <<t, x>> that SET_AND_WAIT is called with
  Jumps,            \* how far the wall clock is set forwards or back
  Sec,              \* ticks in a second
  AlarmTimeout,     \* 5 * HZ in ticks: alarm_wake_lock
  InitWall,         \* wall clock and RTC at boot
  BadSecond,        \* what a read of the RTC that fails is taken for
  MaxTime,          \* bound: the model's time since boot
  MaxClockSets      \* bound: how often a clock is set

ANDROID_ALARM_RTC_WAKEUP == 0
ANDROID_ALARM_RTC == 1
ANDROID_ALARM_ELAPSED_REALTIME_WAKEUP == 2
ANDROID_ALARM_ELAPSED_REALTIME == 3
ANDROID_ALARM_TIME_CHANGE == 16

Wakeup == Types \cap {ANDROID_ALARM_RTC_WAKEUP,
                      ANDROID_ALARM_ELAPSED_REALTIME_WAKEUP}
Elapsed == Types \cap {ANDROID_ALARM_ELAPSED_REALTIME_WAKEUP,
                       ANDROID_ALARM_ELAPSED_REALTIME}

ASSUME AlarmAssumption ==
  /\ Types \subseteq 0 .. 3
  /\ Sec \in Nat \ {0} /\ AlarmTimeout \in Nat \ {0}
  /\ \A t \in Types : AlarmTimes[t] \subseteq Nat
  /\ SetAndWait \subseteq Types \X Nat /\ Jumps \subseteq Int
  /\ InitWall \in Nat /\ BadSecond \in Nat
  /\ MaxTime \in Nat /\ MaxClockSets \in Nat

VARIABLES
  boot, wall, rtc,        \* the clocks
  cb,                     \* the thread of process_cb_request
  alarm_opened,           \* "closed", "open", or "closing" in alarm_release
  closing,                \* types that alarm_release has still to clear
  alarm_enabled,          \* set of types
  alarm_pending,          \* set of types, and TIME_CHANGE
  wait_pending,           \* alarms were delivered and not acknowledged yet
  alarm_time,             \* alarm_time[t]: when t goes off
  hrtimer,                \* hrtimer[t]: expiry of alarm_timer[t], or {}
  elapsed_rtc_delta,      \* wall clock minus elapsed realtime
  alarm_wake_lock,        \* ticks left
  alarm_rtc_wake_lock,    \* ticks left
  waiter,                 \* where the thread that waits for alarms is
  request,                \* <<>>, or <<t, x>> while it is in SET_AND_WAIT
  setrtc,                 \* the thread in SET_RTC
  hasty,                  \* history: types set while it has not set the wall
  rtcalarm_time,          \* second the RTC's alarm goes off, 0 for none
  pm,                     \* where a suspend stands
  second,                 \* of alarm_suspend: of the RTC, then of its alarm
  wakes_at,               \* boot time a limited sleep ends at, 0 for no limit
  sets,                   \* how often a clock was set
  steady,                 \* history: no failed SET_RTC, and nobody else sets
  apart,                  \* history: a clock was set without the other
  sure                    \* history: this suspend has read the RTC, near the
                          \* wall clock, and neither was set since

clocks == <<boot, wall, rtc, cb>>
files == <<alarm_opened, closing>>
alarms == <<alarm_enabled, alarm_time, hrtimer>>
events == <<alarm_pending, wait_pending>>
locks == <<alarm_wake_lock, alarm_rtc_wake_lock>>
waiting == <<waiter, request>>
setclocks == <<elapsed_rtc_delta, setrtc, sets, steady, apart>>
setting == <<setclocks, hasty>>
arming == <<second, sure>>
power == <<rtcalarm_time, pm, wakes_at, arming>>
vars == <<clocks, files, alarms, events, locks, waiting, setting, power>>

(* User space runs, and with it every ioctl and release. *)
Running == pm \in {"on", "freezing"}

Idle == [pc |-> "idle", new |-> 0, old |-> 0]
NoCall == [pc |-> "idle", second |-> 0]

(* What alarm_suspend and msmrtc_virtual_alarm_set take for granted. *)
ClocksAreNear == wall - rtc < Sec /\ rtc - wall < Sec

(* A planted bug: the offset of elapsed realtime is forgotten. *)
Expiry_raw(t, x) == x

(* When the timer of t expires for an alarm at x. *)
Expiry(t, x) == IF t \in Elapsed THEN x + elapsed_rtc_delta ELSE x

(* hrtimer_try_to_cancel, hrtimer_cancel *)
cancel(S) == [t \in Types |-> IF t \in S THEN {} ELSE hrtimer[t]]

(* A planted bug: the timers that were cancelled stay off. *)
alarm_start_hrtimer_not(S) == hrtimer

(* alarm_start_hrtimer for each type of S *)
alarm_start_hrtimer(S) ==
  [t \in Types |-> IF t \in S \cap alarm_enabled
                   THEN {Expiry(t, alarm_time[t])} ELSE hrtimer[t]]

Due(t) == \E x \in hrtimer[t] : x <= wall

-----------------------------------------------------------------------------
(* The ioctls of the one file that claims the device.  Every ioctl but     *)
(* SET_RTC and GET_TIME claims it, also one that then fails.               *)
Claims == Running /\ alarm_opened # "closing" /\ alarm_opened' = "open"

ioctl_fails ==
  /\ Claims
  /\ UNCHANGED <<clocks, closing, alarms, events, locks, waiting, setting, power>>

(* The last pending alarm is cleared and none waits to be acknowledged. *)
ClearUnlocks(t) ==
  alarm_pending # {} /\ alarm_pending \ {t} = {} /\ ~wait_pending

(* ANDROID_ALARM_CLEAR *)
alarm_clear(t) ==
  /\ Claims
  /\ hrtimer' = cancel({t})
  /\ alarm_pending' = alarm_pending \ {t}
  /\ alarm_wake_lock' = IF ClearUnlocks(t) THEN 0 ELSE alarm_wake_lock
  /\ alarm_enabled' = alarm_enabled \ {t}
  /\ UNCHANGED <<clocks, closing, alarm_time, wait_pending,
                 alarm_rtc_wake_lock, waiting, setting, power>>

(* The alarm of t at x is enabled and its timer started. *)
Set(t, x) ==
  /\ alarm_time' = [alarm_time EXCEPT ![t] = x]
  /\ alarm_enabled' = alarm_enabled \cup {t}
  /\ hrtimer' = [hrtimer EXCEPT ![t] = {Expiry(t, x)}]
  /\ hasty' = IF setrtc.pc = "set" THEN hasty \cup {t} ELSE hasty

(* ANDROID_ALARM_SET *)
alarm_set(t, x) ==
  /\ Claims
  /\ Set(t, x)
  /\ UNCHANGED <<clocks, closing, events, locks, waiting, setclocks, power>>

(* ANDROID_ALARM_SET_AND_WAIT, up to the wait: also when it is restarted   *)
(* after the freezer has interrupted it.                                   *)
alarm_set_and_wait(t, x) ==
  /\ Claims
  /\ waiter = "user" \/ (waiter = "restart" /\ request = <<t, x>>)
  /\ Set(t, x)
  /\ waiter' = "ack" /\ request' = <<t, x>>
  /\ UNCHANGED <<clocks, closing, events, locks, setclocks, power>>

(* ANDROID_ALARM_WAIT acknowledges the alarms delivered before. *)
alarm_wait ==
  /\ Claims
  /\ waiter \in {"user", "ack"} \/ (waiter = "restart" /\ request = <<>>)
  /\ waiter' = "blocked"
  /\ IF alarm_pending = {} /\ wait_pending
     THEN alarm_wake_lock' = 0 /\ wait_pending' = FALSE
     ELSE UNCHANGED <<alarm_wake_lock, wait_pending>>
  /\ UNCHANGED <<clocks, closing, alarms, alarm_pending, alarm_rtc_wake_lock,
                 request, setting, power>>

(* wait_event_interruptible sees a pending alarm, without the lock. *)
wait_event ==
  /\ Running /\ waiter = "blocked" /\ alarm_pending # {}
  /\ waiter' = "woken"
  /\ UNCHANGED <<clocks, files, alarms, events, locks, request, setting, power>>

(* A signal ends the wait. *)
wait_interrupted ==
  /\ Running /\ waiter = "blocked" /\ alarm_pending = {}
  /\ waiter' = "user" /\ request' = <<>>
  /\ UNCHANGED <<clocks, files, alarms, events, locks, setting, power>>

(* A planted bug: only wakeup alarms are taken off. *)
Delivered_wakeups == alarm_pending \cap Wakeup

(* What wait_return returns: none, if it was all cleared meanwhile. *)
Delivered == alarm_pending

wait_return ==
  /\ Running /\ waiter = "woken"
  /\ waiter' = "user" /\ request' = <<>>
  /\ wait_pending' = TRUE /\ alarm_pending' = alarm_pending \ Delivered
  /\ alarm_rtc_wake_lock' =
       IF Delivered \cap Wakeup # {} THEN 0 ELSE alarm_rtc_wake_lock
  /\ UNCHANGED <<clocks, files, alarms, alarm_wake_lock, setting, power>>

-----------------------------------------------------------------------------
(* A planted bug: the loop goes on to ANDROID_ALARM_TYPE_COUNT. *)
alarm_release_far ==
  /\ Running /\ alarm_opened = "open" /\ waiter = "user"
  /\ alarm_opened' = "closing" /\ closing' = Types \cup {5}
  /\ UNCHANGED <<clocks, alarms, events, locks, waiting, setting, power>>

(* alarm_release, by the last user of the file: one type after another,    *)
(* the lock dropped in between.                                            *)
alarm_release ==
  /\ Running /\ alarm_opened = "open" /\ waiter = "user"
  /\ alarm_opened' = "closing" /\ closing' = Types
  /\ UNCHANGED <<clocks, alarms, events, locks, waiting, setting, power>>

release_type(t) ==
  /\ t \in closing /\ \A u \in closing : t <= u
  /\ closing' = closing \ {t}
  /\ alarm_enabled' = alarm_enabled \ {t}
  /\ hrtimer' = cancel({t})
  /\ UNCHANGED <<clocks, alarm_opened, alarm_time, events, locks, waiting,
                 setting, power>>

(* A planted bug: only alarms that are still pending are cleaned up. *)
LeftOver_pending == alarm_pending # {}

LeftOver == alarm_pending # {} \/ wait_pending

release_end ==
  /\ alarm_opened = "closing" /\ closing = {}
  /\ alarm_opened' = "closed"
  /\ IF LeftOver
     THEN alarm_wake_lock' = 0 /\ wait_pending' = FALSE /\ alarm_pending' = {}
     ELSE UNCHANGED <<alarm_wake_lock, wait_pending, alarm_pending>>
  /\ UNCHANGED <<clocks, closing, alarms, alarm_rtc_wake_lock, waiting, setting,
                 power>>

-----------------------------------------------------------------------------
(* A planted bug: elapsed realtime jumps with the wall clock. *)
NewDelta_same(new) == elapsed_rtc_delta

(* What keeps elapsed realtime as it is when the wall clock becomes new. *)
NewDelta(new) == elapsed_rtc_delta - (wall - new)

(* ANDROID_ALARM_SET_RTC, by a thread that need not own the device.  The   *)
(* steps are those that alarm_setrtc_mutex and alarm_slock leave; err_     *)
(* restore goes through them again with the old time, which is read first. *)
alarm_set_rtc(new) ==
  /\ Running /\ setrtc.pc = "idle" /\ sets < MaxClockSets
  /\ setrtc' = [pc |-> "begin", new |-> new, old |-> wall]
  /\ sets' = sets + 1
  /\ UNCHANGED <<clocks, files, alarms, events, locks, waiting,
                 elapsed_rtc_delta, steady, apart, hasty, power>>

set_rtc_begin ==
  /\ setrtc.pc = "begin"
  /\ hrtimer' = cancel(Types)
  /\ elapsed_rtc_delta' = NewDelta(setrtc.new)
  /\ setrtc' = [setrtc EXCEPT !.pc = "set"]
  /\ UNCHANGED <<clocks, files, alarm_enabled, alarm_time, events, locks,
                 waiting, sets, steady, apart, hasty, power>>

(* do_settimeofday, which may refuse the time. *)
set_wall ==
  /\ \/ setrtc.pc = "set" /\ wall' = setrtc.new
        /\ setrtc' = [setrtc EXCEPT !.pc = "start"] /\ UNCHANGED steady
     \/ setrtc.pc = "set" /\ setrtc' = [setrtc EXCEPT !.pc = "refused"]
        /\ steady' = FALSE /\ UNCHANGED wall
     \/ setrtc.pc = "reset" /\ wall' = setrtc.old
        /\ setrtc' = [setrtc EXCEPT !.pc = "restart"] /\ UNCHANGED steady
  /\ hasty' = {}
  /\ UNCHANGED <<boot, rtc, cb, files, alarms, events, locks, waiting,
                 elapsed_rtc_delta, sets, apart, power>>

set_rtc_start ==
  /\ setrtc.pc \in {"start", "refused", "restart"}
  /\ hrtimer' = alarm_start_hrtimer(Types)
  /\ setrtc' = CASE setrtc.pc = "start" -> [setrtc EXCEPT !.pc = "rtc"]
                 [] setrtc.pc = "restart" -> [setrtc EXCEPT !.pc = "rertc"]
                 [] setrtc.pc = "refused" -> Idle
  /\ UNCHANGED <<clocks, files, alarm_enabled, alarm_time, events, locks,
                 waiting, elapsed_rtc_delta, sets, steady, apart, hasty, power>>

(* rtc_set_time, in whole seconds, and the event for the waiter. *)
set_rtc_done ==
  /\ \/ setrtc.pc = "rtc" /\ rtc' = (setrtc.new \div Sec) * Sec
        /\ setrtc' = Idle /\ UNCHANGED steady
     \/ setrtc.pc = "rtc" /\ setrtc' = [setrtc EXCEPT !.pc = "restore"]
        /\ steady' = FALSE /\ UNCHANGED rtc
     \/ setrtc.pc = "rertc" /\ rtc' \in {rtc, (setrtc.old \div Sec) * Sec}
        /\ setrtc' = Idle /\ UNCHANGED steady
  /\ alarm_pending' = alarm_pending \cup {ANDROID_ALARM_TIME_CHANGE}
  /\ UNCHANGED <<boot, wall, cb, files, alarms, wait_pending, locks, waiting,
                 elapsed_rtc_delta, sets, apart, hasty, power>>

set_rtc_restore ==
  /\ setrtc.pc = "restore"
  /\ hrtimer' = cancel(Types)
  /\ setrtc' = [setrtc EXCEPT !.pc = "reset"]
  /\ UNCHANGED <<clocks, files, alarm_enabled, alarm_time, events, locks,
                 waiting, elapsed_rtc_delta, sets, steady, apart, hasty, power>>

(* settimeofday, from any process: the RTC is left as it is. *)
settimeofday(new) ==
  /\ Running /\ sets < MaxClockSets
  /\ wall' = new
  /\ sets' = sets + 1 /\ steady' = FALSE /\ apart' = TRUE /\ sure' = FALSE
  /\ UNCHANGED <<boot, rtc, cb, files, alarms, events, locks, waiting,
                 elapsed_rtc_delta, setrtc, hasty, rtcalarm_time, pm, wakes_at,
                 second>>

(* The modem has a new time of day, in its RTC, and calls back. *)
tod_update(new) ==
  /\ pm # "asleep" /\ cb.pc = "idle" /\ sets < MaxClockSets
  /\ rtc' = new
  /\ cb' = [pc |-> "called", second |-> 0]
  /\ sets' = sets + 1 /\ apart' = TRUE /\ sure' = FALSE
  /\ UNCHANGED <<boot, wall, files, alarms, events, locks, waiting, steady,
                 elapsed_rtc_delta, setrtc, hasty, rtcalarm_time, pm, wakes_at,
                 second>>

(* The callback, in a thread that is not frozen and takes no lock of the   *)
(* alarms: rtc_hctosys reads the RTC, which may fail, ...                  *)
process_cb_request ==
  /\ pm # "asleep" /\ cb.pc = "called"
  /\ cb' \in {NoCall, [pc |-> "set", second |-> rtc \div Sec]}
  /\ UNCHANGED <<boot, wall, rtc, files, alarms, events, locks, waiting, setting,
                 power>>

(* A planted bug: the wall clock is set to the second that comes next. *)
HalfPast_next(s) == (s + 1) * Sec + Sec \div 2

(* The middle of a second, since the RTC has no fractions. *)
HalfPast(s) == s * Sec + Sec \div 2

(* ... and sets the wall clock from it.  The two agree then, unless the RTC*)
(* was set in between or SET_RTC is about to set the wall clock.           *)
rtc_hctosys ==
  /\ pm # "asleep" /\ cb.pc = "set"
  /\ wall' = HalfPast(cb.second)
  /\ cb' = NoCall
  /\ steady' = FALSE /\ sure' = FALSE
  /\ apart' = (setrtc.pc # "idle" \/ cb.second # rtc \div Sec)
  /\ UNCHANGED <<boot, rtc, files, alarms, events, locks, waiting,
                 elapsed_rtc_delta, setrtc, sets, hasty, rtcalarm_time, pm,
                 wakes_at, second>>

-----------------------------------------------------------------------------
(* The callback of a timer: an alarm that was cleared meanwhile is none. *)
alarm_timer_triggered(t) ==
  /\ pm # "asleep" /\ Due(t)
  /\ hrtimer' = cancel({t})
  /\ IF t \in alarm_enabled
     THEN /\ alarm_wake_lock' = AlarmTimeout
          /\ alarm_enabled' = alarm_enabled \ {t}
          /\ alarm_pending' = alarm_pending \cup {t}
     ELSE UNCHANGED <<alarm_wake_lock, alarm_enabled, alarm_pending>>
  /\ UNCHANGED <<clocks, files, alarm_time, wait_pending, alarm_rtc_wake_lock,
                 waiting, setting, power>>

(* Ticks left of a wake lock after one more. *)
Shorter(lock) == IF lock = 0 THEN 0 ELSE lock - 1

(* Time passes.  Timers and the end of a limited sleep do not wait, and    *)
(* the steps of SET_RTC, of rtc_hctosys and of suspending devices take less*)
(* than a tick.                                                            *)
tick ==
  /\ boot < MaxTime
  /\ setrtc.pc = "idle" /\ cb.pc # "set"
  /\ \/ Running /\ \A t \in Types : ~Due(t)
     \/ pm = "asleep" /\ (wakes_at = 0 \/ boot < wakes_at)
  /\ boot' = boot + 1 /\ wall' = wall + 1 /\ rtc' = rtc + 1
  /\ alarm_wake_lock' = Shorter(alarm_wake_lock)
  /\ alarm_rtc_wake_lock' = Shorter(alarm_rtc_wake_lock)
  /\ UNCHANGED <<cb, files, alarms, events, waiting, setting, power>>

-----------------------------------------------------------------------------
(* A suspend begins when no wake lock is held; others than the alarm's may *)
(* put it off.                                                             *)
suspend ==
  /\ pm = "on" /\ alarm_wake_lock = 0 /\ alarm_rtc_wake_lock = 0
  /\ pm' = "freezing"
  /\ UNCHANGED <<clocks, files, alarms, events, locks, waiting, setting,
                 rtcalarm_time, wakes_at, arming>>

(* All tasks freeze, where they return to user space; a wait that has      *)
(* nothing to return is interrupted, and its ioctl starts again when it is *)
(* thawed.                                                                 *)
freeze_processes ==
  /\ pm = "freezing" /\ setrtc.pc = "idle" /\ alarm_opened # "closing"
  /\ waiter \in {"user", "restart"} \/ (waiter = "blocked" /\ alarm_pending = {})
  /\ pm' = "frozen"
  /\ waiter' = IF waiter = "blocked" THEN "restart" ELSE waiter
  /\ UNCHANGED <<clocks, files, alarms, events, locks, request, setting,
                 rtcalarm_time, wakes_at, arming>>

(* Freezing is given up, for a wake lock or for a task that does not freeze.*)
freeze_fails ==
  /\ pm = "freezing"
  /\ pm' = "on"
  /\ UNCHANGED <<clocks, files, alarms, events, locks, waiting, setting,
                 rtcalarm_time, wakes_at, arming>>

(* A planted bug: a pending alarm without a wake lock does not matter. *)
StopsSuspend_never == FALSE

StopsSuspend == alarm_pending # {} /\ alarm_wake_lock = 0

(* alarm_suspend under alarm_slock *)
alarm_suspend ==
  /\ pm = "frozen"
  /\ pm' = IF StopsSuspend THEN "on"
           ELSE IF alarm_enabled \cap Wakeup # {} THEN "cancel_rtc" ELSE "rtc"
  /\ UNCHANGED <<clocks, files, alarms, events, locks, waiting, setting,
                 rtcalarm_time, wakes_at, arming>>

(* ... and without it: timers go off between these steps. *)
suspend_cancel(from, t, to) ==
  /\ pm = from /\ pm' = to
  /\ hrtimer' = cancel({t} \cap alarm_enabled)
  /\ UNCHANGED <<clocks, files, alarm_enabled, alarm_time, events, locks,
                 waiting, setting, rtcalarm_time, wakes_at, arming>>

(* alarm_time of a type that may not be in use *)
TimeOf(t) == IF t \in Types THEN alarm_time[t] ELSE 0

(* Elapsed realtime alarms in terms of the wall clock. *)
elapsed_realtime_alarm_time ==
  TimeOf(ANDROID_ALARM_ELAPSED_REALTIME_WAKEUP) + elapsed_rtc_delta

(* A planted bug: of two wakeup alarms, not the earlier one is taken. *)
first_alarm_time_any ==
  IF ANDROID_ALARM_RTC_WAKEUP \in alarm_enabled
  THEN TimeOf(ANDROID_ALARM_RTC_WAKEUP) ELSE elapsed_realtime_alarm_time

(* The wakeup alarm that comes first. *)
first_alarm_time ==
  IF /\ ANDROID_ALARM_RTC_WAKEUP \in alarm_enabled
     /\ \/ ANDROID_ALARM_ELAPSED_REALTIME_WAKEUP \notin alarm_enabled
        \/ TimeOf(ANDROID_ALARM_RTC_WAKEUP) < elapsed_realtime_alarm_time
  THEN TimeOf(ANDROID_ALARM_RTC_WAKEUP) ELSE elapsed_realtime_alarm_time

(* rtc_read_time: the code looks at the time also when the read has failed.*)
ReadSeconds == {rtc \div Sec, BadSecond}

(* The second of the RTC at which it is to wake the phone, by the second   *)
(* that was read: the offset of the wall clock from that is taken off, and *)
(* the rest cut to seconds.                                                *)
rtc_alarm_time(now) ==
  LET rtc_delta == wall - now * Sec
  IN  (first_alarm_time - rtc_delta) \div Sec

(* A planted bug: the RTC takes no alarm. *)
rtc_set_alarm_not(s) == 0

(* msmrtc_virtual_alarm_set refuses a second that the wall clock is past. *)
rtc_set_alarm(s) == IF wall \div Sec > s THEN 0 ELSE s

(* rtc_set_alarm with enabled = 0 and a time that is all zeroes: it fails  *)
(* in rtc_valid_tm, before it reaches the driver.                          *)
rtc_disable_alarm(s) == s

(* The RTC is read, *)
suspend_read ==
  /\ pm = "read" /\ pm' = "arm"
  /\ second' \in ReadSeconds
  /\ sure' = (second' = rtc \div Sec /\ ClocksAreNear)
  /\ UNCHANGED <<clocks, files, alarms, events, locks, waiting, setting,
                 rtcalarm_time, wakes_at>>

(* its alarm set, *)
suspend_arm ==
  /\ pm = "arm" /\ pm' = "check"
  /\ second' = rtc_alarm_time(second)
  /\ rtcalarm_time' = rtc_set_alarm(rtc_alarm_time(second))
  /\ UNCHANGED <<clocks, files, alarms, events, locks, waiting, setting,
                 wakes_at, sure>>

(* and the RTC read again: an alarm less than two seconds away ends the    *)
(* suspend.                                                                *)
suspend_check ==
  \E now \in ReadSeconds :
    /\ pm = "check"
    /\ IF now + 1 >= second
       THEN /\ rtcalarm_time' = rtc_disable_alarm(rtcalarm_time)
            /\ alarm_rtc_wake_lock' = 2 * Sec
            /\ hrtimer' = alarm_start_hrtimer(Wakeup)
            /\ pm' = "on"
       ELSE /\ pm' = "rtc"
            /\ UNCHANGED <<rtcalarm_time, alarm_rtc_wake_lock, hrtimer>>
    /\ sure' = (sure /\ now = rtc \div Sec)
    /\ UNCHANGED <<clocks, files, alarm_enabled, alarm_time, events,
                   alarm_wake_lock, waiting, setting, wakes_at, second>>

(* The RTC's alarm has gone off: msmrtc_alarmtimer_expired calls           *)
(* alarm_triggered_func.                                                   *)
Expired == rtcalarm_time # 0 /\ rtcalarm_time <= rtc \div Sec

msmrtc_alarmtimer_expired ==
  rtcalarm_time' = 0 /\ alarm_rtc_wake_lock' = Sec

msmrtc_suspend ==
  /\ pm = "rtc" /\ pm' = "late"
  /\ IF Expired
     THEN msmrtc_alarmtimer_expired /\ wakes_at' = 0
     ELSE /\ wakes_at' = IF rtcalarm_time = 0 THEN 0
                         ELSE boot + (rtcalarm_time - rtc \div Sec) * Sec
          /\ UNCHANGED <<rtcalarm_time, alarm_rtc_wake_lock>>
  /\ UNCHANGED <<clocks, files, alarms, events, alarm_wake_lock, waiting,
                 setting, arming>>

(* Another device, or the RTC itself, fails to suspend: those that have    *)
(* suspended before it resume.                                             *)
device_suspend_fails ==
  /\ \/ pm = "frozen" /\ pm' = "on"
     \/ pm = "rtc" /\ pm' = "resume"
     \/ pm = "late" /\ pm' = "waking"
  /\ wakes_at' = 0
  /\ UNCHANGED <<clocks, files, alarms, events, locks, waiting, setting,
                 rtcalarm_time, arming>>

(* Interrupts are off; power_suspend_late looks for wake locks again. *)
power_suspend_late ==
  /\ pm = "late"
  /\ IF alarm_wake_lock # 0 \/ alarm_rtc_wake_lock # 0
     THEN pm' = "waking" /\ wakes_at' = 0
     ELSE pm' = "asleep" /\ UNCHANGED wakes_at
  /\ UNCHANGED <<clocks, files, alarms, events, locks, waiting, setting,
                 rtcalarm_time, arming>>

Wakes ==
  /\ pm = "asleep" /\ pm' = "waking" /\ wakes_at' = 0
  /\ UNCHANGED <<clocks, files, alarms, events, locks, waiting, setting,
                 rtcalarm_time, arming>>

(* The end of a limited sleep, and any other interrupt that wakes. *)
sleep_ends == wakes_at # 0 /\ boot >= wakes_at /\ Wakes
other_wakeup == Wakes

(* The RTC may fail to tell the time. *)
msmrtc_resume ==
  /\ pm = "waking" /\ pm' = "resume"
  /\ \/ Expired /\ msmrtc_alarmtimer_expired
     \/ UNCHANGED <<rtcalarm_time, alarm_rtc_wake_lock>>
  /\ UNCHANGED <<clocks, files, alarms, events, alarm_wake_lock, waiting,
                 setting, wakes_at, arming>>

alarm_resume ==
  /\ pm = "resume" /\ pm' = "on"
  /\ IF alarm_enabled \cap Wakeup # {}
     THEN /\ rtcalarm_time' = rtc_disable_alarm(rtcalarm_time)
          /\ hrtimer' = alarm_start_hrtimer(Wakeup)
     ELSE UNCHANGED <<rtcalarm_time, hrtimer>>
  /\ UNCHANGED <<clocks, files, alarm_enabled, alarm_time, events, locks,
                 waiting, setting, wakes_at, arming>>

-----------------------------------------------------------------------------
(* alarm_late_init, and no file open. *)
Init ==
  /\ boot = 0 /\ wall = InitWall /\ rtc = InitWall /\ cb = NoCall
  /\ alarm_opened = "closed" /\ closing = {}
  /\ alarm_enabled = {} /\ alarm_pending = {} /\ wait_pending = FALSE
  /\ alarm_time = [t \in Types |-> 0] /\ hrtimer = [t \in Types |-> {}]
  /\ elapsed_rtc_delta = wall - boot
  /\ alarm_wake_lock = 0 /\ alarm_rtc_wake_lock = 0
  /\ waiter = "user" /\ request = <<>>
  /\ setrtc = Idle /\ sets = 0 /\ steady = TRUE /\ apart = FALSE /\ hasty = {}
  /\ rtcalarm_time = 0 /\ pm = "on" /\ wakes_at = 0
  /\ second = 0 /\ sure = FALSE

(* The thread that waits for alarms, once it is in an ioctl; and SET_RTC   *)
(* and alarm_release once they have begun.                                 *)
WaitStep == wait_event \/ wait_return
WaitAgain == alarm_wait \/ \E r \in SetAndWait :
                              waiter = "restart" /\ alarm_set_and_wait(r[1], r[2])
SetRtcStep ==
  set_rtc_begin \/ set_wall \/ set_rtc_start \/ set_rtc_done \/ set_rtc_restore
ReleaseStep == release_end \/ \E t \in Types : release_type(t)

(* A suspend goes on by itself once it has frozen the tasks. *)
SuspendStep ==
  \/ alarm_suspend \/ suspend_read \/ suspend_arm \/ suspend_check
  \/ msmrtc_suspend \/ power_suspend_late
  \/ suspend_cancel("cancel_rtc", ANDROID_ALARM_RTC_WAKEUP, "cancel_elapsed")
  \/ suspend_cancel("cancel_elapsed", ANDROID_ALARM_ELAPSED_REALTIME_WAKEUP,
                    "read")
  \/ sleep_ends \/ msmrtc_resume \/ alarm_resume

SetsClock == \E d \in Jumps : \/ wall + d >= 0 /\ alarm_set_rtc(wall + d)
                              \/ wall + d >= 0 /\ settimeofday(wall + d)
                              \/ rtc + d >= 0 /\ tod_update(rtc + d)

CallbackStep == process_cb_request \/ rtc_hctosys

FreezeStep == freeze_processes \/ freeze_fails

Next ==
  \/ \E t \in Types : \/ alarm_clear(t) \/ alarm_timer_triggered(t)
                       \/ \E x \in AlarmTimes[t] : alarm_set(t, x)
  \/ \E r \in SetAndWait : alarm_set_and_wait(r[1], r[2])
  \/ ioctl_fails \/ alarm_wait \/ wait_interrupted \/ WaitStep
  \/ alarm_release \/ ReleaseStep
  \/ SetsClock \/ SetRtcStep \/ CallbackStep
  \/ tick
  \/ suspend \/ FreezeStep \/ SuspendStep
  \/ device_suspend_fails \/ other_wakeup

Spec == Init /\ [][Next]_vars

(* Interrupts, time, the suspend thread, and ioctls that have begun go on; *)
(* the phone comes back to user space for some time after each suspend, so *)
(* that what can run only then still runs (strong fairness).  The client   *)
(* waits again after each alarm; nothing else that it does is assumed.     *)
Fairness ==
  /\ SF_vars(tick)
  /\ \A t \in Types : SF_vars(alarm_timer_triggered(t))
  /\ WF_vars(SuspendStep) /\ WF_vars(FreezeStep)
  /\ WF_vars(SetRtcStep) /\ WF_vars(ReleaseStep) /\ SF_vars(CallbackStep)
  /\ WF_vars(WaitStep) /\ SF_vars(WaitAgain)

FairSpec == Spec /\ Fairness

-----------------------------------------------------------------------------
(* Where the thread in SET_RTC can be, with the new and the old time. *)
SetRtcThread ==
  [pc : {"idle", "begin", "set", "start", "refused", "rtc", "restore", "reset",
         "restart", "rertc"}, new : Int, old : Int]

(* Where the thread of the callback can be, with the second that it read. *)
CallbackThread == [pc : {"idle", "called", "set"}, second : Int]

TypeOK ==
  /\ boot \in 0 .. MaxTime /\ wall \in Int /\ rtc \in Int
  /\ cb \in CallbackThread
  /\ alarm_opened \in {"closed", "open", "closing"} /\ closing \subseteq Types
  /\ alarm_enabled \subseteq Types
  /\ alarm_pending \subseteq Types \cup {ANDROID_ALARM_TIME_CHANGE}
  /\ wait_pending \in BOOLEAN
  /\ alarm_time \in [Types -> Nat] /\ hrtimer \in [Types -> SUBSET Int]
  /\ elapsed_rtc_delta \in Int
  /\ alarm_wake_lock \in Nat /\ alarm_rtc_wake_lock \in Nat
  /\ waiter \in {"user", "ack", "blocked", "woken", "restart"}
  /\ request \in {<<>>} \cup SetAndWait
  /\ setrtc \in SetRtcThread
  /\ sets \in 0 .. MaxClockSets /\ hasty \subseteq Types
  /\ steady \in BOOLEAN /\ apart \in BOOLEAN /\ sure \in BOOLEAN
  /\ pm \in {"on", "freezing", "frozen", "cancel_rtc", "cancel_elapsed", "read",
             "arm", "check", "rtc", "late", "asleep", "waking", "resume"}
  /\ rtcalarm_time \in Int /\ wakes_at \in Int /\ second \in Int

(* The time that GET_TIME returns for t.  It takes alarm_setrtc_mutex, so  *)
(* what is reported in the middle of a SET_RTC is what it is at the end.   *)
Reported(t) == IF t \in Elapsed THEN wall - elapsed_rtc_delta ELSE wall

(* An alarm that is set has its timer, for the right time, whenever user   *)
(* space can look: SET_RTC, a suspend that was given up at any step and a  *)
(* resume leave no enabled alarm without one, and none for an old offset.  *)
EnabledAlarmsAreArmed ==
  \A t \in alarm_enabled :
    \/ setrtc.pc \in {"set", "start", "refused", "reset", "restart"}
    \/ ~Running
    \/ \E x \in hrtimer[t] : x - wall = alarm_time[t] - Reported(t)

(* The phone never sleeps longer than until the first wakeup alarm that is *)
(* set, whatever the offset of elapsed realtime and wherever in a second   *)
(* the clocks are, if alarm_suspend could read the RTC, this was less than *)
(* a second from the wall clock and neither was set since.                 *)
SleepEndsInTime ==
  pm = "asleep" /\ sure =>
    \A t \in alarm_enabled \cap Wakeup :
      wakes_at # 0 /\ wakes_at - boot <= alarm_time[t] - Reported(t)

(* What SleepEndsInTime asks of the clocks: wall clock and RTC stay less   *)
(* than a second apart through SET_RTC, also where it fails and goes back, *)
(* and through the modem's times, once rtc_hctosys has followed them; what *)
(* sets them apart is settimeofday, and these two in the middle of each    *)
(* other.                                                                  *)
ClocksAgree == ~apart /\ setrtc.pc = "idle" => ClocksAreNear

(* The phone never sleeps while an alarm or a change of time is still to be*)
(* delivered, though the wake lock taken for it is over by itself.         *)
NothingPendingAsleep == pm = "asleep" => alarm_pending = {}

(* alarm_wake_lock is held only for what is pending or not acknowledged,   *)
(* and a closed device leaves no alarm, no timer and no wake lock behind.  *)
WakeLockIsAccountedFor ==
  /\ alarm_wake_lock # 0 => alarm_pending # {} \/ wait_pending
  /\ alarm_opened = "closed" =>
       /\ alarm_enabled = {} /\ ~wait_pending /\ alarm_wake_lock = 0
       /\ alarm_pending \subseteq {ANDROID_ALARM_TIME_CHANGE}
       /\ \A t \in Types : hrtimer[t] = {}

(* Elapsed realtime is the time since boot, whatever the wall clock was set*)
(* to, as long as each SET_RTC succeeds and nobody else sets the clock.    *)
ElapsedRealtimeIsKept ==
  steady /\ setrtc.pc \in {"idle", "rtc"} => wall - elapsed_rtc_delta = boot

(* An alarm goes off when the clock that GET_TIME reports for it has       *)
(* reached its time and not before.  The exception is SET_RTC between its  *)
(* new offset and its new wall clock, where the offset does not fit: there *)
(* goes off what was set there, and nothing that was set before.           *)
AlarmIsNotEarly ==
  [][\A t \in alarm_pending' \ alarm_pending :
       \/ t = ANDROID_ALARM_TIME_CHANGE
       \/ setrtc.pc # "set" /\ alarm_time[t] <= Reported(t)
       \/ setrtc.pc = "set" /\ t \in hasty]_vars

(* A wakeup alarm that is set goes off or is cleared, also when the phone  *)
(* sleeps in between, unless it sleeps by an RTC that could not be read.   *)
AlarmGoesOff ==
  [](pm = "asleep" /\ alarm_enabled \cap Wakeup # {} => sure)
    => \A t \in Wakeup : t \in alarm_enabled ~> t \notin alarm_enabled

(* What is pending reaches the client that waits for it, or is cleared. *)
AlarmIsDelivered == alarm_pending # {} ~> alarm_pending = {}
=============================================================================
