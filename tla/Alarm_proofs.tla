---------------------------- MODULE Alarm_proofs ----------------------------
(***************************************************************************)
(* The safety of the alarm device, for any alarm types, times, jumps of    *)
(* the wall clock and lengths of a second.                                 *)
(***************************************************************************)
EXTENDS Alarm, TLAPS

(* Next in groups: what is done to one alarm, by the client as a whole, to *)
(* the clocks, and for a suspend.                                          *)
TypeAction(t) ==
  \/ alarm_clear(t) \/ alarm_timer_triggered(t) \/ release_type(t)
  \/ \E x \in AlarmTimes[t] : alarm_set(t, x)

ClientAction ==
  \/ ioctl_fails \/ alarm_wait \/ wait_interrupted \/ wait_event \/ wait_return
  \/ alarm_release \/ release_end
  \/ \E r \in SetAndWait : alarm_set_and_wait(r[1], r[2])

ClockAction ==
  \/ \E new \in Nat : alarm_set_rtc(new) \/ settimeofday(new) \/ tod_update(new)
  \/ process_cb_request \/ rtc_hctosys
  \/ set_rtc_begin \/ set_wall \/ set_rtc_start \/ set_rtc_done
  \/ set_rtc_restore \/ tick

PowerAction ==
  \/ suspend \/ freeze_processes \/ freeze_fails
  \/ alarm_suspend \/ suspend_read \/ suspend_arm \/ suspend_check
  \/ msmrtc_suspend \/ power_suspend_late
  \/ \E t \in Int :
       \/ suspend_cancel("cancel_rtc", t, "cancel_elapsed")
          /\ t = ANDROID_ALARM_RTC_WAKEUP
       \/ suspend_cancel("cancel_elapsed", t, "read")
          /\ t = ANDROID_ALARM_ELAPSED_REALTIME_WAKEUP
  \/ sleep_ends \/ other_wakeup \/ device_suspend_fails
  \/ msmrtc_resume \/ alarm_resume

(* Every step is one of these, with arguments of the right type. *)
LEMMA Steps ==
  ASSUME TypeOK, [Next]_vars
  PROVE  \/ \E t \in Types : TypeAction(t)
         \/ ClientAction \/ ClockAction \/ PowerAction \/ UNCHANGED vars
<1>1. CASE \E t \in Types : \/ alarm_clear(t) \/ alarm_timer_triggered(t)
                             \/ \E x \in AlarmTimes[t] : alarm_set(t, x)
  BY <1>1 DEF TypeAction
<1>2. CASE \E r \in SetAndWait : alarm_set_and_wait(r[1], r[2])
  BY <1>2 DEF ClientAction
<1>3. CASE ReleaseStep
  BY <1>3 DEF ReleaseStep, TypeAction, ClientAction
<1>4. CASE SetsClock
  <2>1. PICK d \in Jumps : \/ wall + d >= 0 /\ alarm_set_rtc(wall + d)
                           \/ wall + d >= 0 /\ settimeofday(wall + d)
                           \/ rtc + d >= 0 /\ tod_update(rtc + d)
    BY <1>4 DEF SetsClock
  <2>2. wall + d \in Int /\ rtc + d \in Int
    BY AlarmAssumption DEF TypeOK
  <2> QED
    BY <2>1, <2>2 DEF ClockAction
<1>5. CASE SuspendStep
  BY <1>5 DEF SuspendStep, PowerAction, ANDROID_ALARM_RTC_WAKEUP,
              ANDROID_ALARM_ELAPSED_REALTIME_WAKEUP
<1> QED
  BY <1>1, <1>2, <1>3, <1>4, <1>5
     DEF Next, WaitStep, SetRtcStep, CallbackStep, FreezeStep, ClientAction, ClockAction,
         PowerAction

(* Enabling an alarm keeps the types of what it changes. *)
LEMMA SetTypes ==
  ASSUME TypeOK, NEW t \in Types, NEW x \in Nat, Set(t, x)
  PROVE  /\ alarm_enabled' \subseteq Types
         /\ alarm_time' \in [Types -> Nat]
         /\ hrtimer' \in [Types -> SUBSET Int]
         /\ hasty' \subseteq Types
<1>1. Expiry(t, x) \in Int
  BY DEF TypeOK, Expiry
<1>2. {Expiry(t, x)} \in SUBSET Int
  BY <1>1
<1> QED
  BY <1>2 DEF TypeOK, Set

(* Timers that are cancelled or started stay timers. *)
LEMMA TimerTypes ==
  ASSUME TypeOK, NEW S
  PROVE  /\ cancel(S) \in [Types -> SUBSET Int]
         /\ alarm_start_hrtimer(S) \in [Types -> SUBSET Int]
<1>1. cancel(S) \in [Types -> SUBSET Int]
  BY DEF TypeOK, cancel
<1>2. ASSUME NEW t \in Types
      PROVE  (IF t \in S \cap alarm_enabled
              THEN {Expiry(t, alarm_time[t])} ELSE hrtimer[t]) \in SUBSET Int
  <2>1. Expiry(t, alarm_time[t]) \in Int
    BY DEF TypeOK, Expiry
  <2> QED
    BY <2>1 DEF TypeOK
<1> QED
  BY <1>1, <1>2 DEF alarm_start_hrtimer

(* An action on one alarm keeps the types. *)
LEMMA TypeActionTypes ==
  ASSUME TypeOK, NEW t \in Types, TypeAction(t)
  PROVE  TypeOK'
<1> USE AlarmAssumption
        DEF TypeOK, clocks, files, alarms, events, locks, waiting, setting,
            setclocks, power, arming
<1>1. CASE alarm_clear(t)
  BY <1>1, TimerTypes DEF alarm_clear, Claims
<1>2. CASE alarm_timer_triggered(t)
  <2>1. /\ hrtimer' = cancel({t})
        /\ UNCHANGED <<clocks, files, alarm_time, wait_pending,
                       alarm_rtc_wake_lock, waiting, setting, power>>
    BY <1>2 DEF alarm_timer_triggered
  <2>2. /\ alarm_wake_lock' \in Nat /\ alarm_enabled' \subseteq Types
        /\ alarm_pending' \subseteq Types \cup {ANDROID_ALARM_TIME_CHANGE}
    BY <1>2 DEF alarm_timer_triggered
  <2> QED
    BY <2>1, <2>2, TimerTypes
<1>3. CASE release_type(t)
  BY <1>3, TimerTypes DEF release_type
<1>4. ASSUME NEW x \in AlarmTimes[t], alarm_set(t, x)
      PROVE  TypeOK'
  <2>1. x \in Nat
    OBVIOUS
  <2> QED
    BY <1>4, <2>1, SetTypes DEF alarm_set, Claims
<1> QED
  BY <1>1, <1>2, <1>3, <1>4 DEF TypeAction

(* So do those of the client, *)
LEMMA ClientActionTypes ==
  ASSUME TypeOK, ClientAction
  PROVE  TypeOK'
<1> USE DEF TypeOK, clocks, files, alarms, events, locks, waiting, setting,
            setclocks, power, arming
<1>1. CASE ioctl_fails \/ wait_interrupted \/ wait_event \/ alarm_release
  BY <1>1 DEF ioctl_fails, wait_interrupted, wait_event, alarm_release, Claims
<1>2. CASE alarm_wait
  <2>1. /\ alarm_opened' = "open" /\ waiter' = "blocked"
        /\ UNCHANGED <<clocks, closing, alarms, alarm_pending,
                       alarm_rtc_wake_lock, request, setting, power>>
    BY <1>2 DEF alarm_wait, Claims
  <2>2. alarm_wake_lock' \in {0, alarm_wake_lock}
    BY <1>2 DEF alarm_wait
  <2>3. wait_pending' \in BOOLEAN
    BY <1>2, Zenon DEF alarm_wait
  <2> QED
    BY <2>1, <2>2, <2>3
<1>3. CASE wait_return
  BY <1>3 DEF wait_return
<1>4. CASE release_end
  <2>1. /\ alarm_opened' = "closed"
        /\ UNCHANGED <<clocks, closing, alarms, alarm_rtc_wake_lock, waiting,
                       setting, power>>
    BY <1>4 DEF release_end
  <2>2. alarm_wake_lock' \in {0, alarm_wake_lock}
        /\ alarm_pending' \in {{}, alarm_pending}
    BY <1>4 DEF release_end
  <2>3. wait_pending' \in BOOLEAN
    BY <1>4, Zenon DEF release_end
  <2> QED
    BY <2>1, <2>2, <2>3
<1>5. ASSUME NEW r \in SetAndWait, alarm_set_and_wait(r[1], r[2])
      PROVE  TypeOK'
  <2>1. r[1] \in Types /\ r[2] \in Nat /\ <<r[1], r[2]>> \in SetAndWait
    BY AlarmAssumption
  <2> QED
    BY <1>5, <2>1, SetTypes DEF alarm_set_and_wait, Claims
<1> QED
  BY <1>1, <1>2, <1>3, <1>4, <1>5 DEF ClientAction

(* The thread in SET_RTC at another place is still one. *)
LEMMA SetRtcTypes ==
  ASSUME TypeOK
  PROVE  /\ \A p \in {"set", "start", "refused", "rtc", "restore", "reset",
                      "restart", "rertc"} : [setrtc EXCEPT !.pc = p] \in SetRtcThread
         /\ Idle \in SetRtcThread
         /\ \A new \in Int :
              [pc |-> "begin", new |-> new, old |-> wall] \in SetRtcThread
<1>1. setrtc \in SetRtcThread /\ wall \in Int
  BY DEF TypeOK
<1> QED
  BY <1>1 DEF SetRtcThread, Idle

(* Times that are cut to seconds are times. *)
LEMMA Seconds ==
  ASSUME NEW n \in Int
  PROVE  n \div Sec \in Int /\ (n \div Sec) * Sec \in Int
<1>1. Sec \in Int /\ Sec > 0
  BY AlarmAssumption
<1>2. n \div Sec \in Int
  BY <1>1
<1>3. \A m \in Int : m * Sec \in Int
  BY <1>1
<1> QED
  BY <1>2, <1>3

LEMMA HalfPastTypes ==
  ASSUME NEW s \in Int
  PROVE  HalfPast(s) \in Int
BY AlarmAssumption DEF HalfPast

(* and those of the clocks. *)
LEMMA ClockActionTypes ==
  ASSUME TypeOK, ClockAction
  PROVE  TypeOK'
<1> USE AlarmAssumption
        DEF TypeOK, clocks, files, alarms, events, locks, waiting, setting,
            setclocks, power, arming
<1>1. ASSUME NEW new \in Nat, alarm_set_rtc(new)
      PROVE  TypeOK'
  <2>1. setrtc' \in SetRtcThread
    <3>1. setrtc' = [pc |-> "begin", new |-> new, old |-> wall] /\ new \in Int
      BY <1>1 DEF alarm_set_rtc
    <3> QED
      BY <3>1, SetRtcTypes, Zenon
  <2>2. /\ sets' \in 0 .. MaxClockSets
        /\ UNCHANGED <<clocks, files, alarms, events, locks, waiting,
                       elapsed_rtc_delta, steady, apart, hasty, power>>
    BY <1>1 DEF alarm_set_rtc
  <2> QED
    BY <2>1, <2>2
<1>10. CASE set_rtc_begin
  <2>1. hrtimer' \in [Types -> SUBSET Int]
    BY <1>10, TimerTypes DEF set_rtc_begin
  <2>2. setrtc' \in SetRtcThread
    BY <1>10, SetRtcTypes DEF set_rtc_begin
  <2>3. elapsed_rtc_delta' \in Int
    BY <1>10 DEF set_rtc_begin, NewDelta, SetRtcThread
  <2>4. UNCHANGED <<clocks, files, alarm_enabled, alarm_time, events, locks,
                    waiting, sets, steady, apart, hasty, power>>
    BY <1>10 DEF set_rtc_begin
  <2> QED
    BY <2>1, <2>2, <2>3, <2>4
<1>2. ASSUME NEW new \in Nat, settimeofday(new) \/ tod_update(new)
      PROVE  TypeOK'
  <2>1. /\ wall' \in Int /\ rtc' \in Int /\ sets' \in 0 .. MaxClockSets
        /\ UNCHANGED <<boot, files, alarms, events, locks, waiting,
                       elapsed_rtc_delta, setrtc, hasty, rtcalarm_time, pm,
                       wakes_at, second>>
    BY <1>2 DEF settimeofday, tod_update
  <2>2. cb' \in CallbackThread
    BY <1>2 DEF settimeofday, tod_update, CallbackThread
  <2>3. steady' \in BOOLEAN /\ apart' \in BOOLEAN /\ sure' \in BOOLEAN
    BY <1>2, Zenon DEF settimeofday, tod_update
  <2> QED
    BY <2>1, <2>2, <2>3
<1>8. CASE process_cb_request
  <2>1. rtc \div Sec \in Int
    BY Seconds
  <2>2. cb' \in CallbackThread
    BY <1>8, <2>1 DEF process_cb_request, CallbackThread, NoCall
  <2> QED
    BY <1>8, <2>2 DEF process_cb_request
<1>9. CASE rtc_hctosys
  <2>1. HalfPast(cb.second) \in Int
    BY HalfPastTypes DEF CallbackThread
  <2>2. /\ wall' \in Int
        /\ UNCHANGED <<boot, rtc, files, alarms, events, locks, waiting,
                       elapsed_rtc_delta, setrtc, sets, hasty, rtcalarm_time, pm,
                       wakes_at, second>>
    BY <1>9, <2>1 DEF rtc_hctosys
  <2>3. cb' \in CallbackThread
    BY <1>9 DEF rtc_hctosys, NoCall, CallbackThread
  <2>4. steady' \in BOOLEAN /\ apart' \in BOOLEAN /\ sure' \in BOOLEAN
    BY <1>9, Zenon DEF rtc_hctosys
  <2> QED
    BY <2>2, <2>3, <2>4
<1>3. CASE set_wall
  <2>1. wall' \in Int
    BY <1>3 DEF set_wall, SetRtcThread
  <2>4. steady' \in BOOLEAN
    BY <1>3, Zenon DEF set_wall
  <2>2. setrtc' \in SetRtcThread
    BY <1>3, SetRtcTypes DEF set_wall
  <2>3. /\ hasty' = {}
        /\ UNCHANGED <<boot, rtc, cb, files, alarms, events, locks, waiting,
                       elapsed_rtc_delta, sets, apart, power>>
    BY <1>3 DEF set_wall
  <2> QED
    BY <2>1, <2>2, <2>3, <2>4
<1>4. CASE set_rtc_start
  <2>1. setrtc' \in SetRtcThread
    BY <1>4, SetRtcTypes DEF set_rtc_start
  <2>2. /\ hrtimer' = alarm_start_hrtimer(Types)
        /\ UNCHANGED <<clocks, files, alarm_enabled, alarm_time, events, locks,
                       waiting, elapsed_rtc_delta, sets, steady, apart, hasty,
                       power>>
    BY <1>4 DEF set_rtc_start
  <2> QED
    BY <2>1, <2>2, TimerTypes
<1>5. CASE set_rtc_done
  <2>1. rtc' \in Int
    <3>1. setrtc.new \in Int /\ setrtc.old \in Int
      BY DEF SetRtcThread
    <3>2. (setrtc.new \div Sec) * Sec \in Int
          /\ (setrtc.old \div Sec) * Sec \in Int
      BY <3>1, Seconds
    <3> QED
      BY <1>5, <3>2 DEF set_rtc_done
  <2>2. steady' \in BOOLEAN
    BY <1>5, Zenon DEF set_rtc_done
  <2>3. setrtc' \in SetRtcThread
    BY <1>5, SetRtcTypes DEF set_rtc_done
  <2>4. /\ alarm_pending' \subseteq Types \cup {ANDROID_ALARM_TIME_CHANGE}
        /\ UNCHANGED <<boot, wall, cb, files, alarms, wait_pending, locks, waiting,
                       elapsed_rtc_delta, sets, apart, hasty, power>>
    BY <1>5 DEF set_rtc_done
  <2> QED
    BY <2>1, <2>2, <2>3, <2>4
<1>6. CASE set_rtc_restore
  <2>1. hrtimer' \in [Types -> SUBSET Int]
    BY <1>6, TimerTypes DEF set_rtc_restore
  <2>2. setrtc' \in SetRtcThread
    BY <1>6, SetRtcTypes DEF set_rtc_restore
  <2>3. UNCHANGED <<clocks, files, alarm_enabled, alarm_time, events, locks,
                    waiting, elapsed_rtc_delta, sets, steady, apart, hasty, power>>
    BY <1>6 DEF set_rtc_restore
  <2> QED
    BY <2>1, <2>2, <2>3
<1>7. CASE tick
  BY <1>7 DEF tick, Shorter
<1> QED
  BY <1>1, <1>2, <1>3, <1>4, <1>5, <1>6, <1>7, <1>8, <1>9, <1>10
     DEF ClockAction

(* What the RTC's alarm is set to is a time. *)
LEMMA RtcSecondTypes ==
  ASSUME TypeOK, NEW now \in Int
  PROVE  rtc_alarm_time(now) \in Int
<1>1. first_alarm_time \in Int
  BY DEF TypeOK, first_alarm_time, elapsed_realtime_alarm_time, TimeOf
<1>2. now * Sec \in Int
  BY AlarmAssumption
<1>3. first_alarm_time - (wall - now * Sec) \in Int
  BY <1>1, <1>2 DEF TypeOK
<1> QED
  BY <1>3, Seconds DEF rtc_alarm_time

LEMMA RtcAlarmTypes ==
  ASSUME TypeOK
  PROVE  /\ rtc_alarm_time(second) \in Int
         /\ rtc_set_alarm(rtc_alarm_time(second)) \in Int
         /\ boot + (rtcalarm_time - rtc \div Sec) * Sec \in Int
<1>1. /\ rtc_alarm_time(second) \in Int
      /\ rtc_set_alarm(rtc_alarm_time(second)) \in Int
  BY RtcSecondTypes DEF rtc_set_alarm, TypeOK
<1>2. \A m \in Int : m * Sec \in Int
  BY AlarmAssumption
<1>3. rtcalarm_time - rtc \div Sec \in Int /\ boot \in Int
  BY Seconds, AlarmAssumption DEF TypeOK
<1>4. (rtcalarm_time - rtc \div Sec) * Sec \in Int
  BY <1>2, <1>3
<1> QED
  BY <1>1, <1>3, <1>4

(* The steps of a suspend keep the types. *)
LEMMA PowerActionTypes ==
  ASSUME TypeOK, PowerAction
  PROVE  TypeOK'
<1> USE AlarmAssumption
        DEF TypeOK, clocks, files, alarms, events, locks, waiting, setting,
            setclocks, power, arming
<1>1. CASE suspend \/ freeze_fails \/ freeze_processes \/ alarm_suspend
  <2>1. /\ pm' \in {"freezing", "on", "frozen", "cancel_rtc", "rtc"}
        /\ waiter' \in {waiter, "restart"}
        /\ UNCHANGED <<clocks, files, alarms, events, locks, request, setting,
                       rtcalarm_time, wakes_at, arming>>
    BY <1>1 DEF suspend, freeze_fails, freeze_processes, alarm_suspend
  <2> QED
    BY <2>1
<1>2. CASE suspend_arm
  BY <1>2, RtcAlarmTypes DEF suspend_arm
<1>8. CASE suspend_read
  <2>1. second' \in Int
    BY <1>8, Seconds DEF suspend_read, ReadSeconds
  <2>2. sure' \in BOOLEAN
    BY <1>8, Zenon DEF suspend_read
  <2>3. /\ pm' = "arm"
        /\ UNCHANGED <<clocks, files, alarms, events, locks, waiting, setting,
                       rtcalarm_time, wakes_at>>
    BY <1>8 DEF suspend_read
  <2> QED
    BY <2>1, <2>2, <2>3
<1>9. CASE suspend_check
  <2>1. hrtimer' \in [Types -> SUBSET Int]
    BY <1>9, TimerTypes DEF suspend_check
  <2>2. sure' \in BOOLEAN
    BY <1>9, Zenon DEF suspend_check
  <2>3. /\ rtcalarm_time' = rtcalarm_time /\ alarm_rtc_wake_lock' \in Nat
        /\ pm' \in {"on", "rtc"}
        /\ UNCHANGED <<clocks, files, alarm_enabled, alarm_time, events,
                       alarm_wake_lock, waiting, setting, wakes_at, second>>
    BY <1>9 DEF suspend_check, rtc_disable_alarm
  <2> QED
    BY <2>1, <2>2, <2>3
<1>3. CASE msmrtc_suspend
  <2>1. wakes_at' \in Int
    BY <1>3, RtcAlarmTypes DEF msmrtc_suspend
  <2>2. /\ rtcalarm_time' \in Int /\ alarm_rtc_wake_lock' \in Nat /\ pm' = "late"
        /\ UNCHANGED <<clocks, files, alarms, events, alarm_wake_lock, waiting,
                       setting, arming>>
    BY <1>3 DEF msmrtc_suspend, msmrtc_alarmtimer_expired
  <2> QED
    BY <2>1, <2>2
<1>4. CASE power_suspend_late \/ sleep_ends \/ other_wakeup \/ device_suspend_fails
  <2>1. /\ pm' \in {"on", "asleep", "waking", "resume"}
        /\ wakes_at' \in {0, wakes_at}
    BY <1>4 DEF power_suspend_late, sleep_ends, other_wakeup, Wakes,
                device_suspend_fails
  <2>2. UNCHANGED <<clocks, files, alarms, events, locks, waiting, setting,
                    rtcalarm_time, arming>>
    BY <1>4 DEF power_suspend_late, sleep_ends, other_wakeup, Wakes,
                device_suspend_fails
  <2> QED
    BY <2>1, <2>2
<1>5. ASSUME NEW from, NEW t, NEW to \in {"cancel_elapsed", "read"},
             suspend_cancel(from, t, to)
      PROVE  TypeOK'
  BY <1>5, TimerTypes DEF suspend_cancel
<1>6. CASE msmrtc_resume
  BY <1>6 DEF msmrtc_resume, msmrtc_alarmtimer_expired
<1>7. CASE alarm_resume
  BY <1>7, TimerTypes DEF alarm_resume, rtc_disable_alarm
<1> QED
  BY <1>1, <1>2, <1>3, <1>4, <1>5, <1>6, <1>7, <1>8, <1>9 DEF PowerAction

(* Every variable of the alarm device keeps its type. *)
THEOREM TypeTheorem == Spec => []TypeOK
<1>1. Init => TypeOK
  <2> SUFFICES ASSUME Init PROVE TypeOK
    OBVIOUS
  <2>1. /\ wait_pending \in BOOLEAN /\ steady \in BOOLEAN
        /\ apart \in BOOLEAN /\ sure \in BOOLEAN
    BY Zenon DEF Init
  <2>2. /\ boot = 0 /\ wall = InitWall /\ rtc = InitWall
        /\ alarm_opened = "closed" /\ closing = {}
        /\ alarm_enabled = {} /\ alarm_pending = {}
        /\ elapsed_rtc_delta = wall - boot
        /\ alarm_wake_lock = 0 /\ alarm_rtc_wake_lock = 0
        /\ waiter = "user" /\ request = <<>>
        /\ sets = 0 /\ rtcalarm_time = 0 /\ pm = "on" /\ wakes_at = 0
        /\ second = 0 /\ hasty = {}
    BY DEF Init
  <2>3. setrtc \in SetRtcThread /\ cb \in CallbackThread
    BY DEF Init, Idle, SetRtcThread, NoCall, CallbackThread
  <2>4. alarm_time \in [Types -> Nat] /\ hrtimer \in [Types -> SUBSET Int]
    BY DEF Init
  <2> QED
    BY <2>1, <2>2, <2>3, <2>4, AlarmAssumption DEF TypeOK
<1>2. TypeOK /\ [Next]_vars => TypeOK'
  <2> SUFFICES ASSUME TypeOK, [Next]_vars PROVE TypeOK'
    OBVIOUS
  <2>1. CASE UNCHANGED vars
    BY <2>1 DEF TypeOK, vars, clocks, files, alarms, events, locks, waiting,
                setting, setclocks, power, arming
  <2> QED
    BY <2>1, Steps, TypeActionTypes, ClientActionTypes, ClockActionTypes,
       PowerActionTypes
<1> QED
  BY <1>1, <1>2, PTL DEF Spec

-----------------------------------------------------------------------------
(* Elapsed realtime.  While SET_RTC has changed the offset and not yet the *)
(* wall clock, the new wall clock is what it is right for; its error paths *)
(* are not taken as long as the clocks are steady.                         *)
ElapsedInv ==
  steady =>
    /\ setrtc.pc \in {"idle", "begin", "set", "start", "rtc"}
    /\ setrtc.pc = "set" => setrtc.new - elapsed_rtc_delta = boot
    /\ setrtc.pc # "set" => wall - elapsed_rtc_delta = boot

LEMMA ElapsedStep ==
  ASSUME TypeOK, ElapsedInv, [Next]_vars
  PROVE  ElapsedInv'
<1> USE DEF ElapsedInv, clocks, files, alarms, events, locks, waiting, setting,
            setclocks, power, arming
<1>1. CASE \E t \in Types : TypeAction(t)
  <2>1. UNCHANGED <<clocks, elapsed_rtc_delta, setrtc, steady>>
    BY <1>1 DEF TypeAction, alarm_clear, alarm_timer_triggered, release_type,
                alarm_set
  <2> QED
    BY <2>1
<1>2. CASE ClientAction
  <2>1. UNCHANGED <<clocks, elapsed_rtc_delta, setrtc, steady>>
    BY <1>2 DEF ClientAction, ioctl_fails, alarm_wait, wait_interrupted,
                wait_event, wait_return, alarm_release, release_end,
                alarm_set_and_wait
  <2> QED
    BY <2>1
<1>3. CASE PowerAction
  <2>1. UNCHANGED <<clocks, elapsed_rtc_delta, setrtc, steady>>
    BY <1>3 DEF PowerAction, suspend, freeze_processes, freeze_fails,
                alarm_suspend, suspend_read, suspend_arm, suspend_check,
                msmrtc_suspend, power_suspend_late, suspend_cancel, sleep_ends,
                other_wakeup, Wakes, device_suspend_fails, msmrtc_resume,
                alarm_resume
  <2> QED
    BY <2>1
<1>4. CASE ClockAction
  <2>1. ASSUME NEW new \in Nat, alarm_set_rtc(new) PROVE ElapsedInv'
    BY <2>1 DEF alarm_set_rtc
  <2>9. CASE set_rtc_begin
    <3>1. /\ setrtc.new \in Int /\ wall \in Int /\ boot \in Int
          /\ elapsed_rtc_delta \in Int /\ setrtc \in SetRtcThread
      BY AlarmAssumption DEF TypeOK, SetRtcThread
    <3>2. /\ setrtc.pc = "begin" /\ setrtc' = [setrtc EXCEPT !.pc = "set"]
          /\ elapsed_rtc_delta' = elapsed_rtc_delta - (wall - setrtc.new)
          /\ UNCHANGED <<boot, steady>>
      BY <2>9 DEF set_rtc_begin, NewDelta
    <3>3. setrtc'.pc = "set" /\ setrtc'.new = setrtc.new
      BY <3>1, <3>2 DEF SetRtcThread
    <3> QED
      BY <3>1, <3>2, <3>3
  <2>2. ASSUME NEW new \in Nat, settimeofday(new) \/ rtc_hctosys
        PROVE  ElapsedInv'
    <3>1. steady' = FALSE
      BY <2>2, Zenon DEF settimeofday, rtc_hctosys
    <3> QED
      BY <3>1, Zenon
  <2>8. ASSUME NEW new \in Nat, tod_update(new) \/ process_cb_request
        PROVE  ElapsedInv'
    <3>1. UNCHANGED <<boot, wall, elapsed_rtc_delta, setrtc, steady>>
      BY <2>8 DEF tod_update, process_cb_request
    <3> QED
      BY <3>1
  <2>3. CASE set_wall
    BY <2>3 DEF set_wall, TypeOK, SetRtcThread
  <2>4. CASE set_rtc_start
    BY <2>4 DEF set_rtc_start, TypeOK, SetRtcThread, Idle
  <2>5. CASE set_rtc_done
    <3>1. /\ UNCHANGED <<boot, wall, elapsed_rtc_delta>>
          /\ \/ setrtc.pc = "rtc" /\ setrtc' = Idle /\ UNCHANGED steady
             \/ steady' = FALSE
             \/ setrtc.pc = "rertc" /\ UNCHANGED steady
      BY <2>5, Zenon DEF set_rtc_done
    <3>2. CASE steady' = FALSE
      BY <3>2, Zenon
    <3>3. CASE setrtc.pc = "rtc" /\ setrtc' = Idle /\ UNCHANGED steady
      BY <3>1, <3>3 DEF Idle
    <3>4. CASE setrtc.pc = "rertc" /\ UNCHANGED steady
      BY <3>4
    <3> QED
      BY <3>1, <3>2, <3>3, <3>4
  <2>6. CASE set_rtc_restore
    BY <2>6 DEF set_rtc_restore, TypeOK, SetRtcThread
  <2>7. CASE tick
    BY <2>7, AlarmAssumption DEF tick, TypeOK
  <2> QED
    BY <1>4, <2>1, <2>2, <2>3, <2>4, <2>5, <2>6, <2>7, <2>8, <2>9 DEF ClockAction
<1>5. CASE UNCHANGED vars
  BY <1>5 DEF vars
<1> QED
  BY <1>1, <1>2, <1>3, <1>4, <1>5, Steps

(* Elapsed realtime stays the time since boot through every SET_RTC that   *)
(* succeeds, for any times and jumps of the wall clock.                    *)
THEOREM ElapsedTheorem == Spec => []ElapsedRealtimeIsKept
<1>1. Init => ElapsedInv
  BY AlarmAssumption DEF Init, ElapsedInv, Idle
<1>2. TypeOK /\ ElapsedInv /\ [Next]_vars => ElapsedInv'
  BY ElapsedStep
<1>3. ElapsedInv => ElapsedRealtimeIsKept
  BY DEF ElapsedInv, ElapsedRealtimeIsKept
<1> QED
  BY <1>1, <1>2, <1>3, TypeTheorem, PTL DEF Spec

-----------------------------------------------------------------------------
(* Sleep.  From alarm_suspend on what becomes pending has just taken the   *)
(* wake lock, and time does not pass until power_suspend_late looks.       *)
SleepInv ==
  /\ ~Running => setrtc.pc = "idle" /\ alarm_opened # "closing"
  /\ pm \in {"cancel_rtc", "cancel_elapsed", "read", "arm", "check", "rtc",
             "late"} =>
       (alarm_pending # {} => alarm_wake_lock # 0)
  /\ pm = "asleep" => alarm_pending = {}

LEMMA SleepStep ==
  ASSUME TypeOK, SleepInv, [Next]_vars
  PROVE  SleepInv'
<1> USE DEF SleepInv, Running, clocks, files, alarms, events, locks, waiting,
            setting, setclocks, power, arming
<1>1. ASSUME NEW t \in Types, TypeAction(t) PROVE SleepInv'
  <2>1. CASE alarm_clear(t)
    BY <2>1 DEF alarm_clear, Claims
  <2>2. CASE alarm_timer_triggered(t)
    BY <2>2, AlarmAssumption DEF alarm_timer_triggered
  <2>3. CASE release_type(t)
    BY <2>3 DEF release_type
  <2>4. ASSUME NEW x \in AlarmTimes[t], alarm_set(t, x) PROVE SleepInv'
    BY <2>4 DEF alarm_set, Claims
  <2> QED
    BY <1>1, <2>1, <2>2, <2>3, <2>4 DEF TypeAction
<1>2. CASE ClientAction
  BY <1>2 DEF ClientAction, Claims, ioctl_fails, alarm_wait, wait_interrupted,
              wait_event, wait_return, alarm_release, release_end,
              alarm_set_and_wait
<1>3. CASE PowerAction
  <2>1. CASE suspend \/ freeze_processes \/ freeze_fails
    BY <2>1 DEF suspend, freeze_processes, freeze_fails
  <2>2. CASE alarm_suspend
    <3>1. CASE StopsSuspend
      BY <2>2, <3>1 DEF alarm_suspend
    <3>2. CASE ~StopsSuspend
      <4>1. pm' \in {"cancel_rtc", "rtc"}
        BY <2>2, <3>2 DEF alarm_suspend
      <4> QED
        BY <2>2, <3>2, <4>1 DEF alarm_suspend, StopsSuspend
    <3> QED
      BY <3>1, <3>2
  <2>3. ASSUME NEW t,
               \/ suspend_cancel("cancel_rtc", t, "cancel_elapsed")
               \/ suspend_cancel("cancel_elapsed", t, "read")
        PROVE  SleepInv'
    BY <2>3 DEF suspend_cancel
  <2>4. CASE suspend_read \/ suspend_arm \/ suspend_check
    BY <2>4 DEF suspend_read, suspend_arm, suspend_check
  <2>5. CASE msmrtc_suspend
    BY <2>5 DEF msmrtc_suspend
  <2>6. CASE power_suspend_late
    BY <2>6 DEF power_suspend_late
  <2>7. CASE sleep_ends \/ other_wakeup \/ device_suspend_fails
    BY <2>7 DEF sleep_ends, other_wakeup, Wakes, device_suspend_fails
  <2>8. CASE msmrtc_resume \/ alarm_resume
    BY <2>8 DEF msmrtc_resume, alarm_resume
  <2> QED
    BY <1>3, <2>1, <2>2, <2>3, <2>4, <2>5, <2>6, <2>7, <2>8 DEF PowerAction
<1>4. CASE ClockAction
  BY <1>4 DEF ClockAction, TypeOK, alarm_set_rtc, settimeofday, tod_update,
              process_cb_request, rtc_hctosys, set_rtc_begin, set_wall,
              set_rtc_start, set_rtc_done, set_rtc_restore, tick, SetRtcThread
<1>5. CASE UNCHANGED vars
  BY <1>5 DEF vars
<1> QED
  BY <1>1, <1>2, <1>3, <1>4, <1>5, Steps

(* The phone never sleeps with an alarm still to be delivered, for any     *)
(* alarms, times and time-outs of the wake lock.                           *)
THEOREM SleepTheorem == Spec => []NothingPendingAsleep
<1>1. Init => SleepInv
  BY DEF Init, SleepInv, Running, Idle
<1>2. TypeOK /\ SleepInv /\ [Next]_vars => SleepInv'
  BY SleepStep
<1>3. SleepInv => NothingPendingAsleep
  BY DEF SleepInv, NothingPendingAsleep
<1> QED
  BY <1>1, <1>2, <1>3, TypeTheorem, PTL DEF Spec

-----------------------------------------------------------------------------
(* Timers.  One that runs is that of an enabled alarm and for its time;    *)
(* an enabled alarm lacks one only inside SET_RTC and, if it wakes the     *)
(* phone, between alarm_suspend and alarm_resume.                          *)
Window == setrtc.pc \in {"set", "start", "refused", "reset", "restart"}

TimerInv ==
  \A t \in Types :
    /\ t \notin alarm_enabled => hrtimer[t] = {}
    /\ hrtimer[t] \subseteq {Expiry(t, alarm_time[t])}
    /\ t \in alarm_enabled =>
         \/ hrtimer[t] # {}
         \/ Window
         \/ t \in Wakeup /\ pm \notin {"on", "freezing", "frozen"}

(* A step that leaves alarms, offset, SET_RTC and the suspend alone. *)
LEMMA TimerUnchanged ==
  ASSUME TimerInv,
         UNCHANGED <<alarms, elapsed_rtc_delta, setrtc, pm>>
  PROVE  TimerInv'
BY DEF TimerInv, Window, Expiry, alarms

(* Enabling an alarm starts its timer. *)
LEMMA TimerSet ==
  ASSUME TypeOK, TimerInv, NEW t \in Types, NEW x, Set(t, x),
         UNCHANGED <<elapsed_rtc_delta, setrtc, pm>>
  PROVE  TimerInv'
<1> SUFFICES ASSUME NEW u \in Types
             PROVE  /\ u \notin alarm_enabled' => hrtimer'[u] = {}
                    /\ hrtimer'[u] \subseteq {Expiry(u, alarm_time[u])'}
                    /\ u \in alarm_enabled' =>
                         \/ hrtimer'[u] # {}
                         \/ Window'
                         \/ u \in Wakeup /\ pm' \notin {"on", "freezing", "frozen"}
  BY DEF TimerInv
<1> USE DEF Set, TypeOK, Expiry, Window, TimerInv
<1>1. CASE u = t
  BY <1>1
<1>2. CASE u # t
  BY <1>2
<1> QED
  BY <1>1, <1>2

(* An alarm that is disabled has its timer cancelled. *)
LEMMA TimerDisabled ==
  ASSUME TypeOK, TimerInv, NEW t \in Types, hrtimer' = cancel({t}),
         alarm_enabled' = alarm_enabled \ {t},
         UNCHANGED <<alarm_time, elapsed_rtc_delta, setrtc, pm>>
  PROVE  TimerInv'
BY DEF TypeOK, TimerInv, Window, Expiry, cancel

(* All timers are cancelled where SET_RTC begins to change the clock. *)
LEMMA TimerCancelled ==
  ASSUME TypeOK, TimerInv, hrtimer' = cancel(Types),
         UNCHANGED alarm_enabled, Window'
  PROVE  TimerInv'
BY DEF TypeOK, TimerInv, cancel

(* All timers of S, which are all that may be off, are started. *)
LEMMA TimerStarted ==
  ASSUME TypeOK, TimerInv, NEW S, hrtimer' = alarm_start_hrtimer(S),
         UNCHANGED <<alarm_enabled, alarm_time, elapsed_rtc_delta>>,
         S = Types \/ (S = Wakeup /\ ~Window)
  PROVE  TimerInv'
<1> SUFFICES ASSUME NEW u \in Types
             PROVE  /\ u \notin alarm_enabled => hrtimer'[u] = {}
                    /\ hrtimer'[u] \subseteq {Expiry(u, alarm_time[u])}
                    /\ u \in alarm_enabled => hrtimer'[u] # {}
  BY DEF TimerInv, Expiry
<1>1. CASE u \in S \cap alarm_enabled
  BY <1>1 DEF alarm_start_hrtimer
<1>2. CASE u \notin S \cap alarm_enabled
  BY <1>2 DEF alarm_start_hrtimer, TimerInv
<1> QED
  BY <1>1, <1>2

LEMMA TimerStep ==
  ASSUME TypeOK, SleepInv, TimerInv, [Next]_vars
  PROVE  TimerInv'
<1> USE DEF clocks, files, alarms, events, locks, waiting, setting, setclocks,
            power, arming
<1>1. ASSUME NEW t \in Types, TypeAction(t) PROVE TimerInv'
  <2>1. CASE alarm_clear(t)
    BY <2>1, TimerDisabled DEF alarm_clear
  <2>2. CASE alarm_timer_triggered(t)
    <3>1. t \in alarm_enabled
      BY <2>2 DEF alarm_timer_triggered, Due, TimerInv
    <3> QED
      BY <2>2, <3>1, TimerDisabled DEF alarm_timer_triggered
  <2>3. CASE release_type(t)
    BY <2>3, TimerDisabled DEF release_type
  <2>4. ASSUME NEW x \in AlarmTimes[t], alarm_set(t, x) PROVE TimerInv'
    BY <2>4, TimerSet DEF alarm_set
  <2> QED
    BY <1>1, <2>1, <2>2, <2>3, <2>4 DEF TypeAction
<1>2. CASE ClientAction
  <2>1. ASSUME NEW r \in SetAndWait, alarm_set_and_wait(r[1], r[2])
        PROVE  TimerInv'
    <3>1. r[1] \in Types
      BY AlarmAssumption
    <3> QED
      BY <2>1, <3>1, TimerSet DEF alarm_set_and_wait
  <2>2. CASE \/ ioctl_fails \/ alarm_wait \/ wait_interrupted \/ wait_event
             \/ wait_return \/ alarm_release \/ release_end
    BY <2>2, TimerUnchanged
       DEF ioctl_fails, alarm_wait, wait_interrupted, wait_event, wait_return,
           alarm_release, release_end
  <2> QED
    BY <1>2, <2>1, <2>2 DEF ClientAction
<1>3. CASE PowerAction
  <2>1. CASE suspend \/ freeze_processes \/ freeze_fails
    BY <2>1 DEF suspend, freeze_processes, freeze_fails, TimerInv, Window, Expiry
  <2>2. CASE alarm_suspend \/ suspend_read \/ suspend_arm \/ msmrtc_suspend
             \/ power_suspend_late \/ sleep_ends \/ other_wakeup \/ msmrtc_resume
    <3>1. /\ UNCHANGED <<alarms, elapsed_rtc_delta, setrtc>>
          /\ pm = "frozen" \/ pm' \notin {"on", "freezing", "frozen"}
      BY <2>2 DEF alarm_suspend, suspend_read, suspend_arm, msmrtc_suspend,
                  power_suspend_late, sleep_ends, other_wakeup, Wakes,
                  msmrtc_resume
    <3> QED
      BY <3>1 DEF TimerInv, Window, Expiry
  <2>3. CASE device_suspend_fails
    BY <2>3 DEF device_suspend_fails, TimerInv, Window, Expiry
  <2>4. ASSUME NEW t \in Int, NEW from, NEW to \in {"cancel_elapsed", "read"},
               suspend_cancel(from, t, to),
               t \in {ANDROID_ALARM_RTC_WAKEUP,
                      ANDROID_ALARM_ELAPSED_REALTIME_WAKEUP}
        PROVE  TimerInv'
    BY <2>4 DEF suspend_cancel, TimerInv, Window, Expiry, cancel, Wakeup, TypeOK
  <2>5. CASE suspend_check
    <3>1. CASE pm' = "rtc"
      <4>1. UNCHANGED <<alarms, elapsed_rtc_delta, setrtc>>
        BY <2>5, <3>1 DEF suspend_check
      <4> QED
        BY <2>5, <3>1, <4>1 DEF suspend_check, TimerInv, Window, Expiry
    <3>2. CASE pm' # "rtc"
      <4>1. ~Window
        BY <2>5 DEF suspend_check, SleepInv, Running, Window
      <4>2. /\ hrtimer' = alarm_start_hrtimer(Wakeup)
            /\ UNCHANGED <<alarm_enabled, alarm_time, elapsed_rtc_delta>>
        BY <2>5, <3>2 DEF suspend_check
      <4> QED
        BY <4>1, <4>2, TimerStarted
    <3> QED
      BY <3>1, <3>2
  <2>6. CASE alarm_resume
    <3>1. ~Window
      BY <2>6 DEF alarm_resume, SleepInv, Running, Window
    <3>2. CASE alarm_enabled \cap Wakeup # {}
      BY <2>6, <3>1, <3>2, TimerStarted DEF alarm_resume
    <3>3. CASE alarm_enabled \cap Wakeup = {}
      BY <2>6, <3>1, <3>3 DEF alarm_resume, TimerInv, Window, Expiry
    <3> QED
      BY <3>2, <3>3
  <2> QED
    BY <1>3, <2>1, <2>2, <2>3, <2>4, <2>5, <2>6 DEF PowerAction
<1>4. CASE ClockAction
  <2>1. ASSUME NEW new \in Nat, alarm_set_rtc(new) PROVE TimerInv'
    BY <2>1 DEF alarm_set_rtc, TimerInv, Window, Expiry
  <2>8. CASE set_rtc_begin
    BY <2>8, TimerCancelled DEF set_rtc_begin, Window, TypeOK, SetRtcThread
  <2>2. ASSUME NEW new \in Nat, \/ settimeofday(new) \/ tod_update(new)
                                 \/ process_cb_request \/ rtc_hctosys
        PROVE  TimerInv'
    BY <2>2, TimerUnchanged
       DEF settimeofday, tod_update, process_cb_request, rtc_hctosys
  <2>3. CASE set_wall
    <3>1. UNCHANGED <<alarms, elapsed_rtc_delta, pm>> /\ Window'
      BY <2>3 DEF set_wall, Window, TypeOK, SetRtcThread
    <3> QED
      BY <3>1 DEF TimerInv, Expiry
  <2>4. CASE set_rtc_start
    BY <2>4, TimerStarted DEF set_rtc_start
  <2>5. CASE set_rtc_done
    <3>1. UNCHANGED <<alarms, elapsed_rtc_delta, pm>> /\ ~Window
      BY <2>5 DEF set_rtc_done, Window
    <3> QED
      BY <3>1 DEF TimerInv, Expiry
  <2>6. CASE set_rtc_restore
    BY <2>6, TimerCancelled DEF set_rtc_restore, Window, TypeOK, SetRtcThread
  <2>7. CASE tick
    BY <2>7, TimerUnchanged DEF tick
  <2> QED
    BY <1>4, <2>1, <2>2, <2>3, <2>4, <2>5, <2>6, <2>7, <2>8 DEF ClockAction
<1>5. CASE UNCHANGED vars
  BY <1>5, TimerUnchanged DEF vars
<1> QED
  BY <1>1, <1>2, <1>3, <1>4, <1>5, Steps

LEMMA TimerAlways == Spec => [](TypeOK /\ SleepInv /\ TimerInv)
<1>1. Init => SleepInv /\ TimerInv
  BY DEF Init, SleepInv, Running, Idle, TimerInv
<1>2. TypeOK /\ SleepInv /\ TimerInv /\ [Next]_vars => SleepInv' /\ TimerInv'
  BY SleepStep, TimerStep
<1> QED
  BY <1>1, <1>2, TypeTheorem, PTL DEF Spec

(* Outside SET_RTC and a suspend every enabled alarm has its timer, for    *)
(* the right time, for any alarms, times and jumps of the wall clock.      *)
THEOREM ArmedTheorem == Spec => []EnabledAlarmsAreArmed
<1>1. ASSUME TypeOK, TimerInv, NEW t \in alarm_enabled, ~Window, Running
      PROVE  \E x \in hrtimer[t] : x - wall = alarm_time[t] - Reported(t)
  <2>1. t \in Types
    BY <1>1 DEF TypeOK
  <2>2. hrtimer[t] # {} /\ hrtimer[t] \subseteq {Expiry(t, alarm_time[t])}
    BY <1>1, <2>1 DEF TimerInv, Running
  <2>3. Expiry(t, alarm_time[t]) \in hrtimer[t]
    BY <2>2
  <2>4. Expiry(t, alarm_time[t]) - wall = alarm_time[t] - Reported(t)
    BY <1>1, <2>1 DEF TypeOK, Expiry, Reported
  <2> QED
    BY <2>3, <2>4
<1>2. TypeOK /\ TimerInv => EnabledAlarmsAreArmed
  BY <1>1 DEF EnabledAlarmsAreArmed, Window
<1> QED
  BY <1>2, TimerAlways, PTL

(* Between the new offset of SET_RTC and its new wall clock no timer runs  *)
(* but of alarms that were set there.                                      *)
HastyInv ==
  setrtc.pc = "set" => \A t \in Types : hrtimer[t] # {} => t \in hasty

(* Timers are only cancelled, *)
LEMMA HastyCancelled ==
  ASSUME HastyInv, UNCHANGED <<setrtc, hasty>>,
         NEW S, hrtimer' = hrtimer \/ hrtimer' = cancel(S)
  PROVE  HastyInv'
BY DEF HastyInv, cancel

(* or that of an alarm that is set is started. *)
LEMMA HastySet ==
  ASSUME TypeOK, HastyInv, NEW t \in Types, NEW x, Set(t, x), UNCHANGED setrtc
  PROVE  HastyInv'
<1> SUFFICES ASSUME setrtc.pc = "set", NEW u \in Types, hrtimer'[u] # {}
             PROVE  u \in hasty'
  BY DEF HastyInv
<1>1. CASE u = t
  BY <1>1 DEF Set
<1>2. CASE u # t
  BY <1>2 DEF Set, HastyInv, TypeOK
<1> QED
  BY <1>1, <1>2

LEMMA HastyStep ==
  ASSUME TypeOK, SleepInv, HastyInv, [Next]_vars
  PROVE  HastyInv'
<1> USE DEF clocks, files, alarms, events, locks, waiting, setting, setclocks,
            power, arming
<1>1. ASSUME NEW t \in Types, TypeAction(t) PROVE HastyInv'
  <2>1. CASE alarm_clear(t) \/ alarm_timer_triggered(t) \/ release_type(t)
    BY <2>1, HastyCancelled DEF alarm_clear, alarm_timer_triggered, release_type
  <2>2. ASSUME NEW x \in AlarmTimes[t], alarm_set(t, x) PROVE HastyInv'
    BY <2>2, HastySet DEF alarm_set
  <2> QED
    BY <1>1, <2>1, <2>2 DEF TypeAction
<1>2. CASE ClientAction
  <2>1. ASSUME NEW r \in SetAndWait, alarm_set_and_wait(r[1], r[2])
        PROVE  HastyInv'
    <3>1. r[1] \in Types
      BY AlarmAssumption
    <3> QED
      BY <2>1, <3>1, HastySet DEF alarm_set_and_wait
  <2>2. CASE \/ ioctl_fails \/ alarm_wait \/ wait_interrupted \/ wait_event
             \/ wait_return \/ alarm_release \/ release_end
    BY <2>2, HastyCancelled
       DEF ioctl_fails, alarm_wait, wait_interrupted, wait_event, wait_return,
           alarm_release, release_end
  <2> QED
    BY <1>2, <2>1, <2>2 DEF ClientAction
<1>3. CASE PowerAction
  <2>1. CASE suspend_check \/ alarm_resume
    <3>1. setrtc' = setrtc /\ setrtc.pc = "idle"
      BY <2>1 DEF suspend_check, alarm_resume, SleepInv, Running
    <3> QED
      BY <3>1 DEF HastyInv
  <2>2. CASE ~suspend_check /\ ~alarm_resume
    BY <1>3, <2>2, HastyCancelled
       DEF PowerAction, suspend, freeze_processes, freeze_fails, alarm_suspend,
           suspend_read, suspend_arm, msmrtc_suspend, power_suspend_late,
           suspend_cancel, sleep_ends, other_wakeup, Wakes, device_suspend_fails,
           msmrtc_resume
  <2> QED
    BY <2>1, <2>2
<1>4. CASE ClockAction
  <2>1. ASSUME NEW new \in Nat, alarm_set_rtc(new) PROVE HastyInv'
    BY <2>1 DEF alarm_set_rtc, HastyInv
  <2>4. CASE set_rtc_begin
    BY <2>4 DEF set_rtc_begin, HastyInv, cancel
  <2>2. ASSUME NEW new \in Nat, \/ settimeofday(new) \/ tod_update(new)
                                 \/ process_cb_request \/ rtc_hctosys \/ tick
        PROVE  HastyInv'
    BY <2>2, HastyCancelled
       DEF settimeofday, tod_update, process_cb_request, rtc_hctosys, tick
  <2>3. CASE set_wall \/ set_rtc_start \/ set_rtc_done \/ set_rtc_restore
    <3>1. setrtc'.pc # "set"
      BY <2>3 DEF set_wall, set_rtc_start, set_rtc_done, set_rtc_restore, TypeOK,
                  SetRtcThread, Idle
    <3> QED
      BY <3>1 DEF HastyInv
  <2> QED
    BY <1>4, <2>1, <2>2, <2>3, <2>4 DEF ClockAction
<1>5. CASE UNCHANGED vars
  BY <1>5, HastyCancelled DEF vars
<1> QED
  BY <1>1, <1>2, <1>3, <1>4, <1>5, Steps

LEMMA HastyAlways == Spec => []HastyInv
<1>1. Init => HastyInv
  BY DEF Init, HastyInv, Idle
<1>2. TypeOK /\ SleepInv /\ HastyInv /\ [Next]_vars => HastyInv'
  BY HastyStep
<1> QED
  BY <1>1, <1>2, TimerAlways, PTL DEF Spec

(* No alarm goes off before the clock that GET_TIME reports has reached its*)
(* time, but for one that was set while SET_RTC had its new offset and not *)
(* yet its new wall clock: whatever times are set, and whoever else sets   *)
(* the clocks.                                                             *)
THEOREM NotEarlyTheorem == Spec => AlarmIsNotEarly
<1> DEFINE InTime ==
      \A t \in alarm_pending' \ alarm_pending :
        \/ t = ANDROID_ALARM_TIME_CHANGE
        \/ setrtc.pc # "set" /\ alarm_time[t] <= Reported(t)
        \/ setrtc.pc = "set" /\ t \in hasty
<1>1. ASSUME TypeOK, TimerInv, HastyInv, [Next]_vars,
             NEW t \in Types, t \in alarm_pending', t \notin alarm_pending
      PROVE  alarm_time[t] <= Reported(t) /\ (setrtc.pc = "set" => t \in hasty)
  <2> USE DEF clocks, files, alarms, events, locks, waiting, setting, setclocks,
              power, arming
  <2>1. t # ANDROID_ALARM_TIME_CHANGE
    BY AlarmAssumption DEF ANDROID_ALARM_TIME_CHANGE
  <2>2. PICK u \in Types : TypeAction(u)
    <3>1. ~ClientAction
      BY <1>1 DEF ClientAction, ioctl_fails, alarm_wait, wait_interrupted,
                  wait_event, wait_return, alarm_release, release_end,
                  alarm_set_and_wait
    <3>2. ~ClockAction
      BY <1>1, <2>1 DEF ClockAction, alarm_set_rtc, settimeofday, tod_update,
                        process_cb_request, rtc_hctosys, set_rtc_begin, set_wall,
                        set_rtc_start, set_rtc_done, set_rtc_restore, tick
    <3>3. ~PowerAction
      BY <1>1 DEF PowerAction, suspend, freeze_processes, freeze_fails,
                  alarm_suspend, suspend_read, suspend_arm, suspend_check,
                  msmrtc_suspend, power_suspend_late, suspend_cancel, sleep_ends,
                  other_wakeup, Wakes, device_suspend_fails, msmrtc_resume,
                  alarm_resume
    <3>4. ~UNCHANGED vars
      BY <1>1 DEF vars
    <3> QED
      BY <1>1, <3>1, <3>2, <3>3, <3>4, Steps
  <2>3. Due(t)
    BY <1>1, <2>2 DEF TypeAction, alarm_clear, alarm_timer_triggered,
                      release_type, alarm_set
  <2>4. Expiry(t, alarm_time[t]) <= wall
    BY <1>1, <2>3 DEF Due, TimerInv
  <2>5. alarm_time[t] <= Reported(t)
    BY <1>1, <2>4 DEF Expiry, Reported, TypeOK
  <2>6. setrtc.pc = "set" => t \in hasty
    BY <1>1, <2>3 DEF Due, HastyInv
  <2> QED
    BY <2>5, <2>6
<1>2. TypeOK /\ TypeOK' /\ TimerInv /\ HastyInv /\ [Next]_vars => [InTime]_vars
  <2> SUFFICES ASSUME TypeOK, TypeOK', TimerInv, HastyInv, [Next]_vars,
                      NEW t \in alarm_pending', t \notin alarm_pending,
                      t # ANDROID_ALARM_TIME_CHANGE
               PROVE  \/ setrtc.pc # "set" /\ alarm_time[t] <= Reported(t)
                      \/ setrtc.pc = "set" /\ t \in hasty
    OBVIOUS
  <2>1. t \in Types
    BY DEF TypeOK
  <2> QED
    BY <1>1, <2>1
<1> QED
  BY <1>2, TimerAlways, HastyAlways, PTL DEF AlarmIsNotEarly, Spec

-----------------------------------------------------------------------------
(* The file.  While alarm_release goes through the types, with the lock    *)
(* dropped in between, alarms are left only of those still to come and     *)
(* nobody waits; what it then finds pending accounts for the wake lock.    *)
FileInv ==
  /\ closing # {} => alarm_opened = "closing"
  /\ alarm_opened # "open" => waiter = "user" /\ alarm_enabled \subseteq closing
  /\ alarm_wake_lock # 0 => alarm_pending # {} \/ wait_pending
  /\ alarm_opened = "closed" =>
       /\ ~wait_pending /\ alarm_wake_lock = 0
       /\ alarm_pending \subseteq {ANDROID_ALARM_TIME_CHANGE}

LEMMA FileUnchanged ==
  ASSUME FileInv,
         UNCHANGED <<files, alarm_enabled, events, alarm_wake_lock, waiter>>
  PROVE  FileInv'
BY DEF FileInv, files, events

LEMMA FileStep ==
  ASSUME TypeOK, TimerInv, FileInv, [Next]_vars
  PROVE  FileInv'
<1> USE DEF FileInv, clocks, files, alarms, events, locks, waiting, setting,
            setclocks, power, arming
<1>1. ASSUME NEW t \in Types, TypeAction(t) PROVE FileInv'
  <2>1. CASE alarm_clear(t)
    BY <2>1 DEF alarm_clear, Claims, ClearUnlocks, TypeOK
  <2>2. CASE alarm_timer_triggered(t)
    <3>1. t \in alarm_enabled
      BY <2>2 DEF alarm_timer_triggered, Due, TimerInv
    <3>2. alarm_opened # "closed"
      BY <3>1 DEF TypeOK
    <3> QED
      BY <2>2, <3>1, <3>2 DEF alarm_timer_triggered, TypeOK
  <2>3. CASE release_type(t)
    BY <2>3 DEF release_type
  <2>4. ASSUME NEW x \in AlarmTimes[t], alarm_set(t, x) PROVE FileInv'
    BY <2>4 DEF alarm_set, Claims, TypeOK
  <2> QED
    BY <1>1, <2>1, <2>2, <2>3, <2>4 DEF TypeAction
<1>2. CASE ClientAction
  <2>1. CASE ioctl_fails \/ alarm_wait
    BY <2>1 DEF ioctl_fails, alarm_wait, Claims, TypeOK
  <2>2. CASE wait_interrupted \/ wait_event \/ alarm_release
    BY <2>2 DEF wait_interrupted, wait_event, alarm_release, TypeOK
  <2>3. CASE wait_return
    BY <2>3 DEF wait_return, Delivered, TypeOK
  <2>4. CASE release_end
    BY <2>4 DEF release_end, LeftOver, TypeOK
  <2>5. ASSUME NEW r \in SetAndWait, alarm_set_and_wait(r[1], r[2])
        PROVE  FileInv'
    BY <2>5 DEF alarm_set_and_wait, Claims, TypeOK
  <2> QED
    BY <1>2, <2>1, <2>2, <2>3, <2>4, <2>5 DEF ClientAction
<1>3. CASE PowerAction
  <2>1. CASE freeze_processes
    BY <2>1 DEF freeze_processes, TypeOK
  <2>2. CASE ~freeze_processes
    BY <1>3, <2>2, FileUnchanged
       DEF PowerAction, suspend, freeze_fails, alarm_suspend, suspend_read,
           suspend_arm, suspend_check, msmrtc_suspend, power_suspend_late,
           suspend_cancel, sleep_ends, other_wakeup, Wakes, device_suspend_fails,
           msmrtc_resume, alarm_resume
  <2> QED
    BY <2>1, <2>2
<1>4. CASE ClockAction
  <2>1. CASE set_rtc_done
    BY <2>1 DEF set_rtc_done
  <2>2. CASE tick
    BY <2>2 DEF tick, Shorter
  <2>3. CASE ~set_rtc_done /\ ~tick
    BY <1>4, <2>3, FileUnchanged
       DEF ClockAction, alarm_set_rtc, settimeofday, tod_update,
           process_cb_request, rtc_hctosys, set_rtc_begin, set_wall,
           set_rtc_start, set_rtc_restore
  <2> QED
    BY <2>1, <2>2, <2>3
<1>5. CASE UNCHANGED vars
  BY <1>5, FileUnchanged DEF vars
<1> QED
  BY <1>1, <1>2, <1>3, <1>4, <1>5, Steps

(* The wake lock of the alarms is held only for what is pending or not     *)
(* acknowledged, and a closed device leaves no alarm, timer or lock.       *)
THEOREM WakeLockTheorem == Spec => []WakeLockIsAccountedFor
<1>1. Init => FileInv
  BY DEF Init, FileInv
<1>2. TypeOK /\ TimerInv /\ FileInv /\ [Next]_vars => FileInv'
  BY FileStep
<1>3. TypeOK /\ TimerInv /\ FileInv => WakeLockIsAccountedFor
  BY DEF TypeOK, TimerInv, FileInv, WakeLockIsAccountedFor
<1> QED
  BY <1>1, <1>2, <1>3, TimerAlways, PTL DEF Spec
-----------------------------------------------------------------------------
(* Sleep.  What a second is to the RTC: a time lies less than a second     *)
(* after the whole second it is cut to.                                    *)
LEMMA Quotient ==
  ASSUME NEW n \in Int
  PROVE  /\ n \div Sec \in Int
         /\ (n \div Sec) * Sec \in Int
         /\ (n \div Sec) * Sec <= n /\ n < (n \div Sec) * Sec + Sec
<1>1. Sec \in Nat /\ Sec > 0
  BY AlarmAssumption
<1>2. n \div Sec \in Int
  BY <1>1
<1>3. n = Sec * (n \div Sec) + (n % Sec) /\ n % Sec \in 0 .. Sec - 1
  BY <1>1
<1>4. Sec * (n \div Sec) = (n \div Sec) * Sec /\ (n \div Sec) * Sec \in Int
  BY <1>1, <1>2
<1> QED
  BY <1>1, <1>2, <1>3, <1>4

LEMMA Multiples ==
  ASSUME NEW m \in Int, NEW k \in Int
  PROVE  /\ m * Sec \in Int /\ k * Sec \in Int
         /\ (m - k) * Sec = m * Sec - k * Sec
         /\ m > k => m * Sec >= k * Sec + Sec
<1>1. Sec \in Nat /\ Sec > 0
  BY AlarmAssumption
<1>2. m * Sec \in Int /\ k * Sec \in Int
  BY <1>1
<1>3. (m - k) * Sec = m * Sec - k * Sec
  BY <1>1
<1>4. m > k => m * Sec >= k * Sec + Sec
  BY <1>1
<1> QED
  BY <1>1, <1>2, <1>3, <1>4

(* Unless one was set without the other, the wall clock is never a second  *)
(* or more from the RTC, outside SET_RTC: there it is the time that an     *)
(* error would go back to that is near.                                    *)
Near(x) == x - rtc < Sec /\ rtc - x < Sec

NearInv ==
  /\ setrtc.pc \in {"idle", "begin", "set", "refused", "restart", "rertc"} =>
       Near(wall)
  /\ setrtc.pc # "idle" => Near(setrtc.old)
  /\ setrtc.pc \in {"start", "rtc"} => wall = setrtc.new
  /\ setrtc.pc \in {"restart", "rertc"} => wall = setrtc.old

ClockInv ==
  /\ wall >= 0 /\ rtc >= 0 /\ setrtc.new >= 0 /\ setrtc.old >= 0
  /\ cb.second >= 0
  /\ ~apart => NearInv

(* A time that is cut to seconds is near the RTC that is set to it. *)
LEMMA CutIsNear ==
  ASSUME NEW n \in Nat
  PROVE  /\ n - (n \div Sec) * Sec < Sec /\ (n \div Sec) * Sec - n < Sec
         /\ (n \div Sec) * Sec >= 0
<1>1. /\ n \div Sec \in Int /\ (n \div Sec) * Sec \in Int
      /\ (n \div Sec) * Sec <= n /\ n < (n \div Sec) * Sec + Sec
  BY Quotient
<1>2. Sec \in Nat /\ Sec > 0
  BY AlarmAssumption
<1>3. n \div Sec >= 0
  BY <1>2
<1>4. (n \div Sec) * Sec >= 0
  BY <1>1, <1>2, <1>3
<1> QED
  BY <1>1, <1>2, <1>4

LEMMA ClockUnchanged ==
  ASSUME ClockInv, UNCHANGED <<wall, rtc, cb, setrtc, apart>>
  PROVE  ClockInv'
BY DEF ClockInv, NearInv, Near

(* Where the clocks are set together and not apart from each other. *)
LEMMA ClockKept ==
  ASSUME ClockInv, UNCHANGED <<cb, apart>>,
         wall' >= 0 /\ rtc' >= 0 /\ setrtc'.new >= 0 /\ setrtc'.old >= 0,
         NearInv => NearInv'
  PROVE  ClockInv'
BY Zenon DEF ClockInv

(* The middle of a second is near an RTC that is in it. *)
LEMMA HalfPastIsNear ==
  ASSUME NEW s \in Nat
  PROVE  /\ HalfPast(s) \in Int /\ HalfPast(s) >= 0
         /\ \A n \in Int : s = n \div Sec => /\ HalfPast(s) - n < Sec
                                             /\ n - HalfPast(s) < Sec
<1>1. Sec \in Nat /\ Sec > 0
  BY AlarmAssumption
<1>2. Sec \div 2 \in Nat /\ Sec \div 2 < Sec
  BY <1>1
<1>3. s * Sec \in Nat
  BY <1>1
<1>4. ASSUME NEW n \in Int, s = n \div Sec
      PROVE  s * Sec <= n /\ n < s * Sec + Sec
  BY <1>4, Quotient
<1> QED
  BY <1>1, <1>2, <1>3, <1>4 DEF HalfPast

LEMMA ClockStep ==
  ASSUME TypeOK, ClockInv, [Next]_vars
  PROVE  ClockInv'
<1> USE DEF clocks, files, alarms, events, locks, waiting, setting, setclocks,
            power, arming
<1>1. CASE \E t \in Types : TypeAction(t)
  BY <1>1, ClockUnchanged
     DEF TypeAction, alarm_clear, alarm_timer_triggered, release_type, alarm_set
<1>2. CASE ClientAction
  BY <1>2, ClockUnchanged
     DEF ClientAction, ioctl_fails, alarm_wait, wait_interrupted, wait_event,
         wait_return, alarm_release, release_end, alarm_set_and_wait
<1>3. CASE PowerAction
  BY <1>3, ClockUnchanged
     DEF PowerAction, suspend, freeze_processes, freeze_fails, alarm_suspend,
         suspend_read, suspend_arm, suspend_check, msmrtc_suspend,
         power_suspend_late, suspend_cancel, sleep_ends, other_wakeup, Wakes,
         device_suspend_fails, msmrtc_resume, alarm_resume
<1>4. CASE UNCHANGED vars
  BY <1>4, ClockUnchanged DEF vars
<1>5. Sec \in Nat /\ Sec > 0
  BY AlarmAssumption
<1>6. /\ setrtc \in SetRtcThread /\ wall \in Int /\ rtc \in Int
      /\ cb \in CallbackThread
  BY DEF TypeOK
<1>8. /\ wall >= 0 /\ rtc >= 0 /\ setrtc.new >= 0 /\ setrtc.old >= 0
      /\ cb.second >= 0
  BY DEF ClockInv
<1>7. CASE ClockAction
  <2>1. ASSUME NEW new \in Nat, alarm_set_rtc(new) PROVE ClockInv'
    <3>1. /\ NearInv => NearInv'
          /\ wall' >= 0 /\ rtc' >= 0 /\ setrtc'.new >= 0 /\ setrtc'.old >= 0
      BY <1>8, <2>1 DEF alarm_set_rtc, NearInv, Near
    <3> QED
      BY <2>1, <3>1, ClockKept DEF alarm_set_rtc
  <2>2. ASSUME NEW new \in Nat, settimeofday(new) \/ tod_update(new)
        PROVE  ClockInv'
    <3>1. /\ wall' >= 0 /\ rtc' >= 0 /\ setrtc' = setrtc /\ cb'.second >= 0
      BY <1>8, <2>2 DEF settimeofday, tod_update
    <3>2. apart' = TRUE
      BY <2>2, Zenon DEF settimeofday, tod_update
    <3>3. setrtc'.new >= 0 /\ setrtc'.old >= 0
      BY <1>8, <3>1
    <3> QED
      BY <3>1, <3>2, <3>3, Zenon DEF ClockInv
  <2>8. CASE process_cb_request
    <3>1. rtc \div Sec >= 0
      BY <1>5, <1>6, <1>8
    <3>2. cb'.second >= 0
      BY <2>8, <3>1 DEF process_cb_request, NoCall
    <3>3. UNCHANGED <<wall, rtc, setrtc, apart>>
      BY <2>8 DEF process_cb_request
    <3> QED
      BY <3>2, <3>3 DEF ClockInv, NearInv, Near
  <2>9. CASE rtc_hctosys
    <3>1. cb.second \in Nat
      BY <1>6, <1>8 DEF CallbackThread
    <3>2. /\ wall' = HalfPast(cb.second) /\ rtc' = rtc /\ setrtc' = setrtc
          /\ cb' = NoCall
      BY <2>9 DEF rtc_hctosys
    <3>3. ~apart' => setrtc.pc = "idle" /\ cb.second = rtc \div Sec
      BY <2>9, Zenon DEF rtc_hctosys
    <3>4. /\ wall' >= 0 /\ rtc' >= 0 /\ setrtc'.new >= 0 /\ setrtc'.old >= 0
          /\ cb'.second >= 0
      BY <1>8, <3>1, <3>2, HalfPastIsNear DEF NoCall
    <3>5. ASSUME setrtc.pc = "idle", cb.second = rtc \div Sec PROVE NearInv'
      BY <1>6, <3>1, <3>2, <3>5, HalfPastIsNear DEF NearInv, Near
    <3> QED
      BY <3>3, <3>4, <3>5, Zenon DEF ClockInv
  <2>10. CASE set_rtc_begin
    <3>1. /\ NearInv => NearInv'
          /\ wall' >= 0 /\ rtc' >= 0 /\ setrtc'.new >= 0 /\ setrtc'.old >= 0
      BY <1>6, <1>8, <2>10 DEF set_rtc_begin, NearInv, Near, SetRtcThread
    <3> QED
      BY <2>10, <3>1, ClockKept DEF set_rtc_begin
  <2>3. CASE set_wall
    <3>1. /\ NearInv => NearInv'
          /\ wall' >= 0 /\ rtc' >= 0 /\ setrtc'.new >= 0 /\ setrtc'.old >= 0
      BY <1>6, <1>8, <2>3 DEF set_wall, NearInv, Near, SetRtcThread
    <3> QED
      BY <2>3, <3>1, ClockKept DEF set_wall
  <2>4. CASE set_rtc_start
    <3>1. /\ NearInv => NearInv'
          /\ wall' >= 0 /\ rtc' >= 0 /\ setrtc'.new >= 0 /\ setrtc'.old >= 0
      BY <1>5, <1>6, <1>8, <2>4
         DEF set_rtc_start, NearInv, Near, SetRtcThread, Idle
    <3> QED
      BY <2>4, <3>1, ClockKept DEF set_rtc_start
  <2>5. CASE set_rtc_done
    <3>1. setrtc.new \in Nat /\ setrtc.old \in Nat
      BY <1>6, <1>8 DEF SetRtcThread
    <3> DEFINE new == (setrtc.new \div Sec) * Sec
               old == (setrtc.old \div Sec) * Sec
    <3>2. /\ new \in Int /\ new >= 0
          /\ setrtc.new - new < Sec /\ new - setrtc.new < Sec
      BY <3>1, Quotient, CutIsNear
    <3>3. /\ old \in Int /\ old >= 0
          /\ setrtc.old - old < Sec /\ old - setrtc.old < Sec
      BY <3>1, Quotient, CutIsNear
    <3>4. \/ setrtc.pc = "rtc" /\ rtc' = new /\ setrtc' = Idle
          \/ /\ setrtc.pc = "rtc" /\ rtc' = rtc
             /\ setrtc' = [setrtc EXCEPT !.pc = "restore"]
          \/ setrtc.pc = "rertc" /\ rtc' = rtc /\ setrtc' = Idle
          \/ setrtc.pc = "rertc" /\ rtc' = old /\ setrtc' = Idle
      BY <2>5 DEF set_rtc_done
    <3>5. wall' = wall
      BY <2>5 DEF set_rtc_done
    <3> HIDE DEF new, old
    <3>6. wall' >= 0 /\ rtc' >= 0 /\ setrtc'.new >= 0 /\ setrtc'.old >= 0
      BY <1>6, <1>8, <3>2, <3>3, <3>4, <3>5 DEF SetRtcThread, Idle
    <3>7. NearInv => NearInv'
      BY <1>5, <1>6, <3>1, <3>2, <3>3, <3>4, <3>5
         DEF NearInv, Near, SetRtcThread, Idle
    <3> QED
      BY <2>5, <3>6, <3>7, ClockKept DEF set_rtc_done
  <2>6. CASE set_rtc_restore
    <3>1. /\ NearInv => NearInv'
          /\ wall' >= 0 /\ rtc' >= 0 /\ setrtc'.new >= 0 /\ setrtc'.old >= 0
      BY <1>6, <1>8, <2>6 DEF set_rtc_restore, NearInv, Near, SetRtcThread
    <3> QED
      BY <2>6, <3>1, ClockKept DEF set_rtc_restore
  <2>7. CASE tick
    <3>1. /\ NearInv => NearInv'
          /\ wall' >= 0 /\ rtc' >= 0 /\ setrtc'.new >= 0 /\ setrtc'.old >= 0
      BY <1>6, <1>8, <2>7 DEF tick, NearInv, Near
    <3> QED
      BY <2>7, <3>1, ClockKept DEF tick
  <2> QED
    BY <1>7, <2>1, <2>2, <2>3, <2>4, <2>5, <2>6, <2>7, <2>8, <2>9, <2>10
       DEF ClockAction
<1> QED
  BY <1>1, <1>2, <1>3, <1>4, <1>7, Steps

LEMMA ClockAlways == Spec => []ClockInv
<1>1. Init => ClockInv
  BY AlarmAssumption DEF Init, ClockInv, NearInv, Near, Idle, NoCall
<1>2. TypeOK /\ ClockInv /\ [Next]_vars => ClockInv'
  BY ClockStep
<1> QED
  BY <1>1, <1>2, TypeTheorem, PTL DEF Spec

(* Wall clock and RTC stay less than a second apart through every SET_RTC, *)
(* one that fails half-way included, and every time of day from the modem  *)
(* that rtc_hctosys has followed, for any times, if neither falls into the *)
(* other.                                                                  *)
THEOREM ClocksAgreeTheorem == Spec => []ClocksAgree
<1>1. ClockInv => ClocksAgree
  BY DEF ClockInv, NearInv, Near, ClocksAgree, ClocksAreNear
<1> QED
  BY <1>1, ClockAlways, PTL

(* What is left until the alarm of t, by the wall clock. *)
Left(t) == Expiry(t, alarm_time[t]) - wall

(* In a suspend that has read the RTC right, near the wall clock, and had  *)
(* neither set since: the second it read is that of the RTC; a second that *)
(* is far enough away is one that the driver took, early enough for every  *)
(* wakeup alarm; behind alarm_suspend the RTC is set to one; and behind    *)
(* msmrtc_suspend so is the end of the sleep.                              *)
ArmedFor(t) ==
  /\ pm = "check" => (rtc \div Sec + 1 < second =>
                        /\ rtcalarm_time = second
                        /\ (second - rtc \div Sec) * Sec <= Left(t))
  /\ pm = "rtc" => /\ rtcalarm_time > rtc \div Sec
                   /\ (rtcalarm_time - rtc \div Sec) * Sec <= Left(t)
  /\ pm \in {"late", "asleep"} => wakes_at # 0 /\ wakes_at - boot <= Left(t)

Armed ==
  /\ pm = "arm" => second = rtc \div Sec /\ ClocksAreNear
  /\ \A t \in alarm_enabled \cap Wakeup : ArmedFor(t)

ArmInv == sure => Armed

(* The first alarm comes no later than any. *)
LEMMA FirstIsFirst ==
  ASSUME TypeOK, NEW t \in alarm_enabled \cap Wakeup
  PROVE  first_alarm_time \in Int /\ first_alarm_time <= Expiry(t, alarm_time[t])
<1>1. t \in Types /\ t \in alarm_enabled /\ alarm_time \in [Types -> Nat]
      /\ elapsed_rtc_delta \in Int /\ alarm_enabled \subseteq Types
  BY DEF TypeOK
<1>2. CASE t = ANDROID_ALARM_RTC_WAKEUP
  <2>1. t \notin Elapsed
    BY <1>2 DEF Elapsed, ANDROID_ALARM_RTC_WAKEUP, ANDROID_ALARM_ELAPSED_REALTIME,
                ANDROID_ALARM_ELAPSED_REALTIME_WAKEUP
  <2> QED
    BY <1>1, <1>2, <2>1
       DEF first_alarm_time, elapsed_realtime_alarm_time, TimeOf, Expiry
<1>3. CASE t = ANDROID_ALARM_ELAPSED_REALTIME_WAKEUP
  <2>1. t \in Elapsed
    BY <1>1, <1>3 DEF Elapsed
  <2> QED
    BY <1>1, <1>3, <2>1
       DEF first_alarm_time, elapsed_realtime_alarm_time, TimeOf, Expiry
<1> QED
  BY <1>2, <1>3 DEF Wakeup

(* A second for which the suspend is not given up is one that the driver   *)
(* takes, since the wall clock is near the RTC, and that is early enough.  *)
LEMMA RtcIsArmed ==
  ASSUME TypeOK, ClocksAreNear, NEW t \in alarm_enabled \cap Wakeup,
         (rtc \div Sec) + 1 < rtc_alarm_time(rtc \div Sec)
  PROVE  /\ rtc_set_alarm(rtc_alarm_time(rtc \div Sec))
              = rtc_alarm_time(rtc \div Sec)
         /\ (rtc_alarm_time(rtc \div Sec) - rtc \div Sec) * Sec <= Left(t)
<1> DEFINE now == rtc \div Sec
           F == first_alarm_time
           n == F - (wall - now * Sec)
           alarm == n \div Sec
           w == wall \div Sec
<1>1. Sec \in Nat /\ Sec > 0 /\ wall \in Int /\ rtc \in Int
  BY AlarmAssumption DEF TypeOK
<1>2. F \in Int /\ F <= Expiry(t, alarm_time[t])
  BY FirstIsFirst
<1>3. now \in Int /\ now * Sec \in Int /\ now * Sec <= rtc /\ rtc < now * Sec + Sec
  BY <1>1, Quotient
<1>4. n \in Int
  BY <1>1, <1>2, <1>3
<1>5. alarm \in Int /\ alarm * Sec \in Int /\ alarm * Sec <= n
  <2> HIDE DEF n
  <2> QED
    BY <1>4, Quotient
<1>6. w \in Int /\ w * Sec \in Int /\ w * Sec <= wall
  BY <1>1, Quotient
<1>7. rtc_alarm_time(now) = alarm
  BY DEF rtc_alarm_time
<1>8. Near(wall)
  BY DEF ClocksAreNear, Near
<1>9. n = F - (wall - now * Sec)
  OBVIOUS
<1>10. Expiry(t, alarm_time[t]) \in Int
  <2>1. t \in Types /\ alarm_time \in [Types -> Nat] /\ elapsed_rtc_delta \in Int
    BY DEF TypeOK
  <2> QED
    BY <2>1 DEF Expiry
<1>11. (alarm - now) * Sec = alarm * Sec - now * Sec
  <2> HIDE DEF alarm, now
  <2> QED
    BY <1>3, <1>5, Multiples
<1>12. w > now + 1 => w * Sec >= (now + 1) * Sec + Sec
  <2> HIDE DEF w, now
  <2> QED
    BY <1>3, <1>6, Multiples
<1>13. (now + 1) * Sec = now * Sec + Sec
  <2> HIDE DEF now
  <2> QED
    BY <1>1, <1>3
<1>14. now + 1 < alarm
  BY <1>7
<1>15. rtc_set_alarm(alarm) = IF w > alarm THEN 0 ELSE alarm
  BY DEF rtc_set_alarm
<1> HIDE DEF now, F, n, alarm, w
<1>16. w <= now + 1
  BY <1>1, <1>3, <1>6, <1>8, <1>12, <1>13 DEF Near
<1>17. rtc_set_alarm(alarm) = alarm
  BY <1>3, <1>5, <1>6, <1>14, <1>15, <1>16
<1>18. (alarm - now) * Sec <= Left(t)
  BY <1>1, <1>2, <1>3, <1>4, <1>5, <1>9, <1>10, <1>11 DEF Left
<1> QED
  BY <1>7, <1>17, <1>18 DEF now

(* A step that leaves clocks and alarms alone, but for alarms that go off, *)
(* and the suspend. *)
LEMMA ArmUnchanged ==
  ASSUME TypeOK, ArmInv, alarm_enabled' \subseteq alarm_enabled,
         UNCHANGED <<alarm_time, elapsed_rtc_delta, boot, wall, rtc, pm, wakes_at,
                     rtcalarm_time, second, sure>>
  PROVE  ArmInv'
<1>1. Armed => Armed'
  BY DEF Armed, ArmedFor, ClocksAreNear, Left, Expiry, TypeOK
<1> QED
  BY <1>1 DEF ArmInv

(* Nothing is asked where this suspend has not come to the RTC. *)
LEMMA ArmIdle ==
  ASSUME pm' \notin {"arm", "check", "rtc", "late", "asleep"}
  PROVE  ArmInv'
BY DEF ArmInv, Armed, ArmedFor

LEMMA ArmStep ==
  ASSUME TypeOK, SleepInv, ClockInv, ArmInv, [Next]_vars
  PROVE  ArmInv'
<1> USE DEF clocks, files, alarms, events, locks, waiting, setting, setclocks,
            power, arming
<1>1. ASSUME Running' PROVE ArmInv'
  BY <1>1, ArmIdle DEF Running
<1>2. ASSUME NEW t \in Types, TypeAction(t) PROVE ArmInv'
  <2>1. CASE alarm_timer_triggered(t)
    BY <2>1, ArmUnchanged DEF alarm_timer_triggered
  <2>2. CASE release_type(t)
    BY <2>2, ArmUnchanged DEF release_type
  <2>3. CASE alarm_clear(t) \/ \E x \in AlarmTimes[t] : alarm_set(t, x)
    BY <1>1, <2>3 DEF alarm_clear, alarm_set, Claims, Running
  <2> QED
    BY <1>2, <2>1, <2>2, <2>3 DEF TypeAction
<1>3. CASE ClientAction
  <2>1. CASE release_end
    BY <2>1, ArmUnchanged DEF release_end
  <2>2. CASE ~release_end
    BY <1>1, <1>3, <2>2
       DEF ClientAction, ioctl_fails, alarm_wait, wait_interrupted, wait_event,
           wait_return, alarm_release, alarm_set_and_wait, Claims, Running
  <2> QED
    BY <2>1, <2>2
<1>4. CASE ClockAction
  <2>1. CASE Running
    BY <1>1, <1>4, <2>1
       DEF ClockAction, alarm_set_rtc, settimeofday, tod_update,
           process_cb_request, rtc_hctosys, set_rtc_begin, set_wall,
           set_rtc_start, set_rtc_done, set_rtc_restore, tick, Running
  <2>2. CASE ~Running
    <3>1. setrtc.pc = "idle"
      BY <2>2 DEF SleepInv
    <3>2. \/ tick \/ process_cb_request \/ rtc_hctosys
          \/ \E new \in Nat : tod_update(new)
      BY <1>4, <2>2, <3>1
         DEF ClockAction, alarm_set_rtc, settimeofday, set_rtc_begin, set_wall,
             set_rtc_start, set_rtc_done, set_rtc_restore
    <3>3. CASE tick
      <4>1. /\ pm = "asleep" /\ pm' = pm /\ boot' = boot + 1 /\ wall' = wall + 1
            /\ UNCHANGED <<alarm_enabled, alarm_time, elapsed_rtc_delta, wakes_at,
                           sure>>
        BY <2>2, <3>3 DEF tick
      <4>2. ASSUME Armed, NEW t \in alarm_enabled \cap Wakeup
            PROVE  wakes_at # 0 /\ wakes_at - (boot + 1) <= Left(t)'
        <5>1. Left(t)' = Expiry(t, alarm_time[t]) - (wall + 1)
          BY <4>1 DEF Left, Expiry
        <5>2. wakes_at # 0 /\ wakes_at - boot <= Expiry(t, alarm_time[t]) - wall
          BY <4>1, <4>2 DEF Armed, ArmedFor, Left
        <5>3. /\ Expiry(t, alarm_time[t]) \in Int /\ wall \in Int /\ boot \in Int
              /\ wakes_at \in Int
          BY AlarmAssumption DEF TypeOK, Expiry
        <5> QED
          BY <5>1, <5>2, <5>3
      <4>3. Armed => Armed'
        BY <4>1, <4>2 DEF Armed, ArmedFor
      <4> QED
        BY <4>1, <4>3 DEF ArmInv
    <3>4. CASE process_cb_request
      BY <3>4, ArmUnchanged DEF process_cb_request
    <3>5. CASE rtc_hctosys \/ \E new \in Nat : tod_update(new)
      <4>1. sure' = FALSE
        BY <3>5, Zenon DEF rtc_hctosys, tod_update
      <4> QED
        BY <4>1, Zenon DEF ArmInv
    <3> QED
      BY <3>2, <3>3, <3>4, <3>5
  <2> QED
    BY <2>1, <2>2
<1>5. CASE PowerAction
  <2>1. CASE \/ suspend \/ freeze_fails \/ freeze_processes \/ sleep_ends
             \/ other_wakeup \/ device_suspend_fails \/ msmrtc_resume
             \/ alarm_resume
    <3>1. pm' \notin {"arm", "check", "rtc", "late", "asleep"}
      BY <2>1 DEF suspend, freeze_fails, freeze_processes, sleep_ends,
                  other_wakeup, Wakes, device_suspend_fails, msmrtc_resume,
                  alarm_resume
    <3> QED
      BY <3>1, ArmIdle
  <2>2. ASSUME NEW from, NEW t, NEW to \in {"cancel_elapsed", "read"},
               suspend_cancel(from, t, to)
        PROVE  ArmInv'
    BY <2>2, ArmIdle DEF suspend_cancel
  <2>3. CASE alarm_suspend
    <3>1. CASE alarm_enabled \cap Wakeup = {}
      BY <2>3, <3>1 DEF alarm_suspend, ArmInv, Armed
    <3>2. CASE alarm_enabled \cap Wakeup # {}
      BY <2>3, <3>2, ArmIdle DEF alarm_suspend
    <3> QED
      BY <3>1, <3>2
  <2>7. CASE suspend_read
    <3>1. sure' => second' = rtc \div Sec /\ ClocksAreNear
      BY <2>7, Zenon DEF suspend_read
    <3>2. pm' = "arm" /\ UNCHANGED clocks
      BY <2>7 DEF suspend_read
    <3>3. ASSUME second' = rtc \div Sec, ClocksAreNear PROVE Armed'
      BY <3>2, <3>3 DEF Armed, ArmedFor, ClocksAreNear
    <3> QED
      BY <3>1, <3>3 DEF ArmInv
  <2>4. CASE suspend_arm
    <3>1. /\ pm = "arm" /\ pm' = "check" /\ second' = rtc_alarm_time(second)
          /\ rtcalarm_time' = rtc_set_alarm(rtc_alarm_time(second))
          /\ UNCHANGED <<clocks, alarm_enabled, alarm_time, elapsed_rtc_delta,
                         sure>>
      BY <2>4 DEF suspend_arm
    <3>2. ASSUME Armed, NEW t \in alarm_enabled \cap Wakeup,
                 rtc \div Sec + 1 < second'
          PROVE  /\ rtcalarm_time' = second'
                 /\ (second' - rtc \div Sec) * Sec <= Left(t)'
      <4>1. second = rtc \div Sec /\ ClocksAreNear
        BY <3>1, <3>2 DEF Armed
      <4>2. Left(t)' = Left(t)
        BY <3>1 DEF Left, Expiry
      <4> QED
        BY <3>1, <3>2, <4>1, <4>2, RtcIsArmed
    <3>3. Armed => Armed'
      BY <3>1, <3>2 DEF Armed, ArmedFor
    <3> QED
      BY <3>1, <3>3 DEF ArmInv
  <2>8. CASE suspend_check
    <3>1. CASE pm' # "rtc"
      BY <2>8, <3>1, ArmIdle DEF suspend_check
    <3>2. CASE pm' = "rtc"
      <4>1. PICK now \in ReadSeconds :
              /\ pm = "check" /\ ~(now + 1 >= second)
              /\ UNCHANGED <<clocks, alarm_enabled, alarm_time,
                             elapsed_rtc_delta, rtcalarm_time>>
              /\ sure' = (sure /\ now = rtc \div Sec)
        BY <2>8, <3>2 DEF suspend_check
      <4>2. sure' => sure /\ now = rtc \div Sec
        BY <4>1, Zenon
      <4>3. ASSUME Armed, now = rtc \div Sec, NEW t \in alarm_enabled \cap Wakeup
            PROVE  ArmedFor(t)'
        <5>1. now \in Int /\ second \in Int
          BY <4>3, Seconds DEF TypeOK
        <5>2. now + 1 < second
          BY <4>1, <5>1
        <5>3. rtcalarm_time = second /\ (second - now) * Sec <= Left(t)
          BY <4>1, <4>3, <5>2 DEF Armed, ArmedFor
        <5>4. rtcalarm_time > now
          BY <5>1, <5>2, <5>3
        <5>5. Left(t)' = Left(t)
          BY <4>1 DEF Left, Expiry
        <5> QED
          BY <3>2, <4>1, <4>3, <5>3, <5>4, <5>5 DEF ArmedFor
      <4>4. ASSUME Armed, now = rtc \div Sec PROVE Armed'
        BY <3>2, <4>1, <4>3, <4>4 DEF Armed
      <4> QED
        BY <4>2, <4>4 DEF ArmInv
    <3> QED
      BY <3>1, <3>2
  <2>5. CASE msmrtc_suspend
    <3>1. /\ pm = "rtc" /\ pm' = "late"
          /\ UNCHANGED <<clocks, alarm_enabled, alarm_time, elapsed_rtc_delta,
                         sure>>
      BY <2>5 DEF msmrtc_suspend
    <3> SUFFICES ASSUME Armed, NEW t \in alarm_enabled \cap Wakeup
                 PROVE  wakes_at' # 0 /\ wakes_at' - boot <= Left(t)'
      BY <3>1 DEF ArmInv, Armed, ArmedFor
    <3> DEFINE now == rtc \div Sec
    <3>2. rtcalarm_time > now /\ (rtcalarm_time - now) * Sec <= Left(t)
      BY <3>1 DEF Armed, ArmedFor
    <3>3. now \in Int /\ now >= 0 /\ rtcalarm_time \in Int /\ boot \in Nat
      <4>1. rtc \in Nat /\ rtcalarm_time \in Int /\ boot \in Nat
        BY AlarmAssumption DEF TypeOK, ClockInv
      <4> QED
        BY <4>1, AlarmAssumption
    <3>4. rtcalarm_time # 0 /\ ~Expired
      BY <3>2, <3>3 DEF Expired
    <3>5. wakes_at' = boot + (rtcalarm_time - now) * Sec
      BY <2>5, <3>4 DEF msmrtc_suspend
    <3>6. Left(t)' = Left(t) /\ Left(t) \in Int
      BY <3>1 DEF Left, Expiry, TypeOK
    <3> HIDE DEF now
    <3>7. (rtcalarm_time - now) * Sec \in Int /\ (rtcalarm_time - now) * Sec > 0
      BY <3>2, <3>3, AlarmAssumption
    <3> QED
      BY <3>2, <3>3, <3>5, <3>6, <3>7
  <2>6. CASE power_suspend_late
    <3>1. /\ pm = "late" /\ pm' \in {"waking", "asleep"}
          /\ pm' = "asleep" => wakes_at' = wakes_at
          /\ UNCHANGED <<clocks, alarm_enabled, alarm_time, elapsed_rtc_delta,
                         sure>>
      BY <2>6 DEF power_suspend_late
    <3>2. Armed => Armed'
      BY <3>1 DEF Armed, ArmedFor, Left, Expiry
    <3> QED
      BY <3>1, <3>2 DEF ArmInv
  <2> QED
    BY <1>5, <2>1, <2>2, <2>3, <2>4, <2>5, <2>6, <2>7, <2>8 DEF PowerAction
<1>6. CASE UNCHANGED vars
  BY <1>6, ArmUnchanged DEF vars
<1> QED
  BY <1>2, <1>3, <1>4, <1>5, <1>6, Steps

(* The phone never sleeps past the first wakeup alarm that is set, for any *)
(* alarms and any length of a second, if alarm_suspend could read the RTC, *)
(* found it less than a second from the wall clock, and neither was set    *)
(* since.  Of the last two ClocksAgreeTheorem says when they are so.       *)
THEOREM SleepEndsTheorem == Spec => []SleepEndsInTime
<1>1. Init => ArmInv
  BY Zenon DEF Init, ArmInv
<1>2. TypeOK /\ SleepInv /\ ClockInv /\ ArmInv /\ [Next]_vars => ArmInv'
  BY ArmStep
<1>3. ASSUME TypeOK, Armed, pm = "asleep", NEW t \in alarm_enabled \cap Wakeup
      PROVE  wakes_at # 0 /\ wakes_at - boot <= alarm_time[t] - Reported(t)
  <2>1. wakes_at # 0 /\ wakes_at - boot <= Left(t)
    BY <1>3 DEF Armed, ArmedFor
  <2>2. Left(t) = alarm_time[t] - Reported(t)
    BY <1>3 DEF Left, Expiry, Reported, TypeOK
  <2> QED
    BY <2>1, <2>2
<1>4. TypeOK /\ ArmInv => SleepEndsInTime
  BY <1>3 DEF SleepEndsInTime, ArmInv
<1> QED
  BY <1>1, <1>2, <1>4, TimerAlways, ClockAlways, PTL DEF Spec
=============================================================================
