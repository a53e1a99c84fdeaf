# Verification of the Android core of the Xperia X10 kernel

TLA+ models of the parts that Android adds to this kernel, the TLC runs that check them on
small instances, and TLAPS proofs of the main results for all instances.

- [The system](#the-system) and its [inventory](#inventory)
- [Modules](#modules) and how they correspond to the code
- [Runs](#runs), [bounds](#bounds), [fairness](#fairness), [assumptions on the environment](#assumptions-on-the-environment)
- [Proofs](#proofs)
- [Where code and comments disagree](#where-code-and-comments-disagree)
- [What is not modelled](#what-is-not-modelled) and the [plan](#plan)

## The system

The repository is Linux 2.6.29 for the Sony Ericsson Xperia X10 (board es209ra, Qualcomm QSD8250)
with Google's Android drivers, Qualcomm's MSM platform code and vendor additions.  Nearly all of
its 27,571 files are upstream Linux.  The subject here is what this tree adds to upstream and what
`kernel/arch/arm/configs/doom_x10_defconfig` builds.

The configuration matters: one CPU, `CONFIG_PREEMPT`, `HZ=100`, wake locks with statistics, user
wake locks, early suspend, the freezer, the logger; no cgroup freezer, no `CONFIG_DEBUG_LIST`.
With one CPU, a region under `spin_lock_irqsave` is one atomic step; everything else can be
preempted between any two accesses.

The heart of the Android additions is *opportunistic suspend*: the system goes to sleep whenever
nobody holds a wake lock.

```
 user space ── /sys/power/state ───────► request_suspend_state ─┐ queues
     │                                     (earlysuspend.c)     ▼
     ├─── /sys/power/wake_lock ─► userwakelock.c      suspend_work_queue (one thread)
     │                                 │                early_suspend │ late_resume │ suspend
 drivers, interrupts ── wake_lock ─► wakelock.c ── queues ──►  │ main_wake_lock     │
                                       │  expire_timer          ▼                    ▼
                                       └───────────── handlers (screen, touch)   pm_suspend (main.c):
                                                                                 freezer, devices,
                                                                                 power_suspend_late,
                                                                                 sleep
```

### Inventory

| component | state | operations | hard because | correct if |
|---|---|---|---|---|
| wake locks, `kernel/power/wakelock.c` | locks on active/inactive lists, time-outs, expire timer, event number, statistics marks | init, destroy, lock, lock with time-out, unlock, scan with expiry, timer | called from interrupts at any moment; a timer that is never re-armed from its own function; an event number read without the lock | no sleep with a lock held; no suspend attempt lost; marks exact |
| user wake locks, `kernel/power/userwakelock.c` | tree of names | write to `wake_lock`, `wake_unlock` | comparison with names that begin others; u64 to long | every name its own lock; time-out rounded up |
| early suspend, `kernel/power/earlysuspend.c` | request, SUSPENDED bit, handlers by level | register, unregister, `early_suspend`, `late_resume`, `request_suspend_state` | requests overtake the worker; registration between | handlers follow the state, in level order; requests take effect |
| system suspend, `kernel/power/main.c` | phase of `pm_suspend` | prepare, freeze, suspend devices, power down, enter, resume, finish | any step may fail; locks are taken all along | sleep only on request; retried after failure |
| freezer, `kernel/power/process.c`, `kernel/freezer.c` | TIF_FREEZE, PF_FROZEN, PF_FREEZER_SKIP, task states | freeze, cancel, thaw; per task: `try_to_freeze`, `refrigerator` | each task freezes itself, racing with cancel and thaw; time-out | nobody left frozen; nobody runs while frozen |
| logger, `drivers/staging/android/logger.c` | ring buffer, write head, start head, readers with offsets, wait queue; tags and priorities | open, release, read, write, flush, poll, ioctl; tag files | read takes its spinlock three times; the writer laps readers | a log is a queue per reader; no lost wake-up |
| work queue, `kernel/workqueue.c` | list of pending works | `queue_work`, `run_workqueue` | a pending work is not queued again | (as part of power management) |
| alarm, `drivers/rtc/alarm.c` with `drivers/rtc/rtc-msm.c` | alarms enabled and pending, a timer each, offset of elapsed realtime, two wake locks, the alarm of the RTC | set, clear, wait, set the time, release; timer; suspend, resume; a time from the modem | locks dropped in the middle of SET_RTC and of suspend; three clocks, one in whole seconds, set from several sides; wake locks that end by themselves | no alarm slept through or early; none without a timer; no wake lock left behind |
| ashmem, `mm/ashmem.c` | areas, ranges of unpinned pages by area and on an LRU list, its page count | open, release, set size, map, pin, unpin, status, shrink | merging and splitting ranges; allocations that fail half way | a purged page is never pinned silently; lists and count exact |
| early suspend of the frame buffer, `kernel/power/fbearlysuspend.c` | drawing state, wait queue | handler and late resume, two files that user space reads | time-out, signals and late answers meet | nobody draws on a dark display; drawing resumes |
| binder, `drivers/staging/android/binder.c` | processes, threads, nodes, references, transactions, buffers | ioctl commands, death | reference counts over processes that die | not modelled |
| pmem, low memory killer, timed output, RAM console | allocators, one timer | | | not modelled |
| SMD, RPC router, proc_comm, remote spinlocks, DAL in `arch/arm/mach-msm` | channels, quotas, mailboxes in shared memory | | the modem runs concurrently | not modelled |
| idle and sleep `pm2.c`, cpufreq, clocks, board files | hardware | | | only the query of idle wake locks |

`PROJECT.json` lists these with their sources, the hazards with the lines where they bite, and for
every definition the lines it translates.

## Modules

Names are the source's names.  A definition with the suffix of a *planted bug* in its comment is a
deliberately wrong variant; it is used by nothing and shows that the property it is made for can fail.

### Power management

`WakeLock` ← `SystemSuspend` ← `EarlySuspend` ← `PowerManagement` extend one another and share
their state; `PowerManagement` adds the clients and is the specification.

- **WakeLock**: lists are sets (`active`, `initialized`), because the order matters only in that locks
  without a time-out come first, which `has_wake_lock_locked` here has in its definition.  Time is kept
  relative: `left[l]` is `lock->expires - jiffies`, with 0 for everything not positive.  Each operation
  runs under `list_lock` and is one action, statistics marks, timer and queueing included.  `event` is
  whether `current_event_num` differs from the `entry_event_num` of the running `suspend()`; in this
  tree only the main wake lock counts as an event.  The history variable `abandoned` is set when the last
  lock held without a time-out is destroyed, which `wake_lock_destroy` does without a look at timer or work,
  and cleared by the next operation on a suspend lock, which looks.
- **SystemSuspend**: the work queue thread as a program counter `worker`, one step per point after which
  other code can run, from `suspend()` through `pm_suspend` to its end, with the failure exits of every
  stage.  Between `power_down` and wake-up interrupts are off and nobody else runs.  The freezer
  appears as success, a round that looks at the wake locks, or failure; `Freezer` has its inside.
- **EarlySuspend**: handlers as a sequence kept in level order, `early_suspend` and `late_resume` one
  handler call per step, because requests and registrations happen around them; `early_suspend_lock`
  is held where `EarlySuspendLocked` says.  `off` is the set of handlers whose device is suspended; one that
  is unregistered while suspended stays in it, and one that is registered is taken to belong to a device that its
  driver has just set up.
- **PowerManagement**: kernel clients, user space, drivers that register handlers, the idle loop, the
  tick and the timer; fairness; the properties.
- **UserWakeLock**: the inside of `userwakelock.c`.  The red-black tree is the sorted sequence of its
  names, and a lookup may take the path of *any* search tree over it (`Lookup` goes on between two entries), so nothing depends on balancing.
  `strncmp` over the written length, with its difference of two bytes kept in a signed char, plus the test of
  the next character, and the conversion of nanoseconds with the widths of u64 and long, are as in the code.
  `AsciiNames` is what makes the comparison an order (see [below](#where-code-and-comments-disagree)).

### Freezer

**Freezer** has one action per access to a task's flags: the freezer's scan with its reads of
TIF_FREEZE and PF_FROZEN, the signal, the count, rounds, giving up with `cancel_freezing`, and
`thaw_process` in two passes; the task's `try_to_freeze`, `frozen_process` under `task_lock`, and the
loop of `refrigerator` with its test and its `schedule`.  It allows more interleavings than one CPU has.

### Logger

- **LogQueue** is the abstract specification: a queue of entries per open reader and one for readers
  to come; a write appends and may drop the oldest entries only when space is short, and then
  `overrun` is set (for the backlog only while nobody reads).
- **Logger** is the ring buffer.  Offsets count cells; the header takes one cell that holds the payload's
  length (so the case of a length that wraps around between its two bytes does not arise), and payload cells hold
  any number, so a length read at a wrong offset is whatever is there; nothing cuts it, as in the code.  `logger_read` is split where the code drops `bufflock`.  `reader->fixed`,
  which `logger_open` does not initialize, starts with either value.  `Abstract` maps the buffer to
  `LogQueue`: the entries from an offset to the write head.
- **LoggerReaders** is the list of readers at the level of its links: `list_add_tail` is under the lock
  and one step, the `list_del` of `logger_release` is not under the lock and is three.

### Alarm

**Alarm** has the alarm device, the virtual alarm of the RTC driver and the parts of a suspend that they
take part in.  Time is counted in ticks.  `boot`, `wall` and `rtc` are the three clocks; `hrtimer[t]` is the
set of at most one expiry time of `alarm_timer[t]`, on the wall clock as `CLOCK_REALTIME` is.  A wake lock
is the number of ticks it has left.  A section under `alarm_slock` is one action; SET_RTC, `alarm_release`
and `alarm_suspend` are split where they drop it (`setrtc.pc`, `closing`, `pm`).

The clocks are set from three sides.  SET_RTC sets wall clock and RTC, and goes back if one of them fails.
`settimeofday` sets the wall clock only.  The modem sets the RTC (`tod_update`) and calls back; the thread of
`process_cb_request` reads the RTC and then sets the wall clock to the middle of the second it read (`rtc_hctosys`),
two steps with no lock, which fall anywhere into SET_RTC and into a suspend.  `alarm_suspend` reads the RTC twice and looks at neither
result; a read that fails gives `BadSecond` (a time of all zeroes, which `rtc_tm_to_time` takes for one in 2036).
History variables say which behaviours a property is about: `steady` (each SET_RTC has succeeded and nobody else set the
wall clock), `apart` (a clock was set without the other: `settimeofday`, a time from the modem that is not followed
yet or was not, one in the middle of SET_RTC), `sure` (this suspend has read the RTC right, less than a second from the wall
clock, and neither was set since), and `hasty` (the types set while SET_RTC has its new offset and not its new wall clock).

`waiter` is the thread in
ANDROID_ALARM_WAIT: acknowledging, blocked, woken, or interrupted by the freezer and about to start its ioctl
again.  `rtc_alarm_time` cuts to whole seconds as the code does, `rtc_set_alarm` refuses a second in the
past, and `rtc_disable_alarm` changes nothing (see [below](#where-code-and-comments-disagree)).
`suspend`, `freeze_processes`, `power_suspend_late` and the wake-up are those of `SystemSuspend`, cut down
to the two wake locks of this driver.  Clocks are not set to times before 1970.

### Anonymous shared memory

- **AshmemPages** is the abstract specification, by pages: which are unpinned, and which of these have lost
  their contents without anybody being told.  A pin tells; memory reclaim takes unpinned pages only;
  a call without memory may leave fewer pages unpinned, but forgets no loss with a plain success.
- **Ashmem** has the ranges: records at addresses `Ids`, a sorted list per area, the LRU list and
  `lru_count`.  All that a call does under `ashmem_mutex` is one action.  `PinRange` is the four cases of
  `ashmem_pin` and `PinRanges` its loop, `Merge` one round of the loop of `ashmem_unpin` with its `goto restart`, `Hits` and
  `Reached` the scan with its short circuit, `PurgeRanges` the loop of `ashmem_shrink`; `lru_add` and `lru_del` keep the
  LRU list and its count.  Every allocation may fail.  SET_SIZE takes no mutex and is two steps.
  `PagesSpec` maps the ranges to the pages they cover.

### Early suspend of the frame buffer

**FbEarlySuspend** has the handler on the work queue thread, a process that draws and processes that only
watch.  A waiting task looks at `fb_state` when it begins and after each wake-up (`woken`); signals interrupt it
at any time.  `WakeReaders` are the watchers that read `wait_for_fb_wake` as well, which the code takes for the
answer (`stranger`).  The handler is one of those that `EarlySuspend` calls in turn.

`MCPowerManagement`, `MCLogger`, `MCUserWakeLock`, `MCAlarm` and `MCAshmem` only supply constants.

## Runs

| run | instance | states | shows |
|---|---|---|---|
| `power_management` | main, unknown_wakeup, one lock of a driver, one of user space, time-outs to 2, two early suspend handlers | 487,044 | `TypeOK`, `NoSleepWithWakeLock`, `MainLockFollowsRequest`, `SleepOnlyWhenRequested`, `HandlersFollowState`, `HandlersInLevelOrder`, `NoLostSuspend`, `TimerCoversTimeouts`, `PreventingIsExact`, and under fairness `EventuallySleeps`, `RequestTakesEffect` |
| `freezer` | two user tasks, a kernel thread | 369,704 | `TypeOK`, `NobodyLeftFrozen`, `NobodyRunsWhenDone`, and under fairness `ThawedTasksRun`, `FreezingSucceeds` |
| `logger` | 8 cells, payloads of 1 to 3, a reading thread, a second file, a writer | 153,066 | `TypeOK`, `NoLostWakeup`, `CopyFits`, `ReadsOldestEntry`, the refinement `ImplementsQueues`, and under fairness `ReadEnds` |
| `user_wake_lock` | four names, some beginning others | 4,096 | `EachNameItsOwnLock`, `TimeoutIsRoundedUp` |
| `alarm` | a wakeup alarm on the wall clock, one on elapsed realtime, two ticks to a second, a clock set once, forwards or back | 2,996,261 | `TypeOK`, `EnabledAlarmsAreArmed`, `SleepEndsInTime`, `ClocksAgree`, `NothingPendingAsleep`, `WakeLockIsAccountedFor`, `ElapsedRealtimeIsKept`, `AlarmIsNotEarly` |
| `alarm_liveness` | a wakeup alarm and one that does not wake, no clock set | 82,247 | under fairness `AlarmGoesOff`, `AlarmIsDelivered` |
| `ashmem` | an area of two or three pages and one of one page, three ranges at a time | 51,934 (symmetry in the addresses) | `TypeOK`, `RangesAreDisjoint`, `LruIsExact`, the refinement `ImplementsPages` |
| `fb_early_suspend` | the drawing process, one that reads both files too | 520 | `NoDrawingWhenOff`, and under fairness `DrawingResumes` |
| `logger_length`, `logger_flush`, `logger_readers`, `ashmem_pin_status` | | | [disagreements](#where-code-and-comments-disagree) |

What the less obvious ones say:

- `NoLostSuspend`: unless a lock is held without a time-out, the timer is pending or `suspend_work` is
  pending or running.  This is the invariant that keeps the phone from staying awake for ever.  It names the one
  hole that the code has, `abandoned`, and says that the next operation on a suspend lock closes it.
- `TimerCoversTimeouts`: `expire_wake_locks` never re-arms its timer, so the timer must always be
  pending for at least the longest time-out that runs; with the same hole.
- `HandlersFollowState`: outside `early_suspend_lock` the registered handlers are all suspended
  or none is, whatever was requested, registered and unregistered in between.
- `CopyFits`: no read copies more than `LOGGER_ENTRY_MAX_LEN` into its temporary buffer.  The code checks no length that it takes
  from the ring; it holds because each offset that a header is read at is that of an entry.
- `NobodyLeftFrozen`: the race described in the comment on `thaw_process` (a task asked to freeze that
  reaches the refrigerator after it was thawed) does not happen, also when freezing is given up.
- `ImplementsQueues`: no entry is lost, torn, repeated or reordered except by lapping, which
  `was_overrun` reports.
- `EnabledAlarmsAreArmed`: whenever user space runs and SET_RTC is not in the middle, each enabled alarm has
  a timer, and as far from now as the alarm is from the time that GET_TIME reports.  It fails if one of the
  exits of a suspend, or of SET_RTC, forgets to start a timer that it has cancelled.
- `SleepEndsInTime`: the limit that `msmrtc_suspend` gives the sleep is never later than the first wakeup alarm, in
  a suspend that is `sure` of its clocks.  `ClocksAgree` says when it can be: wall clock and RTC stay less than a second apart
  through SET_RTC, its failures included, and times from the modem, unless these meet or somebody calls `settimeofday`.
- `AlarmIsNotEarly`: an alarm that goes off has come, by the clock that GET_TIME reports.  GET_TIME waits for SET_RTC, so it
  reports nothing between the new offset and the new wall clock; all that goes off there was set there (`hasty`).
- `WakeLockIsAccountedFor`: `alarm_wake_lock` is held only while something is pending or not acknowledged, and a
  closed device holds no lock, alarm or timer (a TIME_CHANGE may be pending: SET_RTC needs no claim).
- `ImplementsPages`: the promise to a client of ashmem, see `AshmemPages`; it is what can be lost when ranges with
  different `purged` marks are merged or split, or when an allocation fails.
- `GetPinStatusIsSafe` (proved, without a run): never "pinned" for a page that can be purged, of any request at any time; that the
  other direction fails is a [run of its own](#where-code-and-comments-disagree).
- `NoDrawingWhenOff`: if the handler ends without its warning, nobody draws until late resume, unless it took the read of
  another process for the answer.

### Bounds

- Locks: an overtaken time-out needs two suspend locks besides main and unknown_wakeup, and time-outs
  of 1 and 2 tell "the longest" from "some".  More locks only repeat these relations; the proofs cover
  any number, and idle locks, which TLC's instance has none of.  Handlers are of two levels.
- Freezer: three tasks, so that one is behind, one at and one before the scan, of both kinds.  Rounds are
  not counted: the time-out may come in any round with tasks left.
- Logger: a buffer of twice the longest entry, the smallest power of two that fits the code's rule (the
  phone has 16 and 64 times).  It wraps after at most 8 writes, every offset is a start of an entry, and one
  write can pass over one or two entries.  Payload cells hold 9, more than the buffer has, so that a length taken from
  one would show; `logger_length` and `logger_flush` have 1.
- User wake locks: 8-bit u64, 4-bit long and 3 ns per jiffy keep every boundary: multiples of a jiffy and
  their neighbours, and the longest time-out whose jiffies fit a long.
- Alarm: with two ticks to a second wall clock and RTC are out of step half of the time, and an odd jump of the
  wall clock keeps them so.  `MaxTime` = 4 ticks after boot (two seconds; 5 in `alarm_liveness`) is enough for an alarm set before a
  suspend, refused because it is too near, or reached by sleeping.  Alarm times are chosen after the jump and
  before it.  `MaxClockSets` bounds SET_RTC, `settimeofday` and times from the modem together: one
  in the run `alarm`, whose steps, and whose failures, fall between those of everything else; that a second one may fall
  into the first is left to the theorems, which are for any number.
- Ashmem: three pages are the fewest in which a hole leaves a range on both sides; three ranges at a time are
  the most that they and the second area can have, but for empty ones (see below); beyond that an allocation
  fails, as it may at any time.
- Frame buffer: further watchers do nothing the first does not.

Deadlock is checked in all runs but those of the alarm, where time ends at `MaxTime` and a phone that sleeps then
has nothing left to do.

### Fairness

- The work queue thread, the timer interrupt and time itself are weakly fair (`FairSpec` of
  PowerManagement): a runnable kernel thread is scheduled, a pending timer fires.  Clients, failures and
  wake-ups are not.  `EventuallySleeps` is about behaviours in which clients and failures stop.
- Freezer: its thread and the steps inside `refrigerator` are fair, I/O completes, and a running task
  asked to freeze reaches a place where it looks (it has a signal pending, or is a kernel thread whose loop
  calls `try_to_freeze`).  Nothing wakes an interruptible sleeper but the freezer.
- Logger: a writer that has written calls `wake_up_interruptible`; a reader in `logger_read` runs.  Nobody
  has to write or to read.
- Alarm: time, timers, the suspend thread, the callback of the modem and ioctls that have begun go on; strong fairness for time, timers,
  the callback and the client's next wait, because a phone that suspends again and again runs them only in between, and each suspend ends.
  The client is assumed to wait again after each alarm, as Android's alarm manager does in a loop; nobody has
  to set, clear or close.  `AlarmGoesOff` has the premise that the phone does not sleep by an RTC that it could not read.
- Frame buffer: the handler's wait ends with its time; the drawing process runs.  No request, resume or signal has to come.

### Assumptions on the environment

- Early suspend: a driver registers a handler for a device that works.
- User wake locks: names in ASCII (`AsciiNames`, a hypothesis of the theorems).
- `FlushAnytime = FALSE` (run `logger`, and a hypothesis of the theorems on the ring buffer): nobody flushes while a read is between its two critical sections.
- One reading thread per open file (`file` in MCLogger, `OneThreadPerFile` in Logger_proofs).  With two, `ReadsOldestEntry` fails: the second
  copies with the length of an entry that the first has taken.
- Alarm: one thread at a time in SET_RTC and one callback at a time; the steps of SET_RTC, of `rtc_hctosys` and of suspending
  devices take less than a tick, and a timer that is due goes off within it (so the five seconds of `alarm_wake_lock` do not end
  between `alarm_suspend` and `power_suspend_late`); the modem does not set its clock while the phone sleeps, and the wall clock is
  restored exactly after sleep.
- Ashmem: one thread at a time in SET_SIZE, and sizes that are not zero.
- Frame buffer: one process draws, and does not when it reads `wait_for_fb_wake`; a frozen reader has read again before
  the handler's next call.  Nothing is assumed of others that read the files.

## Proofs

All proofs are for any constants that satisfy the named assumptions, and checked to the last leaf.

| module | theorems | argument |
|---|---|---|
| `PowerManagement_proofs` | `NoSleepTheorem`, `MainLockTheorem`, `PreventingTheorem` | `SleepInv`: types; the main lock is free only while a request stands and `early_suspend` has run; from `power_suspend_late` on no suspend lock is active; a standing request names a sleep state.  The middle part is what makes it inductive: interrupts are off there, so no client can undo what `power_suspend_late` saw.  `PreventingIsExact` is inductive together with it: an operation on the main lock looks through all marks, any other changes only the marks of its own lock and of those that expire. |
| | `NoLostSuspendTheorem`, `TimerTheorem` | `WatchInv`: the two properties need each other (the timer that is pending must still be pending when the last lock runs out), plus `EventMeansMain`: `suspend()` returns without unknown_wakeup only if the main lock was taken meanwhile and is still held, or else its release has queued the work again.  All of it is asked only while not `abandoned`; what clears that has looked at the list and so establishes it anew. |
| `EarlySuspend_proofs` | `TypeTheorem`, `HandlersTheorem`, `LevelOrderTheorem`, `SleepRequestTheorem` | `HandlerInv`: the handler list is sorted and without repetitions, and the suspended handlers are always a prefix of it: the empty one, the whole, or while a work calls handlers the part below `pos`.  Level order follows from prefix and sorting. |
| `UserWakeLock_proofs` | `OwnLockTheorem`, `RoundedTheorem` | `Inv`: the names of the tree are in strict order (`TreeInv`), and the locks are as user space asked (`LockInv`).  `Compare` of names in ASCII is the order of the dictionary, also for a name that begins another, and is transitive; a search over any tree therefore ends at the name's entry or at the only place that keeps the order (`LookupRight`).  The second theorem assumes `TimeoutsFit`, without which it is false (see below). |
| `Freezer_proofs` | `TypeTheorem`, `NobodyLeftFrozenTheorem`, `NobodyRunsTheorem` | `FreezerInv`: a frozen task is in the refrigerator, and is also asked to freeze only in the moment between the two flag writes of `frozen_process` (`FlagInv`); what the thaw has passed is clean (`ThawInv`); what a round without `todo` has passed is settled, that is frozen, or bound to freeze before anything else (`RoundInv`). |
| `Logger_proofs` | `TypeTheorem`, `WakeupTheorem` | `TypeOK` needs no more than itself: offsets are masked, whatever the header; lengths are any numbers.  A thread that sleeps with something to read was put on the wait queue before the write, and that writer has not called `wake_up_interruptible` yet (`WakeupTheorem` needs `OneThreadPerFile`: a second thread that copies with a stale length moves the read head of a sleeping one off the write head). |
| | `RingTheorem`, `CopyFitsTheorem`, `OldestTheorem`, `QueuesTheorem` | `RingInv`: from the head and from every reader whole entries, none longer than an entry may be, lead to the write head (`Chain`), and a thread about to copy has something to copy and the length of the entry there, or `fixed` tells it to look again.  A write keeps the chains that it does not pass over, and moves the others by whole entries to one that it does not (`fix_up_readers`).  `Entries` along a chain are the queue of `LogQueue`; each step is then one of its steps.  Under `OneThreadPerFile` and `FlushAnytime = FALSE`, without which the properties are false. |
| `Alarm_proofs` | `TypeTheorem`, `ArmedTheorem`, `NotEarlyTheorem`, `SleepTheorem`, `WakeLockTheorem`, `ElapsedTheorem` | `TimerInv`: a timer that runs is that of an enabled alarm and for its time, and an enabled alarm lacks one only inside SET_RTC or, if it wakes the phone, between `alarm_suspend` and `alarm_resume`; with it both properties of timers.  `HastyInv`: between the new offset and the new wall clock of SET_RTC only timers of `hasty` alarms run.  `SleepInv`: behind `alarm_suspend` what becomes pending has just taken the wake lock, and no time passes until `power_suspend_late` looks.  `FileInv`: while `alarm_release` goes through the types only those still to come have alarms, and nobody waits.  `ElapsedInv`: between the offset and the wall clock of a SET_RTC it is the new time that the offset is right for. |
| | `ClocksAgreeTheorem`, `SleepEndsTheorem` | `ClockInv` relates the RTC, which is set in whole seconds, to the wall clock and to the time that a failing SET_RTC would go back to, while not `apart`; `ArmInv` says, while `sure`, which second was read and for which the alarm of the RTC stands between the steps of `alarm_suspend` and the sleep.  The quotients by `Sec`, which is any number, are dealt with by the lemmas `Quotient` and `Multiples`. |
| `Ashmem_proofs` | `InvTheorem`, `TypeTheorem`, `DisjointTheorem`, `LruTheorem`, `PinStatusTheorem` | `Good`: the lists are lists of ranges in use (`IsLists`), each is sorted and free of overlaps (`Sorted`), exactly the ranges not purged are on the LRU list (`OnLruList`), and `lru_count` is the sum of their pages (`Counted`).  `PinStatusTheorem` is the safe direction only.  Every helper keeps it (range added, removed, shrunk, purged), and the loops of pin, unpin and shrink are sequences of helpers; the loop of `ashmem_unpin` ends because each round that starts it again has one range fewer. |
| | `PagesTheorem` | `DropInv`: a page that was truncated unnoticed lies in a range marked purged.  With it each call is a step of `AshmemPages`, also one that fails half way. |
| `FbEarlySuspend_proofs` | `NoDrawingTheorem` | `HandshakeInv`: drawing is allowed exactly while the handler is not at work; the answer that drawing has stopped, if it is not a `stranger`'s, is true and stays true until it is allowed again; the handler ends without a warning only on an answer. |

The assumptions on constants are in the modules that declare them.  They say what the code fixes (widths, sizes that are
powers of two, levels that are numbers) and nothing on how many locks, tasks, readers, alarms or areas there are.
`PowersAssumption` of UserWakeLock holds for all widths; it is stated because the provers know nothing of `2^n`.

Lemmas of note: `LeastNatural` and `MaxLeftIsMax` (the maximum that `has_wake_lock_locked` computes exists
and bounds every time-out), `HasWakeLockValue` (what its three kinds of result say), and the lemmas on
inserting into and removing from the sorted handler list.  What recursive functions and folds compute (entries along the
ring buffer, the comparison of names, the loops over ranges) is proved by taking the least argument for which the claim
fails (`Least`, `Upward`) and unfolding the definition once there.

Every safety property and both refinements of the passing runs are proved.  Only model-checked: liveness (`EventuallySleeps`, `RequestTakesEffect`,
`ThawedTasksRun`, `FreezingSucceeds`, `ReadEnds`, `AlarmGoesOff`, `AlarmIsDelivered`, `DrawingResumes`), which needs
fairness and ENABLED, beyond this prover; and the runs that end in a violation.

## Where code and comments disagree

- **Length of a read** (`logger_length`, `logger.c:202`): a reader that is lapped between the look at the
  length and the copy copies the new entry with its own length, but `read()` returns the old one.
- **Flush during a read** (`logger_flush`, `logger.c:872`): the read head moves to the write head without
  `fixed`; the read then copies bytes that are no entry and leaves the read head past the write head.
- **Unlocked list_del** (`logger_readers`, `logger.c:826`): `logger_release` changes the list of readers
  without `bufflock`; preempted in the middle by another release it leaves a freed reader on the list.
- **Pin status** (`ashmem_pin_status`, `ashmem.c:490`): UNPIN with offset = size and len = 0 makes a range of no pages.  It is on
  no scan's way, so each such call adds one until the area is closed, and `ashmem_get_pin_status` may call the last page
  unpinned because of it, against its comment.

Wake locks, without a run of its own: `wake_lock_destroy` looks at neither the timer nor the work, so the last lock can vanish with
nobody left to suspend until some lock is next touched.  `arch/arm/mach-msm/smd_rpcrouter.c:518` destroys locks of an
endpoint that lines 1017 and 1352 have taken for packets not read yet.  No comment promises otherwise; the properties name
the case (`abandoned`).

User wake locks, without runs of their own: "jiffies > 0" (`userwakelock.c:69`) holds for the u64 but not for the long that line 74
stores it in, so time-outs of 2^31 jiffies and more become negative, or zero and so none; `ToLong` does the same, and the
run and `RoundedTheorem` are about time-outs that fit.  And `strncmp` (`lib/string.c:269`) cuts the difference of two bytes to a signed char, so bytes
128 or more apart compare the wrong way round and names with such bytes have no order.  With the names `01`, `81 02` and `81 01`
(hexadecimal bytes), a rotation of the tree can hide the first one's entry from its look-up, which then makes another.

Logger, without a run of its own: the comment on `fix_up_readers` says that a lapped reader is pulled to the first
entry after the new write head; the code moves it by the length of the write, often further.

Alarm, without runs of their own (the model does what the code does in all of them):

- `include/linux/android_alarm.h:47` says that CLEAR disables an alarm.  It does not reach the RTC:
  `alarm_suspend` and `alarm_resume` disable the alarm of the RTC with a time that is all zeroes
  (`alarm.c:416`, `alarm.c:441`), which `rtc_valid_tm` refuses before the driver sees it, so the phone may still
  wake for an alarm that was cleared.
- SET_RTC that fails leaves `elapsed_rtc_delta` as if it had succeeded, and `settimeofday` and a time of day from the modem
  (`rtc-msm.c:472`) do not change it at all; elapsed realtime jumps.  `ElapsedRealtimeIsKept` is about behaviours
  without these (`steady`).
- An elapsed realtime alarm that is set between the new offset of SET_RTC and a new wall clock that is earlier goes off
  too early, by up to as much as the clock goes back.  `AlarmIsNotEarly` names it as its exception (`hasty`).
- `alarm_suspend` looks at the result of neither read of the RTC (`alarm.c:383`, `alarm.c:407`).  After one that fails the
  alarm of the RTC is at a wrong second and the phone may sleep past its own.
- A time from the modem that falls into SET_RTC, and `settimeofday`, leave wall clock and RTC apart.  With the wall clock ahead,
  `msmrtc_virtual_alarm_set` takes alarms of the near future for past ones, because it compares seconds of the RTC with
  seconds of the wall clock (`rtc-msm.c:337`), and the phone sleeps past them.
- SET_AND_WAIT that the freezer interrupts starts from its beginning and sets an alarm again that may have been cleared.
- SET_RTC while no file has claimed the device leaves TIME_CHANGE pending with nobody to fetch it, and every suspend is
  refused from then on.
- `current_rtc_time`, to which a failed SET_RTC goes back, is read before the mutex is taken (`alarm.c:196`), and may be old.

Ashmem, without runs of their own:

- SET_SIZE takes a size of zero; in its race with a mapping an UNPIN of such an area makes a range that ends before its first page
  (excluded by an assumption).
- `set_prot_mask` says that protection bits can only be removed (`ashmem.c:324`), and adds PROT_EXEC for a process
  with READ_IMPLIES_EXEC.
- `range_alloc` allocates with GFP_KERNEL under `ashmem_mutex`, and `ashmem_shrink`, which memory reclaim calls, takes it.

Frame buffer, without runs of their own: any process that reads `wait_for_fb_wake`, which is mode 0444, answers for the one that draws
(`fbearlysuspend.c:89`), and the display goes dark under it.  `wait_for_fb_wake` answers a request only where a read begins.  A reader that sleeps through a resume and
a new request in quick succession never answers the second, and the handler waits its full second, although nobody
draws.  With several drawing processes the handler waits only for the first that answers.

## What is not modelled

- Of the logger: tags, priorities and enable switches (so a filtered write is a write that does not
  happen); poll and length queries, which change nothing; the copy to user space, which may fail after the entry is
  taken; pids and times.
- Of power management: `pm_test`, `pm_trace`, hibernation, the console client of early
  suspend (not built), counters and times of the statistics, `/proc/wakelocks`.  A re-initialization of a lock that is
  still on a list is excluded.
- Of the alarm: alarms on system time (`ANDROID_ALARM_SYSTEMTIME`), which neither SET_RTC nor suspend touches; the
  registration of the devices; the encoding of time in calls to the modem; a second thread that waits for the mutex of SET_RTC.
- Of ashmem: names, protection bits, mappings and the backing file, sizes that are no multiple of a page.
- Of the freezer: tasks that are created or exit during a scan (the list of tasks is fixed), messages.
- Whole components: see `components` in `PROJECT.json`, each with its reason; upstream Linux is third-party
  code here.

## Plan

In this order; each item is a module with its run, and proofs where named.

1. Done: power management (`WakeLock`, `SystemSuspend`, `EarlySuspend`, `PowerManagement`) with proofs;
   `Freezer` with proofs; `LogQueue`, `Logger`, `LoggerReaders`; `UserWakeLock`; `Alarm`; `AshmemPages`, `Ashmem`;
   `FbEarlySuspend`.
2. Done: proofs of all safety properties and refinements of these.
3. `ProcComm` and `RemoteSpinlock`: the mailbox protocol with the modem; abstract specification: a command
   is executed once and answered once.
4. `SmdChannel`: the open/close handshake and FIFO of one SMD channel, against an abstract pair of
   byte queues; `RpcQuota`: the confirm protocol of the RPC router over it.
5. `BinderRefs`: reference counts of nodes under process death; `BinderTransactions`: the stacks of nested calls.
6. The `pmem` bitmap and buddy allocators as pure algorithms against reference definitions.

The tags of the logger were considered and left out: the code takes no lock that would keep a tag from missing a change
of priority, and nothing in the repository promises that it does not.

Bounds planned for these: two processors and FIFOs of 4 bytes for SMD, regions of at most 6 pages for the allocators.
