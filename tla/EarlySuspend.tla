---------------------------- MODULE EarlySuspend ----------------------------
(***************************************************************************)
(* Early suspend, kernel/kernel/power/earlysuspend.c: user space asks for  *)
(* "mem" or "on" through /sys/power/state, and two works on the same queue *)
(* as suspend_work call the registered handlers and release the main wake  *)
(* lock.                                                                   *)
(*                                                                         *)
(* The int state is its two bits, suspend_requested and suspended.  The    *)
(* mutex early_suspend_lock is held by the worker from the state check to  *)
(* the last handler call; registration is one step when it is free.        *)
(***************************************************************************)
EXTENDS SystemSuspend

CONSTANTS
  Handlers,     \* struct early_suspend of the drivers
  level         \* level[h]: the order in which handlers are called

ASSUME LevelAssumption == level \in [Handlers -> Nat]

VARIABLES
  suspend_requested,   \* state & SUSPEND_REQUESTED
  suspended,           \* state & SUSPENDED
  handlers,            \* the list early_suspend_handlers
  off,                 \* handlers whose suspend was called and resume not yet
  pos                  \* the loop variable of the two handler loops

esvars == <<suspend_requested, suspended, handlers, off, pos>>

EarlySteps == {"early_suspend", "early_calls", "early_final",
               "late_resume", "late_calls"}

(* The worker is inside the section protected by early_suspend_lock. *)
EarlySuspendLocked == worker \in {"early_calls", "late_calls"}

Registered == ToSet(handlers)

-----------------------------------------------------------------------------
(* A planted bug: before the first handler of a lower level. *)
Position_reversed(h) ==
  LET lower == {i \in 1 .. Len(handlers) : level[handlers[i]] < level[h]}
  IN  IF lower = {} THEN Len(handlers) + 1 ELSE Min(lower)

(* Where list_add_tail(&handler->link, pos) puts h: before the first       *)
(* handler of a higher level.                                              *)
Position(h) ==
  LET higher == {i \in 1 .. Len(handlers) : level[handlers[i]] > level[h]}
  IN  IF higher = {} THEN Len(handlers) + 1 ELSE Min(higher)

(* A planted bug: a late handler is not told that the system is suspended. *)
register_early_suspend_silent(h) ==
  /\ ~EarlySuspendLocked
  /\ h \notin Registered
  /\ handlers' = InsertAt(handlers, Position(h), h)
  /\ off' = off \ {h}
  /\ UNCHANGED <<wlvars, spvars, suspend_requested, suspended, pos>>

(* The driver registers a device that works: its probe function has just   *)
(* set it up, whatever an earlier registration left behind.                *)
register_early_suspend(h) ==
  /\ ~EarlySuspendLocked
  /\ h \notin Registered
  /\ handlers' = InsertAt(handlers, Position(h), h)
  /\ off' = IF suspended THEN off \cup {h} ELSE off \ {h}
  /\ UNCHANGED <<wlvars, spvars, suspend_requested, suspended, pos>>

(* The list is all that changes: a handler that is suspended stays so, and *)
(* late_resume will not call it.                                           *)
unregister_early_suspend(h) ==
  /\ ~EarlySuspendLocked
  /\ h \in Registered
  /\ \E n \in 1 .. Len(handlers) :
       /\ handlers[n] = h
       /\ handlers' = RemoveAt(handlers, n)
  /\ UNCHANGED <<wlvars, spvars, suspend_requested, suspended, off, pos>>

-----------------------------------------------------------------------------
(* The work early_suspend *)

early_suspend_state ==
  /\ worker = "early_suspend"
  /\ IF suspend_requested /\ ~suspended
     THEN suspended' = TRUE /\ pos' = 1 /\ goto("early_calls")
     ELSE UNCHANGED <<suspended, pos>> /\ goto("early_final")
  /\ UNCHANGED <<wlvars, requested_suspend_state, suspend_requested,
                 handlers, off>>

early_suspend_call ==
  /\ worker = "early_calls"
  /\ pos <= Len(handlers)
  /\ off' = off \cup {handlers[pos]}
  /\ pos' = pos + 1
  /\ UNCHANGED <<wlvars, spvars, suspend_requested, suspended, handlers>>

early_suspend_sync ==
  /\ worker = "early_calls"
  /\ pos > Len(handlers)
  /\ goto("early_final")
  /\ pos' = 0
  /\ UNCHANGED <<wlvars, requested_suspend_state, suspend_requested,
                 suspended, handlers, off>>

(* A planted bug: the state is not read again after the handlers ran. *)
early_suspend_final_stale ==
  /\ worker = "early_final"
  /\ goto("idle")
  /\ wake_unlock(main_wake_lock)
  /\ UNCHANGED <<requested_suspend_state, esvars>>

early_suspend_final ==
  /\ worker = "early_final"
  /\ goto("idle")
  /\ IF suspend_requested /\ suspended
     THEN wake_unlock(main_wake_lock)
     ELSE UNCHANGED wlvars
  /\ UNCHANGED <<requested_suspend_state, esvars>>

-----------------------------------------------------------------------------
(* The work late_resume *)

late_resume_state ==
  /\ worker = "late_resume"
  /\ IF suspended /\ ~suspend_requested
     THEN suspended' = FALSE /\ pos' = Len(handlers) /\ goto("late_calls")
     ELSE UNCHANGED <<suspended, pos>> /\ goto("idle")
  /\ UNCHANGED <<wlvars, requested_suspend_state, suspend_requested,
                 handlers, off>>

late_resume_call ==
  /\ worker = "late_calls"
  /\ pos > 0
  /\ off' = off \ {handlers[pos]}
  /\ pos' = pos - 1
  /\ UNCHANGED <<wlvars, spvars, suspend_requested, suspended, handlers>>

late_resume_done ==
  /\ worker = "late_calls"
  /\ pos = 0
  /\ goto("idle")
  /\ UNCHANGED <<wlvars, requested_suspend_state, esvars>>

-----------------------------------------------------------------------------
(* request_suspend_state(new_state), from a write to /sys/power/state.     *)
request_suspend_state(new_state) ==
  /\ requested_suspend_state' = new_state
  /\ \/ /\ ~suspend_requested /\ new_state # "on"
        /\ suspend_requested' = TRUE
        /\ queue_work("early_suspend_work")
        /\ UNCHANGED <<initialized, active, auto, left, preventing,
                       expire_timer, event, abandoned>>
     \/ /\ suspend_requested /\ new_state = "on"
        /\ suspend_requested' = FALSE
        /\ wake_lock(main_wake_lock)
        /\ UNCHANGED initialized
        /\ queue_work("late_resume_work")
     \/ /\ suspend_requested <=> new_state # "on"
        /\ UNCHANGED <<suspend_requested, wlvars>>
  /\ UNCHANGED <<worker, suspended, handlers, off, pos>>

EarlySuspendWork ==
  \/ early_suspend_state \/ early_suspend_call \/ early_suspend_sync
  \/ early_suspend_final
  \/ late_resume_state \/ late_resume_call \/ late_resume_done
=============================================================================
