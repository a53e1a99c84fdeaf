--------------------------- MODULE FbEarlySuspend ---------------------------
(***************************************************************************)
(* How the kernel asks user space to stop drawing before the display goes  *)
(* off, kernel/kernel/power/fbearlysuspend.c.  Its handler is one of those *)
(* that EarlySuspend calls; as HandlersFollowState there shows, the calls  *)
(* to suspend and to resume alternate.                                     *)
(*                                                                         *)
(* The drawing process reads wait_for_fb_sleep, stops drawing, reads       *)
(* wait_for_fb_wake and draws again.  Both files can be read by anybody;   *)
(* others may watch wait_for_fb_sleep, or read wait_for_fb_wake as well.   *)
(* A task that is frozen is interrupted in its wait and reads again when   *)
(* it is thawed, before the handler is called again.                       *)
(***************************************************************************)
CONSTANTS
  drawer,     \* the process that draws
  Watchers,   \* other processes, which read wait_for_fb_sleep
  WakeReaders \* those of them that read wait_for_fb_wake too

ASSUME FbAssumption == drawer \notin Watchers /\ WakeReaders \subseteq Watchers

Clients == Watchers \cup {drawer}

VARIABLES
  fb_state,   \* "DRAWING_OK", "REQUEST_STOP_DRAWING" or "STOPPED_DRAWING"
  worker,     \* the work queue thread: display "on", "waiting" or "off"
  timed_out,  \* the last wait for user space ended with the warning
  client,     \* client[c]: "user", or where it waits: "sleep" or "wake"
  draws,      \* the drawer has not been told to stop
  woken,      \* tasks that are to look at fb_state again, also to begin with
  stranger    \* history: another process has answered for the drawer

vars == <<fb_state, worker, timed_out, client, draws, woken, stranger>>

Tasks == Clients \cup {"worker"}

(* A planted bug: nobody is woken. *)
wake_up_nobody == woken

(* wake_up and wake_up_all: no task waits exclusively, so all are woken. *)
wake_up == Tasks

(* A planted bug: that user space was asked is taken for its answer. *)
Stopped_requested == fb_state # "DRAWING_OK"

Stopped == fb_state = "STOPPED_DRAWING"

-----------------------------------------------------------------------------
(* stop_drawing_early_suspend asks and waits for a second at most. *)
stop_drawing_early_suspend ==
  /\ worker = "on" /\ worker' = "waiting"
  /\ fb_state' = "REQUEST_STOP_DRAWING"
  /\ woken' = wake_up
  /\ stranger' = FALSE
  /\ UNCHANGED <<timed_out, client, draws>>

(* It goes on waiting, *)
wait_on ==
  /\ worker = "waiting" /\ "worker" \in woken /\ ~Stopped
  /\ woken' = woken \ {"worker"}
  /\ UNCHANGED <<fb_state, worker, timed_out, client, draws, stranger>>

(* or sees the answer, or the time is up. *)
wait_ends ==
  /\ worker = "waiting" /\ "worker" \in woken /\ Stopped
  /\ worker' = "off" /\ timed_out' = FALSE
  /\ UNCHANGED <<fb_state, client, draws, woken, stranger>>

wait_times_out ==
  /\ worker = "waiting" /\ worker' = "off"
  /\ timed_out' = ~Stopped
  /\ UNCHANGED <<fb_state, client, draws, woken, stranger>>

start_drawing_late_resume ==
  /\ worker = "off" /\ worker' = "on"
  /\ fb_state' = "DRAWING_OK"
  /\ woken' = wake_up
  /\ UNCHANGED <<timed_out, client, draws, stranger>>

-----------------------------------------------------------------------------
(* wait_for_fb_sleep_show begins, *)
read_sleep(c) ==
  /\ client[c] = "user" /\ (c = drawer => draws)
  /\ client' = [client EXCEPT ![c] = "sleep"]
  /\ woken' = woken \cup {c}
  /\ UNCHANGED <<fb_state, worker, timed_out, draws, stranger>>

(* and looks.  With a signal, which the freezer sends too, it ends either  *)
(* way, and without an answer only while drawing is allowed.               *)
sleep_show(c) ==
  /\ client[c] = "sleep"
  /\ \/ /\ c \in woken /\ fb_state = "DRAWING_OK"
        /\ woken' = woken \ {c}
        /\ UNCHANGED <<client, draws>>
     \/ /\ c \in woken /\ fb_state # "DRAWING_OK"
        /\ client' = [client EXCEPT ![c] = "user"]
        /\ draws' = (draws /\ c # drawer)
        /\ UNCHANGED woken
  /\ UNCHANGED <<fb_state, worker, timed_out, stranger>>

sleep_interrupted(c) ==
  /\ client[c] = "sleep"
  /\ client' = [client EXCEPT ![c] = "user"]
  /\ draws' = (draws /\ (c # drawer \/ fb_state = "DRAWING_OK"))
  /\ UNCHANGED <<fb_state, worker, timed_out, woken, stranger>>

(* wait_for_fb_wake_show begins; the drawer has stopped when it calls it.  *)
(* This is taken for the answer, whoever reads.                            *)
read_wake(c) ==
  /\ client[c] = "user" /\ (c = drawer => ~draws)
  /\ client' = [client EXCEPT ![c] = "wake"]
  /\ IF fb_state = "REQUEST_STOP_DRAWING"
     THEN /\ fb_state' = "STOPPED_DRAWING" /\ woken' = wake_up
          /\ stranger' = (c # drawer)
     ELSE UNCHANGED <<fb_state, stranger>> /\ woken' = woken \cup {c}
  /\ UNCHANGED <<worker, timed_out, draws>>

wake_show(c) ==
  /\ client[c] = "wake" /\ c \in woken
  /\ IF fb_state = "DRAWING_OK"
     THEN /\ client' = [client EXCEPT ![c] = "user"]
          /\ draws' = (draws \/ c = drawer) /\ UNCHANGED woken
     ELSE woken' = woken \ {c} /\ UNCHANGED <<client, draws>>
  /\ UNCHANGED <<fb_state, worker, timed_out, stranger>>

wake_interrupted(c) ==
  /\ client[c] = "wake"
  /\ client' = [client EXCEPT ![c] = "user"]
  /\ draws' = (draws \/ (c = drawer /\ fb_state = "DRAWING_OK"))
  /\ UNCHANGED <<fb_state, worker, timed_out, woken, stranger>>

-----------------------------------------------------------------------------
(* android_power_init *)
Init ==
  /\ fb_state = "DRAWING_OK" /\ worker = "on" /\ timed_out = FALSE
  /\ client = [c \in Clients |-> "user"] /\ draws = TRUE /\ woken = {}
  /\ stranger = FALSE

WorkerStep == wait_on \/ wait_ends \/ wait_times_out
DrawerStep ==
  \/ read_sleep(drawer) \/ sleep_show(drawer)
  \/ read_wake(drawer) \/ wake_show(drawer)

Next ==
  \/ stop_drawing_early_suspend \/ WorkerStep \/ start_drawing_late_resume
  \/ \E c \in Clients : read_sleep(c) \/ sleep_show(c) \/ sleep_interrupted(c)
  \/ \E c \in WakeReaders \cup {drawer} :
       read_wake(c) \/ wake_show(c) \/ wake_interrupted(c)

Spec == Init /\ [][Next]_vars

(* The wait of the kernel ends, at the latest with its time, and the       *)
(* drawing process runs.  Nobody has to ask for sleep or for wake-up, and  *)
(* no signal has to come.                                                  *)
FairSpec == Spec /\ WF_vars(WorkerStep) /\ WF_vars(DrawerStep)

-----------------------------------------------------------------------------
(* "tell userspace to stop drawing, wait for it to stop": when             *)
(* stop_drawing_early_suspend has ended without its warning, nobody draws  *)
(* until start_drawing_late_resume, not after signals, not when an answer  *)
(* to an earlier request comes late, and with others that read the files.  *)
(* What it asks is that it was not one of these whose read of              *)
(* wait_for_fb_wake was taken for the answer: then the drawer may go on.   *)
NoDrawingWhenOff == worker = "off" /\ ~timed_out /\ ~stranger => ~draws

(* The display does not stay dark: once drawing is allowed and stays so,   *)
(* the process draws, wherever in the exchange it was.                     *)
DrawingResumes == worker = "on" ~> draws \/ worker # "on"
=============================================================================
