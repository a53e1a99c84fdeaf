----------------------- MODULE FbEarlySuspend_proofs ------------------------
(***************************************************************************)
(* That nobody draws on a display that is off, for any number of processes *)
(* that read the two files, unless one of them has answered for the drawer.*)
(***************************************************************************)
EXTENDS FbEarlySuspend, TLAPS

(* Drawing is allowed exactly while the handler is not at work. *)
StateFollowsWorker == worker = "on" <=> fb_state = "DRAWING_OK"

(* An answer that is not a stranger's is given by a drawer that has        *)
(* stopped, and it does not begin again before it is allowed to.           *)
StoppedMeansStopped == Stopped /\ ~stranger => ~draws

(* Without the warning, the handler has ended because of the answer. *)
EndedByAnswer == worker = "off" => (timed_out \/ Stopped)

HandshakeInv == StateFollowsWorker /\ StoppedMeansStopped /\ EndedByAnswer

(* The initial state satisfies the invariant. *)
LEMMA HandshakeInit == Init => HandshakeInv
BY DEF Init, HandshakeInv, StateFollowsWorker, StoppedMeansStopped,
       EndedByAnswer, Stopped

(* The steps of the work queue thread keep the invariant: a wait that ends *)
(* with its time is marked unless the answer has come with it.             *)
LEMMA WorkerKeepsInv ==
  ASSUME HandshakeInv,
         stop_drawing_early_suspend \/ WorkerStep \/ start_drawing_late_resume
  PROVE  HandshakeInv'
<1> USE DEF HandshakeInv, StateFollowsWorker, StoppedMeansStopped,
            EndedByAnswer, Stopped
<1>1. CASE stop_drawing_early_suspend
  BY <1>1 DEF stop_drawing_early_suspend
<1>2. CASE wait_on
  BY <1>2 DEF wait_on
<1>3. CASE wait_ends
  BY <1>3 DEF wait_ends
<1>4. CASE wait_times_out
  BY <1>4 DEF wait_times_out
<1>5. CASE start_drawing_late_resume
  BY <1>5 DEF start_drawing_late_resume
<1> QED
  BY <1>1, <1>2, <1>3, <1>4, <1>5 DEF WorkerStep

(* A read of wait_for_fb_sleep only ever takes the permission to draw. *)
LEMMA SleepKeepsInv ==
  ASSUME HandshakeInv, NEW c,
         read_sleep(c) \/ sleep_show(c) \/ sleep_interrupted(c)
  PROVE  HandshakeInv'
<1> USE DEF HandshakeInv, StateFollowsWorker, StoppedMeansStopped,
            EndedByAnswer, Stopped
<1>1. CASE read_sleep(c)
  BY <1>1 DEF read_sleep
<1>2. CASE sleep_show(c)
  BY <1>2 DEF sleep_show
<1>3. CASE sleep_interrupted(c)
  BY <1>3 DEF sleep_interrupted
<1> QED
  BY <1>1, <1>2, <1>3

(* A read of wait_for_fb_wake answers while the drawer does not draw, and  *)
(* lets it draw again only when the state says so.                         *)
LEMMA WakeKeepsInv ==
  ASSUME HandshakeInv, NEW c,
         read_wake(c) \/ wake_show(c) \/ wake_interrupted(c)
  PROVE  HandshakeInv'
<1> USE DEF HandshakeInv, StateFollowsWorker, StoppedMeansStopped,
            EndedByAnswer, Stopped
<1>1. CASE read_wake(c)
  BY <1>1 DEF read_wake
<1>2. CASE wake_show(c)
  BY <1>2 DEF wake_show
<1>3. CASE wake_interrupted(c)
  BY <1>3 DEF wake_interrupted
<1> QED
  BY <1>1, <1>2, <1>3

(* Every step keeps the invariant. *)
LEMMA HandshakeStep == HandshakeInv /\ [Next]_vars => HandshakeInv'
<1> SUFFICES ASSUME HandshakeInv, [Next]_vars PROVE HandshakeInv'
  OBVIOUS
<1>1. CASE stop_drawing_early_suspend \/ WorkerStep \/ start_drawing_late_resume
  BY <1>1, WorkerKeepsInv
<1>2. CASE \E c \in Clients : read_sleep(c) \/ sleep_show(c) \/ sleep_interrupted(c)
  BY <1>2, SleepKeepsInv
<1>3. CASE \E c \in WakeReaders \cup {drawer} :
             read_wake(c) \/ wake_show(c) \/ wake_interrupted(c)
  BY <1>3, WakeKeepsInv
<1>5. CASE UNCHANGED vars
  BY <1>5 DEF vars, HandshakeInv, StateFollowsWorker, StoppedMeansStopped,
              EndedByAnswer, Stopped
<1> QED
  BY <1>1, <1>2, <1>3, <1>5 DEF Next

(* When stop_drawing_early_suspend has ended without its warning, nobody   *)
(* draws until start_drawing_late_resume, unless another process than the  *)
(* drawing one has read wait_for_fb_wake and so answered for it.           *)
THEOREM NoDrawingTheorem == Spec => []NoDrawingWhenOff
<1>1. HandshakeInv => NoDrawingWhenOff
  BY DEF HandshakeInv, StoppedMeansStopped, EndedByAnswer, NoDrawingWhenOff
<1> QED
  BY <1>1, HandshakeInit, HandshakeStep, PTL DEF Spec
=============================================================================
