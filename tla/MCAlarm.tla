------------------------------ MODULE MCAlarm -------------------------------
(***************************************************************************)
(* Small instances of Alarm: a wakeup alarm on the wall clock and one on   *)
(* elapsed realtime, two ticks to a second, so that the RTC is off by a    *)
(* tick half of the time.                                                  *)
(***************************************************************************)
EXTENDS Alarm, TLC

MCTimes == 0 :> {9} @@ 2 :> {4}
MCTimesLive == 1 :> {7} @@ 2 :> {4}
MCWait == {<<2, 4>>}

(* An odd jump of the wall clock: it is then not in step with the RTC. *)
MCJumps == {3}
MCJumpsBoth == {3, -3}
=============================================================================
