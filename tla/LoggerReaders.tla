---------------------------- MODULE LoggerReaders ---------------------------
(***************************************************************************)
(* The list log->readers of kernel/drivers/staging/android/logger.c.       *)
(* logger_open adds to it under bufflock; logger_release takes a reader off*)
(* it without the lock, so that with CONFIG_PREEMPT other opens and        *)
(* releases can run between the memory accesses of its list_del.           *)
(***************************************************************************)
EXTENDS Integers, FiniteSets

CONSTANTS
  Readers,    \* struct logger_reader
  Head        \* the list head in struct logger_log, not a reader

VARIABLES
  next, prev,   \* the links of the list head and of the readers
  state,        \* state[r]: closed, open, or how far its list_del is
  near          \* near[r]: the neighbours that list_del has read

vars == <<next, prev, state, near>>

Nodes == Readers \cup {Head}

(* list_add_tail(&reader->list, &log->readers) under bufflock. *)
logger_open(r) ==
  /\ state[r] = "closed"
  /\ LET last == prev[Head]
     IN  /\ next' = [next EXCEPT ![r] = Head, ![last] = r]
         /\ prev' = [prev EXCEPT ![r] = last, ![Head] = r]
  /\ state' = [state EXCEPT ![r] = "open"]
  /\ UNCHANGED near

(* list_del: the two links are read ... *)
logger_release(r) ==
  /\ state[r] = "open"
  /\ near' = [near EXCEPT ![r] = <<prev[r], next[r]>>]
  /\ state' = [state EXCEPT ![r] = "read"]
  /\ UNCHANGED <<next, prev>>

(* ... next->prev is written ... *)
list_del_next(r) ==
  /\ state[r] = "read"
  /\ prev' = [prev EXCEPT ![near[r][2]] = near[r][1]]
  /\ state' = [state EXCEPT ![r] = "half"]
  /\ UNCHANGED <<next, near>>

(* ... and prev->next; kfree follows. *)
list_del_prev(r) ==
  /\ state[r] = "half"
  /\ next' = [next EXCEPT ![near[r][1]] = near[r][2]]
  /\ state' = [state EXCEPT ![r] = "closed"]
  /\ near' = [near EXCEPT ![r] = <<r, r>>]
  /\ UNCHANGED prev

Init ==
  /\ next = [n \in Nodes |-> n]
  /\ prev = [n \in Nodes |-> n]
  /\ state = [r \in Readers |-> "closed"]
  /\ near = [r \in Readers |-> <<r, r>>]

Next ==
  \E r \in Readers : \/ logger_open(r) \/ logger_release(r)
                     \/ list_del_next(r) \/ list_del_prev(r)

Spec == Init /\ [][Next]_vars

-----------------------------------------------------------------------------
(* The readers that fix_up_readers and flush_log reach from the list head. *)
Walked ==
  LET walk[n \in 0 .. Cardinality(Readers)] ==
        IF n = 0 THEN {next[Head]}
        ELSE walk[n - 1] \cup {next[m] : m \in walk[n - 1]}
  IN  walk[Cardinality(Readers)] \ {Head}

(* Whoever walks the list under bufflock meets every open reader and no    *)
(* reader that was freed: a reader that a write laps is always fixed up.   *)
OpenReadersAreListed ==
  /\ \A r \in Readers : state[r] = "open" => r \in Walked
  /\ \A r \in Walked : state[r] # "closed"
=============================================================================
