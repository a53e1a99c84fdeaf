------------------------------- MODULE Logger -------------------------------
(***************************************************************************)
(* One log of the Android logger, kernel/drivers/staging/android/logger.c: *)
(* a ring buffer of variable-length entries, its readers and its writers.  *)
(*                                                                         *)
(* An offset counts cells instead of bytes.  The header of an entry takes  *)
(* one cell, which holds the length of the payload; the payload's cells    *)
(* hold numbers too, any that a __u16 may be, so that a header read at a   *)
(* wrong offset gives whatever is there, as in the code.                   *)
(*                                                                         *)
(* Everything done under the spinlock bufflock is one step.  logger_read   *)
(* takes it three times: to wait, to find the length of the next entry and *)
(* to copy the entry.                                                      *)
(***************************************************************************)
EXTENDS Integers, Sequences

CONSTANTS
  Size,         \* cells of the buffer
  MaxPayload,   \* LOGGER_ENTRY_MAX_PAYLOAD
  Cells,        \* what a cell of a payload may hold
  Readers,      \* struct logger_reader: files open for reading
  Threads,      \* threads that call read()
  file,         \* file[t]: the reader that thread t reads from
  Writers,      \* threads that write
  FlushAnytime  \* flush also while a read is under way

HeaderLen == 1
MaxLen == HeaderLen + MaxPayload

(* The comment on DEFINE_LOGGER_DEVICE asks for a size that is a power of  *)
(* two greater than LOGGER_ENTRY_MAX_LEN, which is itself one.             *)
ASSUME PowerOfTwo == Size \in {2^k : k \in 0 .. Size}

ASSUME LoggerAssumption ==
  /\ MaxPayload \in Nat \ {0}
  /\ Size \in Nat /\ Size >= 2 * MaxLen
  /\ Cells \subseteq Nat
  /\ file \in [Threads -> Readers]
  /\ FlushAnytime \in BOOLEAN

VARIABLES
  buffer,       \* log->buffer
  w_off,        \* log->w_off
  head,         \* log->head, where new readers start
  was_overrun,  \* log->was_overrun
  readers,      \* log->readers
  r_off,        \* reader->r_off
  fixed,        \* readers with reader->fixed
  at,           \* at[t]: where thread t is in logger_read
  count,        \* count[t]: the length it has found
  wq,           \* threads in TASK_INTERRUPTIBLE on log->wq
  waking        \* writers that have written and not yet woken the readers

logvars == <<buffer, w_off, head, was_overrun>>
filevars == <<readers, r_off, fixed>>
threadvars == <<at, count, wq>>
vars == <<logvars, filevars, threadvars, waking>>

Offsets == 0 .. Size - 1

(* A planted bug: the mask is the size, not one less. *)
logger_offset_wide(n) == n % (Size + 1)

logger_offset(n) == n % Size

(* A write of up to MaxPayload cells; all cells alike tells enough. *)
Payloads == {[i \in 1 .. n |-> c] : n \in 1 .. MaxPayload, c \in Cells}

-----------------------------------------------------------------------------
get_entry_len(off) == HeaderLen + buffer[off]

(* A planted bug: one entry is passed, however long the write is. *)
get_next_entry_once(off, len) == logger_offset(off + get_entry_len(off))

(* The offset of the first entry at least len cells after off. *)
get_next_entry(off, len) ==
  LET walk[passed \in 0 .. len - 1] ==
        LET nr == get_entry_len(logger_offset(off + passed))
        IN  IF passed + nr < len
            THEN walk[passed + nr]
            ELSE logger_offset(off + passed + nr)
  IN  walk[0]

(* A planted bug: an offset that the write just reaches is not crossed. *)
clock_interval_strict(a, b, c) ==
  IF b < a THEN a < c \/ b > c ELSE a < c /\ b > c

(* Does the line from a to b cross c?  The end b counts, the start does not.*)
clock_interval(a, b, c) ==
  IF b < a THEN a < c \/ b >= c ELSE a < c /\ b >= c

(* The readers and the head that a write of len cells laps. *)
Lapped(off, len) == clock_interval(w_off, logger_offset(w_off + len), off)

fix_up_readers(len) ==
  LET lapped == {r \in readers : Lapped(r_off[r], len)}
  IN  /\ head' = IF Lapped(head, len) THEN get_next_entry(head, len) ELSE head
      /\ r_off' = [r \in Readers |-> IF r \in lapped
                                     THEN get_next_entry(r_off[r], len)
                                     ELSE r_off[r]]
      /\ fixed' = fixed \cup lapped
      /\ was_overrun' = \/ was_overrun
                        \/ lapped # {}
                        \/ Lapped(head, len) /\ readers = {}

(* do_write_log of the header and of the payload, with wrap-around. *)
do_write_log(e) ==
  LET cells == <<Len(e)>> \o e
  IN  /\ buffer' = [off \in Offsets |->
                      LET i == logger_offset(off - w_off) + 1
                      IN  IF i <= Len(cells) THEN cells[i] ELSE buffer[off]]
      /\ w_off' = logger_offset(w_off + Len(cells))

(* write_log_entry_events and write_log_entry_mainradio, up to the unlock. *)
write_log_entry(w, e) ==
  /\ w \notin waking
  /\ fix_up_readers(HeaderLen + Len(e))
  /\ do_write_log(e)
  /\ waking' = waking \cup {w}
  /\ UNCHANGED <<readers, threadvars>>

(* A planted bug: nobody is woken. *)
wake_up_readers_not(w) ==
  /\ w \in waking
  /\ waking' = waking \ {w}
  /\ UNCHANGED <<logvars, filevars, threadvars>>

(* wake_up_interruptible(&log->wq) *)
wake_up_readers(w) ==
  /\ w \in waking
  /\ waking' = waking \ {w}
  /\ wq' = {}
  /\ UNCHANGED <<logvars, filevars, at, count>>

-----------------------------------------------------------------------------
(* logger_read *)

goto(t, place) == at' = [at EXCEPT ![t] = place]

Empty(t) == w_off = r_off[file[t]]

read_begin(t) ==
  /\ at[t] = "user"
  /\ file[t] \in readers
  /\ goto(t, "start")
  /\ UNCHANGED <<logvars, filevars, count, wq, waking>>

prepare_to_wait(t) ==
  /\ at[t] = "start"
  /\ wq' = wq \cup {t}
  /\ goto(t, "check")
  /\ UNCHANGED <<logvars, filevars, count, waking>>

(* Is there something to read?  If not, -EAGAIN without waiting, -EINTR    *)
(* for a signal, or schedule().                                            *)
read_check(t) ==
  /\ at[t] = "check"
  /\ \/ /\ ~Empty(t)
        /\ goto(t, "length")
        /\ wq' = wq \ {t}
     \/ /\ Empty(t)
        /\ goto(t, "user")
        /\ wq' = wq \ {t}
     \/ /\ Empty(t)
        /\ goto(t, "schedule")
        /\ UNCHANGED wq
  /\ UNCHANGED <<logvars, filevars, count, waking>>

(* A planted bug: TASK_INTERRUPTIBLE is set once more before schedule().   *)
schedule_blind(t) ==
  /\ at[t] = "schedule"
  /\ wq' = wq \cup {t}
  /\ UNCHANGED <<logvars, filevars, at, count, waking>>

(* schedule() returns once the thread is woken. *)
schedule(t) ==
  /\ at[t] = "schedule"
  /\ t \notin wq
  /\ goto(t, "start")
  /\ UNCHANGED <<logvars, filevars, count, wq, waking>>

(* A signal ends the sleep too. *)
signal(t) ==
  /\ at[t] = "schedule"
  /\ wq' = wq \ {t}
  /\ UNCHANGED <<logvars, filevars, at, count, waking>>

(* The second look, and the length of the next entry.  -EINVAL if the      *)
(* user's buffer is too small for it.                                      *)
read_length(t) ==
  /\ at[t] = "length"
  /\ IF Empty(t)
     THEN goto(t, "start") /\ UNCHANGED count
     ELSE \/ /\ goto(t, "copy")
             /\ count' = [count EXCEPT ![t] = get_entry_len(r_off[file[t]])]
          \/ goto(t, "user") /\ UNCHANGED count
  /\ UNCHANGED <<logvars, filevars, wq, waking>>

(* A planted bug: the length is taken from before the reader was fixed up. *)
CopyCount_stale(t) == count[t]

(* The number of cells that do_read_log_to_user copies. *)
CopyCount(t) ==
  IF file[t] \in fixed THEN get_entry_len(r_off[file[t]]) ELSE count[t]

(* The cells that it copies. *)
Copied(t) ==
  [i \in 1 .. CopyCount(t) |-> buffer[logger_offset(r_off[file[t]] + i - 1)]]

(* do_read_log_to_user; copy_to_user comes after the unlock and may fail,  *)
(* but the entry is taken all the same.                                    *)
do_read_log_to_user(t) ==
  /\ at[t] = "copy"
  /\ fixed' = fixed \ {file[t]}
  /\ r_off' = [r_off EXCEPT ![file[t]] = logger_offset(@ + CopyCount(t))]
  /\ count' = [count EXCEPT ![t] = 0]
  /\ goto(t, "user")
  /\ UNCHANGED <<logvars, readers, wq, waking>>

(* No memory for the temporary buffer. *)
read_nomem(t) ==
  /\ at[t] = "copy"
  /\ goto(t, "user")
  /\ count' = [count EXCEPT ![t] = 0]
  /\ UNCHANGED <<logvars, filevars, wq, waking>>

-----------------------------------------------------------------------------
(* Nobody is inside read() on the file of reader r. *)
Quiet(r) == \A t \in Threads : file[t] = r => at[t] = "user"

(* reader->fixed is not initialized. *)
logger_open(r) ==
  /\ r \notin readers
  /\ readers' = readers \cup {r}
  /\ r_off' = [r_off EXCEPT ![r] = head]
  /\ fixed' \in {fixed \cup {r}, fixed \ {r}}
  /\ UNCHANGED <<logvars, threadvars, waking>>

logger_release(r) ==
  /\ r \in readers
  /\ Quiet(r)
  /\ readers' = readers \ {r}
  /\ r_off' = [r_off EXCEPT ![r] = 0]
  /\ fixed' = fixed \ {r}
  /\ UNCHANGED <<logvars, threadvars, waking>>

(* LOGGER_FLUSH_LOG and the sysfs file flush. *)
flush_log ==
  /\ FlushAnytime \/ \A t \in Threads : at[t] # "copy"
  /\ r_off' = [r \in Readers |-> IF r \in readers THEN w_off ELSE r_off[r]]
  /\ head' = w_off
  /\ UNCHANGED <<buffer, w_off, was_overrun, readers, fixed, threadvars,
                 waking>>

show_global_was_overrun ==
  /\ was_overrun' = FALSE
  /\ UNCHANGED <<buffer, w_off, head, filevars, threadvars, waking>>

-----------------------------------------------------------------------------
Read(t) ==
  \/ prepare_to_wait(t) \/ read_check(t) \/ schedule(t) \/ read_length(t)
  \/ do_read_log_to_user(t)

Init ==
  /\ buffer = [off \in Offsets |-> 0]
  /\ w_off = 0
  /\ head = 0
  /\ was_overrun = FALSE
  /\ readers = {}
  /\ r_off = [r \in Readers |-> 0]
  /\ fixed = {}
  /\ at = [t \in Threads |-> "user"]
  /\ count = [t \in Threads |-> 0]
  /\ wq = {}
  /\ waking = {}

Next ==
  \/ \E w \in Writers : \/ \E e \in Payloads : write_log_entry(w, e)
                        \/ wake_up_readers(w)
  \/ \E t \in Threads : Read(t) \/ read_begin(t) \/ signal(t) \/ read_nomem(t)
  \/ \E r \in Readers : logger_open(r) \/ logger_release(r)
  \/ flush_log \/ show_global_was_overrun

Spec == Init /\ [][Next]_vars

(* Writers finish what they began and readers run; neither has to start.   *)
Fairness ==
  /\ \A w \in Writers : WF_vars(wake_up_readers(w))
  /\ \A t \in Threads : WF_vars(Read(t))

FairSpec == Spec /\ Fairness

-----------------------------------------------------------------------------
(* The entries from an offset to the write head, or a torn one at the end  *)
(* if the walk does not meet the write head.                               *)
Payload(off) ==
  [i \in 1 .. buffer[off] |-> buffer[logger_offset(off + i)]]

Unread(off) ==
  LET entries[rest \in Offsets] ==
        LET o == logger_offset(w_off - rest)
        IN  IF rest = 0 THEN <<>>
            ELSE IF get_entry_len(o) > rest THEN <<"torn">>
            ELSE <<Payload(o)>> \o entries[rest - get_entry_len(o)]
  IN  entries[logger_offset(w_off - off)]

Abstract ==
  INSTANCE LogQueue WITH
    open <- readers,
    queue <- [r \in Readers |-> IF r \in readers THEN Unread(r_off[r])
                                                 ELSE <<>>],
    backlog <- Unread(head),
    overrun <- was_overrun

(* The ring buffer implements the queues: no entry is lost, torn, repeated *)
(* or reordered except where the writer laps a reader, and then            *)
(* was_overrun says so.                                                    *)
ImplementsQueues == Abstract!LQSpec

(* Every variable has its type. *)
TypeOK ==
  /\ buffer \in [Offsets -> Nat]
  /\ w_off \in Offsets /\ head \in Offsets
  /\ was_overrun \in BOOLEAN
  /\ readers \subseteq Readers
  /\ r_off \in [Readers -> Offsets]
  /\ fixed \subseteq readers
  /\ at \in [Threads -> {"user", "start", "check", "schedule", "length",
                         "copy"}]
  /\ count \in [Threads -> Nat]
  /\ wq \subseteq Threads
  /\ waking \subseteq Writers

(* A read delivers one whole entry, the oldest unread one, also when the   *)
(* reader was lapped between the look at the length and the copy.          *)
ReadsOldestEntry ==
  [][\A t \in Threads :
       do_read_log_to_user(t) =>
         LET q == Unread(r_off[file[t]])
         IN  q # <<>> /\ Copied(t) = <<Len(q[1])>> \o q[1]]_vars

(* A read never copies more than temp_buf has room for, LOGGER_ENTRY_MAX_LEN:*)
(* no check in the code says so, only that each header it looks at is one. *)
CopyFits == \A t \in Threads : at[t] = "copy" => CopyCount(t) <= MaxLen

(* No wake-up is lost: a thread that sleeps although there is something to *)
(* read is about to be woken.                                              *)
NoLostWakeup ==
  \A t \in Threads :
    at[t] = "schedule" /\ t \in wq /\ ~Empty(t) => waking # {}

(* A read that has something to read ends, unless the log is flushed. *)
ReadEnds ==
  \A t \in Threads :
    (at[t] # "user" /\ ~Empty(t)) ~> (at[t] = "user" \/ Empty(t))

(* logger_read returns the length of the entry it has copied. *)
ReadReturnsLength ==
  [][\A t \in Threads : do_read_log_to_user(t) => Len(Copied(t)) = count[t]]_vars
=============================================================================
