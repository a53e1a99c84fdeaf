----------------------------- MODULE LogQueue -------------------------------
(***************************************************************************)
(* What a log of the Android logger promises, without offsets and without  *)
(* a ring buffer: every open reader has a queue of entries it has not read *)
(* yet.  A write appends to all queues.  When space is short it may first  *)
(* drop the oldest entries of a queue, and says so in overrun.  Entries    *)
(* dropped for readers to come are reported only while nobody reads.       *)
(***************************************************************************)
EXTENDS Integers, Sequences

CONSTANTS
  Readers,    \* open files, each with its own queue
  Payloads,   \* what can be written: sequences, of which only Len matters
  HeaderLen,  \* space that an entry takes besides its payload
  Size        \* space there is

VARIABLES
  open,       \* readers that are open
  queue,      \* queue[r]: entries that r has not read
  backlog,    \* entries that a new reader would get
  overrun     \* some reader lost entries since this was last asked for

lqvars == <<open, queue, backlog, overrun>>

EntryLen(e) == HeaderLen + Len(e)

(* The space that the entries of q take. *)
Space(q) ==
  LET used[n \in 0 .. Len(q)] ==
        IF n = 0 THEN 0 ELSE EntryLen(q[n]) + used[n - 1]
  IN  used[Len(q)]

(* What q may be after entry e is written. *)
Appended(q, e) ==
  {Append(SubSeq(q, n + 1, Len(q)), e) :
     n \in {m \in 0 .. Len(q) : m > 0 => Space(q) + EntryLen(e) >= Size}}

Write(e) ==
  /\ backlog' \in Appended(backlog, e)
  /\ \A r \in Readers : IF r \in open THEN queue'[r] \in Appended(queue[r], e)
                                      ELSE queue'[r] = <<>>
  /\ DOMAIN queue' = Readers
  /\ overrun' = \/ overrun
                \/ \E r \in open : Len(queue'[r]) <= Len(queue[r])
                \/ open = {} /\ Len(backlog') <= Len(backlog)
  /\ UNCHANGED open

(* A read takes exactly one entry, the oldest. *)
Read(r) ==
  /\ r \in open
  /\ queue[r] # <<>>
  /\ queue' = [queue EXCEPT ![r] = Tail(@)]
  /\ UNCHANGED <<open, backlog, overrun>>

Open(r) ==
  /\ r \notin open
  /\ open' = open \cup {r}
  /\ queue' = [queue EXCEPT ![r] = backlog]
  /\ UNCHANGED <<backlog, overrun>>

Close(r) ==
  /\ r \in open
  /\ open' = open \ {r}
  /\ queue' = [queue EXCEPT ![r] = <<>>]
  /\ UNCHANGED <<backlog, overrun>>

Flush ==
  /\ queue' = [r \in Readers |-> <<>>]
  /\ backlog' = <<>>
  /\ UNCHANGED <<open, overrun>>

AskOverrun ==
  /\ overrun' = FALSE
  /\ UNCHANGED <<open, queue, backlog>>

LQInit ==
  /\ open = {}
  /\ queue = [r \in Readers |-> <<>>]
  /\ backlog = <<>>
  /\ overrun = FALSE

LQNext ==
  \/ \E e \in Payloads : Write(e)
  \/ \E r \in Readers : Read(r) \/ Open(r) \/ Close(r)
  \/ Flush \/ AskOverrun

LQSpec == LQInit /\ [][LQNext]_lqvars
=============================================================================
