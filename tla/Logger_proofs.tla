---------------------------- MODULE Logger_proofs ----------------------------
(***************************************************************************)
(* The ring buffer of the logger, for any size, entries, readers, writers  *)
(* and threads.  What is proved about recursive functions is proved by the *)
(* least argument for which it would fail.                                 *)
(***************************************************************************)
EXTENDS Logger, NaturalsInduction, WellFoundedInduction, SequenceTheorems, TLAPS

-----------------------------------------------------------------------------
(* Induction and offsets *)

(* A set of numbers that holds every number whose predecessors it holds.   *)
LEMMA Induction ==
  ASSUME NEW T, \A n \in Nat : (\A m \in Nat : m < n => m \in T) => n \in T
  PROVE  \A n \in Nat : n \in T
<1> DEFINE Bad == {n \in Nat : n \notin T}
<1> SUFFICES ASSUME Bad # {} PROVE FALSE
  OBVIOUS
<1>1. PICK n \in Bad : \A m \in Bad : ~(<<m, n>> \in OpToRel(<, Nat))
  BY NatLessThanWellFounded, WFMin
<1>2. \A i, j \in Nat : i < j => <<i, j>> \in OpToRel(<, Nat)
  BY DEF OpToRel
<1>3. \A m \in Bad : ~(m < n)
  BY <1>1, <1>2
<1> QED
  BY <1>1, <1>3

(* The same from above, for the numbers below len. *)
LEMMA InductionDown ==
  ASSUME NEW len \in Nat, NEW T,
         \A p \in 0 .. len - 1 :
           (\A q \in 0 .. len - 1 : q > p => q \in T) => p \in T
  PROVE  \A p \in 0 .. len - 1 : p \in T
<1> DEFINE S == {n \in Nat : n < len => len - 1 - n \in T}
<1>1. ASSUME NEW n \in Nat, \A m \in Nat : m < n => m \in S
      PROVE  n \in S
  <2> SUFFICES ASSUME n < len PROVE len - 1 - n \in T
    OBVIOUS
  <2>1. len - 1 - n \in 0 .. len - 1
    OBVIOUS
  <2>2. ASSUME NEW q \in 0 .. len - 1, q > len - 1 - n
        PROVE  q \in T
    <3>1. len - 1 - q \in Nat /\ len - 1 - q < n /\ len - 1 - q < len
      BY <2>2
    <3>2. len - 1 - q \in S
      BY <1>1, <3>1
    <3>3. len - 1 - (len - 1 - q) = q
      BY <3>1
    <3> QED
      BY <3>1, <3>2, <3>3
  <2> QED
    BY <2>1, <2>2
<1> HIDE DEF S
<1>2. \A n \in Nat : n \in S
  BY <1>1, Induction
<1> SUFFICES ASSUME NEW p \in 0 .. len - 1 PROVE p \in T
  OBVIOUS
<1>3. len - 1 - p \in Nat /\ len - 1 - p < len /\ len - 1 - (len - 1 - p) = p
  OBVIOUS
<1> QED
  BY <1>2, <1>3 DEF S

LEMMA SizeFacts ==
  /\ Size \in Nat /\ MaxPayload \in Nat /\ MaxPayload >= 1
  /\ MaxLen = 1 + MaxPayload /\ MaxLen \in Nat /\ Size >= 2 * MaxLen
BY LoggerAssumption DEF MaxLen, HeaderLen

(* What the mask does to a number at most one turn off. *)
LEMMA OffsetValue ==
  ASSUME NEW n \in Int
  PROVE  /\ logger_offset(n) \in Offsets
         /\ n \in 0 .. Size - 1 => logger_offset(n) = n
         /\ n \in Size .. 2 * Size - 1 => logger_offset(n) = n - Size
         /\ n \in -Size .. -1 => logger_offset(n) = n + Size
<1>1. Size \in Nat /\ Size > 0
  BY SizeFacts
<1>2. n = Size * (n \div Size) + (n % Size) /\ n % Size \in 0 .. Size - 1
  BY <1>1
<1>3. n \div Size \in Int
  BY <1>1
<1>4. ASSUME NEW q \in Int, NEW r \in 0 .. Size - 1, n = Size * q + r
      PROVE  /\ n \in 0 .. Size - 1 => r = n
             /\ n \in Size .. 2 * Size - 1 => r = n - Size
             /\ n \in -Size .. -1 => r = n + Size
  <2>1. q >= 2 => Size * q >= 2 * Size
    BY <1>1
  <2>2. q <= -2 => Size * q <= - 2 * Size
    BY <1>1
  <2>3. q = 1 => Size * q = Size
    BY <1>1
  <2>4. q = -1 => Size * q = -Size
    BY <1>1
  <2>5. q = 0 => Size * q = 0
    BY <1>1
  <2>6. Size * q \in Int
    BY <1>1
  <2> QED
    BY <1>1, <1>4, <2>1, <2>2, <2>3, <2>4, <2>5, <2>6
<1> QED
  BY <1>1, <1>2, <1>3, <1>4 DEF logger_offset, Offsets

(* What is in the buffer, as far as lengths go. *)
BufferOK == buffer \in [Offsets -> Nat]

LEMMA EntryLen ==
  ASSUME BufferOK, NEW off \in Offsets
  PROVE  /\ get_entry_len(off) \in Nat /\ get_entry_len(off) >= 1
         /\ get_entry_len(off) = 1 + buffer[off]
         /\ buffer[off] \in Nat
BY SizeFacts DEF BufferOK, get_entry_len, HeaderLen

-----------------------------------------------------------------------------
(* get_next_entry *)

(* The length of the entry p cells after off, where there is one. *)
Hop(off, p) == get_entry_len(logger_offset(off + p))

WalkStep(off, len, f, p) ==
  IF p + Hop(off, p) < len THEN f[p + Hop(off, p)]
  ELSE logger_offset(off + p + Hop(off, p))

(* f is the walk of get_next_entry. *)
IsWalk(off, len, f) == f = [p \in 0 .. len - 1 |-> WalkStep(off, len, f, p)]

LEMMA HopType ==
  ASSUME BufferOK, NEW off \in Int, NEW p \in Int
  PROVE  Hop(off, p) \in Nat /\ Hop(off, p) >= 1
<1>1. logger_offset(off + p) \in Offsets
  BY OffsetValue
<1> QED
  BY <1>1, EntryLen, SizeFacts DEF Hop

(* There is one: built from the end of what it has to pass. *)
LEMMA WalkExists ==
  ASSUME BufferOK, NEW off \in Offsets, NEW len \in Nat
  PROVE  \E f : IsWalk(off, len, f)
<1> DEFINE P == 0 .. len - 1
           Upto(n, f) == \A p \in P : p >= len - n => f[p] = WalkStep(off, len, f, p)
           T == {n \in Nat : n <= len => \E f \in [P -> Offsets] : Upto(n, f)}
<1>1. off \in Int
  BY SizeFacts DEF Offsets
<1>2. ASSUME NEW n \in Nat, \A m \in Nat : m < n => m \in T
      PROVE  n \in T
  <2> SUFFICES ASSUME n <= len PROVE \E f \in [P -> Offsets] : Upto(n, f)
    OBVIOUS
  <2>1. CASE n = 0
    <3>1. [p \in P |-> 0] \in [P -> Offsets]
      BY SizeFacts DEF Offsets
    <3>2. Upto(n, [p \in P |-> 0])
      BY <2>1
    <3> QED
      BY <3>1, <3>2
  <2>2. CASE n # 0
    <3>1. n - 1 \in Nat /\ n - 1 < n /\ n - 1 <= len
      BY <2>2
    <3>2. PICK f \in [P -> Offsets] : Upto(n - 1, f)
      BY <1>2, <3>1
    <3> DEFINE k == len - n
               v == WalkStep(off, len, f, k)
               g == [f EXCEPT ![k] = v]
    <3>3. k \in P
      BY <2>2
    <3>4. v \in Offsets
      <4>0. k \in Int
        OBVIOUS
      <4>1. Hop(off, k) \in Nat /\ Hop(off, k) >= 1
        BY <1>1, <4>0, HopType
      <4>2. logger_offset(off + k + Hop(off, k)) \in Offsets
        BY <1>1, <3>3, <4>1, OffsetValue
      <4> HIDE DEF k
      <4> QED
        BY <3>3, <4>1, <4>2 DEF WalkStep
    <3>5. g \in [P -> Offsets]
      BY <3>3, <3>4
    <3>6. ASSUME NEW p \in P, p >= len - n
          PROVE  g[p] = WalkStep(off, len, g, p)
      <4>0. p \in Int
        OBVIOUS
      <4>1. Hop(off, p) \in Nat /\ Hop(off, p) >= 1
        BY <1>1, <4>0, HopType
      <4>2. WalkStep(off, len, g, p) = WalkStep(off, len, f, p)
        <5>1. p + Hop(off, p) < len => p + Hop(off, p) \in P /\ p + Hop(off, p) # k
          BY <3>6, <4>1
        <5> HIDE DEF k, v
        <5> QED
          BY <5>1 DEF WalkStep
      <4>3. CASE p = k
        <5> HIDE DEF k, v
        <5>1. g[p] = v
          BY <4>3, <3>3
        <5> QED
          BY <4>2, <4>3, <5>1 DEF v
      <4>4. CASE p # k
        <5>1. p >= len - (n - 1)
          BY <3>6, <4>4
        <5>2. f[p] = WalkStep(off, len, f, p)
          BY <3>2, <5>1
        <5>3. g[p] = f[p]
          BY <4>4
        <5> QED
          BY <4>2, <5>2, <5>3
      <4> QED
        BY <4>3, <4>4
    <3> QED
      BY <3>5, <3>6
  <2> QED
    BY <2>1, <2>2
<1>3. \A n \in Nat : n \in T
  <2> HIDE DEF T
  <2> QED
    BY <1>2, Induction
<1>4. PICK f \in [P -> Offsets] : Upto(len, f)
  BY <1>3
<1>5. \A p \in P : f[p] = WalkStep(off, len, f, p)
  BY <1>4
<1>6. f = [p \in P |-> f[p]]
  OBVIOUS
<1>7. f = [p \in P |-> WalkStep(off, len, f, p)]
  BY <1>5, <1>6
<1> QED
  BY <1>7 DEF IsWalk

LEMMA NextEntryIsWalk ==
  ASSUME BufferOK, NEW off \in Offsets, NEW len \in Nat
  PROVE  \E f : IsWalk(off, len, f) /\ get_next_entry(off, len) = f[0]
<1> DEFINE W == CHOOSE f : IsWalk(off, len, f)
<1>1. IsWalk(off, len, W)
  BY WalkExists
<1>2. get_next_entry(off, len) = W[0]
  BY DEF get_next_entry, IsWalk, WalkStep, Hop
<1> QED
  BY <1>1, <1>2

(* Wherever it starts it ends at an offset. *)
LEMMA NextEntryType ==
  ASSUME BufferOK, NEW off \in Offsets, NEW len \in Nat, len > 0
  PROVE  get_next_entry(off, len) \in Offsets
<1>1. PICK f : IsWalk(off, len, f) /\ get_next_entry(off, len) = f[0]
  BY NextEntryIsWalk
<1> DEFINE T == {p \in 0 .. len - 1 : f[p] \in Offsets}
<1>2. off \in Int
  BY SizeFacts DEF Offsets
<1>3. ASSUME NEW p \in 0 .. len - 1,
             \A q \in 0 .. len - 1 : q > p => q \in T
      PROVE  p \in T
  <2>0. p \in Int
    OBVIOUS
  <2>1. Hop(off, p) \in Nat /\ Hop(off, p) >= 1
    BY <1>2, <2>0, HopType
  <2>2. logger_offset(off + p + Hop(off, p)) \in Offsets
    BY <1>2, <2>1, OffsetValue
  <2>3. f[p] = WalkStep(off, len, f, p)
    BY <1>1 DEF IsWalk
  <2>4. p + Hop(off, p) < len => f[p + Hop(off, p)] \in Offsets
    BY <1>3, <2>1
  <2> QED
    BY <2>2, <2>3, <2>4 DEF WalkStep
<1>4. \A p \in 0 .. len - 1 : p \in T
  <2> HIDE DEF T
  <2> QED
    BY <1>3, InductionDown
<1>5. 0 \in 0 .. len - 1
  OBVIOUS
<1> QED
  BY <1>1, <1>4, <1>5

-----------------------------------------------------------------------------
(* Types *)

(* What a thread does in logger_read, but for the copy. *)
Waits(t) ==
  \/ read_begin(t) \/ prepare_to_wait(t) \/ read_check(t) \/ schedule(t)
  \/ signal(t) \/ read_length(t) \/ read_nomem(t)

(* What is done to the log as a whole, besides writing. *)
LogStep == flush_log \/ show_global_was_overrun

LEMMA Steps ==
  ASSUME [Next]_vars
  PROVE  \/ \E w \in Writers, e \in Payloads : write_log_entry(w, e)
         \/ \E w \in Writers : wake_up_readers(w)
         \/ \E t \in Threads : Waits(t) \/ do_read_log_to_user(t)
         \/ \E r \in Readers : logger_open(r) \/ logger_release(r)
         \/ LogStep \/ UNCHANGED vars
BY DEF Next, Read, Waits, LogStep

(* A payload, and what is written for it. *)
LEMMA PayloadType ==
  ASSUME NEW e \in Payloads
  PROVE  /\ Len(e) \in 1 .. MaxPayload /\ e \in Seq(Nat)
         /\ Len(<<Len(e)>> \o e) = 1 + Len(e)
         /\ (<<Len(e)>> \o e)[1] = Len(e)
         /\ \A i \in 1 .. Len(e) : /\ (<<Len(e)>> \o e)[1 + i] = e[i]
                                   /\ e[i] \in Nat
<1>1. PICK n \in 1 .. MaxPayload, c \in Cells : e = [i \in 1 .. n |-> c]
  BY DEF Payloads
<1>2. c \in Nat /\ n \in Nat
  BY SizeFacts, LoggerAssumption
<1>3. e \in Seq(Nat)
  BY <1>1, <1>2
<1>4. Len(e) = n
  BY <1>1, <1>2
<1>5. \A i \in 1 .. n : e[i] = c
  BY <1>1
<1> QED
  BY <1>2, <1>3, <1>4, <1>5

(* The cells after a write: those from the write head on are the entry's. *)
LEMMA WrittenCells ==
  ASSUME BufferOK, w_off \in Offsets, NEW e \in Payloads, do_write_log(e)
  PROVE  /\ BufferOK'
         /\ w_off' = logger_offset(w_off + 1 + Len(e)) /\ w_off' \in Offsets
         /\ \A off \in Offsets :
              LET i == logger_offset(off - w_off)
              IN  /\ i = 0 => buffer'[off] = Len(e)
                  /\ i \in 1 .. Len(e) => buffer'[off] = e[i]
                  /\ i > Len(e) => buffer'[off] = buffer[off]
<1> DEFINE cells == <<Len(e)>> \o e
           at_(off) == logger_offset(off - w_off)
<1>1. /\ Len(e) \in 1 .. MaxPayload /\ Len(cells) = 1 + Len(e)
      /\ cells[1] = Len(e)
      /\ \A i \in 1 .. Len(e) : cells[1 + i] = e[i] /\ e[i] \in Nat
  BY PayloadType
<1>2. w_off' = logger_offset(w_off + Len(cells))
  BY DEF do_write_log
<1>3. /\ DOMAIN buffer' = Offsets
      /\ \A off \in Offsets :
           buffer'[off] = IF at_(off) + 1 <= Len(cells) THEN cells[at_(off) + 1]
                          ELSE buffer[off]
  BY DEF do_write_log
<1>4. buffer' = [off \in Offsets |-> buffer'[off]]
  BY DEF do_write_log
<1>5. w_off \in Int /\ MaxPayload \in Nat /\ Size \in Nat
  BY SizeFacts DEF Offsets
<1>6. w_off + 1 + Len(e) = w_off + Len(cells) /\ w_off + 1 + Len(e) \in Int
  BY <1>1, <1>5
<1>7. w_off' \in Offsets
  BY <1>2, <1>6, OffsetValue
<1> HIDE DEF cells
<1>8. ASSUME NEW off \in Offsets
      PROVE  /\ at_(off) = 0 => buffer'[off] = Len(e)
             /\ at_(off) \in 1 .. Len(e) => buffer'[off] = e[at_(off)]
             /\ at_(off) > Len(e) => buffer'[off] = buffer[off]
             /\ buffer'[off] \in Nat
  <2>1. off \in Int /\ off - w_off \in Int
    BY <1>5 DEF Offsets
  <2>2. at_(off) \in Offsets
    BY <2>1, OffsetValue
  <2>3. at_(off) \in Nat
    BY <2>2, SizeFacts DEF Offsets
  <2>4. buffer[off] \in Nat
    BY DEF BufferOK
  <2> HIDE DEF at_
  <2>5. CASE at_(off) = 0
    BY <1>1, <1>3, <1>5, <2>3, <2>5
  <2>6. CASE at_(off) \in 1 .. Len(e)
    <3>1. at_(off) + 1 <= Len(cells) /\ at_(off) + 1 = 1 + at_(off)
      BY <1>1, <2>3, <2>6
    <3>2. buffer'[off] = e[at_(off)]
      BY <1>1, <1>3, <2>6, <3>1
    <3> QED
      BY <1>1, <2>3, <2>6, <3>2
  <2>7. CASE at_(off) > Len(e)
    BY <1>1, <1>3, <1>5, <2>3, <2>4, <2>7
  <2> QED
    BY <1>1, <2>3, <2>5, <2>6, <2>7
<1>9. BufferOK'
  <2>1. \A off \in Offsets : buffer'[off] \in Nat
    BY <1>8
  <2>2. buffer' \in [Offsets -> Nat]
    BY <1>4, <2>1
  <2> QED
    BY <2>2 DEF BufferOK, Offsets
<1> QED
  BY <1>2, <1>6, <1>7, <1>8, <1>9

LEMMA WriteTypes ==
  ASSUME TypeOK, NEW w \in Writers, NEW e \in Payloads, write_log_entry(w, e)
  PROVE  TypeOK'
<1>1. BufferOK /\ w_off \in Offsets
  BY DEF TypeOK, BufferOK
<1>2. fix_up_readers(HeaderLen + Len(e)) /\ do_write_log(e)
  BY DEF write_log_entry
<1>3. BufferOK' /\ w_off' \in Offsets
  BY <1>1, <1>2, WrittenCells
<1> DEFINE len == HeaderLen + Len(e)
<1>4. len \in Nat /\ len > 0
  BY PayloadType, SizeFacts DEF HeaderLen
<1> HIDE DEF len
<1>5. \A off \in Offsets : get_next_entry(off, len) \in Offsets
  BY <1>1, <1>4, NextEntryType
<1>6. fix_up_readers(len)
  BY <1>2 DEF len
<1>7. head' \in Offsets
  BY <1>5, <1>6 DEF TypeOK, fix_up_readers
<1>8. r_off' \in [Readers -> Offsets]
  BY <1>5, <1>6 DEF TypeOK, fix_up_readers
<1>9. fixed' \subseteq readers
  BY <1>6 DEF TypeOK, fix_up_readers
<1>10. was_overrun' \in BOOLEAN
  BY <1>6, Zenon DEF fix_up_readers
<1>11. /\ waking' \subseteq Writers
       /\ UNCHANGED <<readers, threadvars>>
  BY DEF TypeOK, write_log_entry
<1> QED
  BY <1>3, <1>7, <1>8, <1>9, <1>10, <1>11
     DEF TypeOK, threadvars, BufferOK, Offsets

LEMMA WaitTypes ==
  ASSUME TypeOK, NEW t \in Threads, Waits(t)
  PROVE  TypeOK'
<1>0. get_entry_len(r_off[file[t]]) \in Nat
  <2>1. r_off[file[t]] \in Offsets /\ BufferOK
    BY LoggerAssumption DEF TypeOK, BufferOK
  <2> QED
    BY <2>1, EntryLen, SizeFacts
<1> USE DEF TypeOK, logvars, filevars, threadvars, goto, Offsets
<1>1. CASE read_begin(t)
  BY <1>1 DEF read_begin
<1>2. CASE prepare_to_wait(t)
  BY <1>2 DEF prepare_to_wait
<1>3. CASE read_check(t)
  BY <1>3 DEF read_check
<1>4. CASE schedule(t)
  BY <1>4 DEF schedule
<1>5. CASE signal(t)
  BY <1>5 DEF signal
<1>6. CASE read_length(t)
  <2>1. count' \in [Threads -> Nat]
    BY <1>0, <1>6 DEF read_length
  <2>2. /\ at' \in [Threads -> {"user", "start", "check", "schedule", "length",
                                "copy"}]
        /\ UNCHANGED <<logvars, filevars, wq, waking>>
    BY <1>6 DEF read_length
  <2> QED
    BY <2>1, <2>2
<1>7. CASE read_nomem(t)
  BY <1>7, SizeFacts DEF read_nomem
<1> QED
  BY <1>1, <1>2, <1>3, <1>4, <1>5, <1>6, <1>7 DEF Waits

LEMMA CopyTypes ==
  ASSUME TypeOK, NEW t \in Threads, do_read_log_to_user(t)
  PROVE  TypeOK' /\ CopyCount(t) \in Nat
<1>1. file[t] \in Readers /\ r_off[file[t]] \in Offsets /\ r_off \in [Readers -> Offsets]
  BY LoggerAssumption DEF TypeOK
<1>2. CopyCount(t) \in Nat
  BY <1>1, EntryLen, SizeFacts DEF TypeOK, CopyCount, BufferOK
<1>3. r_off[file[t]] + CopyCount(t) \in Int
  BY <1>1, <1>2, SizeFacts DEF Offsets
<1>4. logger_offset(r_off[file[t]] + CopyCount(t)) \in Offsets
  BY <1>3, OffsetValue
<1>5. r_off' \in [Readers -> Offsets]
  BY <1>1, <1>4 DEF do_read_log_to_user
<1>6. /\ fixed' \subseteq fixed /\ count' = [count EXCEPT ![t] = 0]
      /\ at' = [at EXCEPT ![t] = "user"]
      /\ UNCHANGED <<logvars, readers, wq, waking>>
  BY DEF do_read_log_to_user, goto
<1>7. TypeOK'
  BY <1>5, <1>6, SizeFacts DEF TypeOK, logvars, Offsets
<1> QED
  BY <1>2, <1>7

LEMMA FileTypes ==
  ASSUME TypeOK, NEW r \in Readers, logger_open(r) \/ logger_release(r)
  PROVE  TypeOK'
<1> USE DEF TypeOK, logvars, threadvars
<1>1. CASE logger_open(r)
  BY <1>1 DEF logger_open, Offsets
<1>2. CASE logger_release(r)
  BY <1>2, SizeFacts DEF logger_release, Offsets
<1> QED
  BY <1>1, <1>2

LEMMA LogTypes ==
  ASSUME TypeOK, LogStep
  PROVE  TypeOK'
<1>1. CASE flush_log
  BY <1>1 DEF flush_log, TypeOK, threadvars, Offsets
<1>2. CASE show_global_was_overrun
  <2>1. was_overrun' \in BOOLEAN
    BY <1>2, Zenon DEF show_global_was_overrun
  <2>2. UNCHANGED <<buffer, w_off, head, filevars, threadvars, waking>>
    BY <1>2 DEF show_global_was_overrun
  <2> QED
    BY <2>1, <2>2 DEF TypeOK, filevars, threadvars, Offsets
<1> QED
  BY <1>1, <1>2 DEF LogStep

LEMMA TypeStep ==
  ASSUME TypeOK, [Next]_vars
  PROVE  TypeOK'
<1>1. CASE \E w \in Writers : wake_up_readers(w)
  BY <1>1 DEF wake_up_readers, TypeOK, logvars, filevars, Offsets
<1>2. CASE UNCHANGED vars
  BY <1>2 DEF vars, TypeOK, logvars, filevars, threadvars, Offsets
<1> QED
  BY <1>1, <1>2, Steps, WriteTypes, WaitTypes, CopyTypes, FileTypes, LogTypes

LEMMA InitTypes == Init => TypeOK
<1> SUFFICES ASSUME Init PROVE TypeOK
  OBVIOUS
<1>1. was_overrun \in BOOLEAN
  BY Zenon DEF Init
<1>2. /\ buffer = [off \in Offsets |-> 0] /\ w_off = 0 /\ head = 0
      /\ readers = {} /\ r_off = [r \in Readers |-> 0] /\ fixed = {}
      /\ at = [t \in Threads |-> "user"] /\ count = [t \in Threads |-> 0]
      /\ wq = {} /\ waking = {}
  BY DEF Init
<1>3. 0 \in Offsets /\ 0 \in Nat
  BY SizeFacts DEF Offsets
<1> QED
  BY <1>1, <1>2, <1>3 DEF TypeOK

(* Every variable of the logger keeps its type.  That the read and write   *)
(* heads stay in the buffer says that get_next_entry always ends, also on  *)
(* lengths that it reads where no entry begins.                            *)
THEOREM TypeTheorem == Spec => []TypeOK
<1>1. TypeOK /\ [Next]_vars => TypeOK'
  BY TypeStep
<1> QED
  BY <1>1, InitTypes, PTL DEF Spec

-----------------------------------------------------------------------------
(* Waiting *)

(* No two threads read from the same open file. *)
OneThreadPerFile == \A t, u \in Threads : file[t] = file[u] => t = u

(* A file is open while a thread is in read() on it. *)
FileInv == \A t \in Threads : at[t] # "user" => file[t] \in readers

LEMMA FileStep ==
  ASSUME TypeOK, FileInv, [Next]_vars
  PROVE  FileInv'
<1> USE DEF FileInv, logvars, filevars, threadvars
<1>1. CASE \E w \in Writers, e \in Payloads : write_log_entry(w, e)
  BY <1>1 DEF write_log_entry
<1>2. CASE \E w \in Writers : wake_up_readers(w)
  BY <1>2 DEF wake_up_readers
<1>3. ASSUME NEW t \in Threads, Waits(t) \/ do_read_log_to_user(t)
      PROVE  FileInv'
  <2>1. PICK place : goto(t, place)
    BY <1>3 DEF Waits, read_begin, prepare_to_wait, read_check, schedule, signal,
                read_length, read_nomem, do_read_log_to_user, goto, TypeOK
  <2>2. at[t] # "user" \/ file[t] \in readers
    BY <1>3 DEF Waits, read_begin, prepare_to_wait, read_check, schedule, signal,
                read_length, read_nomem, do_read_log_to_user
  <2>3. readers' = readers
    BY <1>3 DEF Waits, read_begin, prepare_to_wait, read_check, schedule, signal,
                read_length, read_nomem, do_read_log_to_user
  <2> QED
    BY <2>1, <2>2, <2>3 DEF goto, TypeOK
<1>4. ASSUME NEW r \in Readers, logger_open(r) \/ logger_release(r)
      PROVE  FileInv'
  BY <1>4 DEF logger_open, logger_release, Quiet
<1>5. CASE LogStep
  BY <1>5 DEF LogStep, flush_log, show_global_was_overrun
<1>6. CASE UNCHANGED vars
  BY <1>6 DEF vars
<1> QED
  BY <1>1, <1>2, <1>3, <1>4, <1>5, <1>6, Steps

LEMMA WakeupStep ==
  ASSUME OneThreadPerFile, TypeOK, FileInv, NoLostWakeup, [Next]_vars
  PROVE  NoLostWakeup'
<1> USE DEF NoLostWakeup, Empty, logvars, filevars, threadvars
<1>1. CASE \E w \in Writers, e \in Payloads : write_log_entry(w, e)
  BY <1>1 DEF write_log_entry
<1>2. CASE \E w \in Writers : wake_up_readers(w)
  BY <1>2 DEF wake_up_readers
<1>3. ASSUME NEW t \in Threads, Waits(t) PROVE NoLostWakeup'
  <2> USE DEF goto, TypeOK
  <2>1. CASE read_begin(t) \/ prepare_to_wait(t) \/ schedule(t)
    BY <2>1 DEF read_begin, prepare_to_wait, schedule
  <2>2. CASE read_check(t)
    BY <2>2 DEF read_check
  <2>3. CASE signal(t) \/ read_nomem(t)
    BY <2>3 DEF signal, read_nomem
  <2>4. CASE read_length(t)
    BY <2>4 DEF read_length
  <2> QED
    BY <1>3, <2>1, <2>2, <2>3, <2>4 DEF Waits
<1>4. ASSUME NEW t \in Threads, do_read_log_to_user(t) PROVE NoLostWakeup'
  <2>1. \A u \in Threads : u # t => file[u] # file[t]
    BY DEF OneThreadPerFile
  <2>2. /\ r_off' = [r_off EXCEPT ![file[t]] = logger_offset(@ + CopyCount(t))]
        /\ at' = [at EXCEPT ![t] = "user"]
        /\ UNCHANGED <<w_off, wq, waking>>
    BY <1>4 DEF do_read_log_to_user, goto
  <2> QED
    BY <2>1, <2>2, LoggerAssumption DEF TypeOK
<1>5. ASSUME NEW r \in Readers, logger_open(r) \/ logger_release(r)
      PROVE  NoLostWakeup'
  <2>1. \A t \in Threads : at[t] = "schedule" => file[t] # r
    BY <1>5 DEF FileInv, logger_open, logger_release, Quiet
  <2>2. /\ \A q \in Readers : q # r => r_off'[q] = r_off[q]
        /\ UNCHANGED <<w_off, threadvars, waking>>
    BY <1>5 DEF logger_open, logger_release, TypeOK
  <2> QED
    BY <2>1, <2>2, LoggerAssumption
<1>6. CASE LogStep
  BY <1>6, LoggerAssumption DEF LogStep, flush_log, show_global_was_overrun, FileInv
<1>7. CASE UNCHANGED vars
  BY <1>7 DEF vars
<1> QED
  BY <1>1, <1>2, <1>3, <1>4, <1>5, <1>6, <1>7, Steps

(* A thread never sleeps on a log that has something for it, unless it is  *)
(* about to be woken: for any number of writers and readers, as long as no *)
(* two threads read from the same open file.                               *)
THEOREM WakeupTheorem ==
  ASSUME OneThreadPerFile
  PROVE  Spec => []NoLostWakeup
<1>1. Init => FileInv /\ NoLostWakeup
  BY DEF Init, FileInv, NoLostWakeup
<1>2. TypeOK /\ FileInv /\ NoLostWakeup /\ [Next]_vars
        => FileInv' /\ NoLostWakeup'
  BY FileStep, WakeupStep
<1> QED
  BY <1>1, <1>2, TypeTheorem, PTL DEF Spec

-----------------------------------------------------------------------------
(* The chain of entries *)

(* How far an offset is behind the write head, and the offset so far. *)
Dist(off) == logger_offset(w_off - off)
At(x) == logger_offset(w_off - x)

DistAtFacts ==
  /\ \A off \in Offsets : /\ Dist(off) \in Offsets
                          /\ At(Dist(off)) = off
                          /\ Dist(off) = 0 <=> off = w_off
  /\ \A x \in Offsets : At(x) \in Offsets /\ Dist(At(x)) = x
  /\ \A x \in Offsets : \A k \in 0 .. x : logger_offset(At(x) + k) = At(x - k)
  /\ At(0) = w_off

LEMMA DistAt == w_off \in Offsets => DistAtFacts
<1> SUFFICES ASSUME w_off \in Offsets PROVE DistAtFacts
  OBVIOUS
<1>1. Size \in Nat /\ Size > 0 /\ w_off \in Int /\ w_off >= 0 /\ w_off < Size
  BY SizeFacts DEF Offsets
<1>2. ASSUME NEW y \in Offsets
      PROVE  /\ y \in Int /\ y >= 0 /\ y < Size
             /\ logger_offset(w_off - y) = IF y <= w_off THEN w_off - y
                                           ELSE w_off - y + Size
             /\ logger_offset(w_off - y) \in Offsets
  <2>1. y \in Int /\ y >= 0 /\ y < Size
    BY <1>1 DEF Offsets
  <2>2. w_off - y \in Int
    BY <1>1, <2>1
  <2>3. y <= w_off => w_off - y \in 0 .. Size - 1
    BY <1>1, <2>1
  <2>4. ~(y <= w_off) => w_off - y \in -Size .. -1
    BY <1>1, <2>1
  <2> QED
    BY <2>1, <2>2, <2>3, <2>4, OffsetValue
<1>3. ASSUME NEW off \in Offsets
      PROVE  /\ Dist(off) \in Offsets /\ At(Dist(off)) = off
             /\ Dist(off) = 0 <=> off = w_off
  <2> DEFINE d == logger_offset(w_off - off)
  <2>1. /\ off \in Int /\ off >= 0 /\ off < Size /\ d \in Offsets
        /\ d = IF off <= w_off THEN w_off - off ELSE w_off - off + Size
    BY <1>2
  <2> HIDE DEF d
  <2>2. /\ d \in Int /\ d >= 0 /\ d < Size
        /\ logger_offset(w_off - d) = IF d <= w_off THEN w_off - d
                                      ELSE w_off - d + Size
    BY <1>2, <2>1
  <2>3. logger_offset(w_off - d) = off
    BY <1>1, <2>1, <2>2
  <2>4. d = 0 <=> off = w_off
    BY <1>1, <2>1, <2>2
  <2> QED
    BY <2>1, <2>3, <2>4 DEF Dist, At, d
<1>4. ASSUME NEW x \in Offsets, NEW k \in 0 .. x
      PROVE  logger_offset(At(x) + k) = At(x - k)
  <2>1. /\ x \in Int /\ x >= 0 /\ x < Size /\ At(x) \in Offsets
        /\ At(x) = IF x <= w_off THEN w_off - x ELSE w_off - x + Size
    BY <1>2 DEF At
  <2>2. k \in Int /\ k >= 0 /\ k <= x
    BY <2>1
  <2>3. x - k \in Offsets
    BY <1>1, <2>1, <2>2 DEF Offsets
  <2>4. At(x - k) = IF x - k <= w_off THEN w_off - (x - k)
                    ELSE w_off - (x - k) + Size
    BY <1>2, <2>3 DEF At
  <2>5. At(x) \in Int /\ At(x) >= 0 /\ At(x) < Size
    BY <1>1, <2>1 DEF Offsets
  <2>6. CASE At(x) + k < Size
    <3>1. At(x) + k \in 0 .. Size - 1
      BY <1>1, <2>2, <2>5, <2>6
    <3>2. logger_offset(At(x) + k) = At(x) + k
      BY <2>2, <2>5, <3>1, OffsetValue
    <3> QED
      BY <1>1, <2>1, <2>2, <2>4, <2>6, <3>2
  <2>7. CASE At(x) + k >= Size
    <3>1. At(x) + k \in Size .. 2 * Size - 1
      BY <1>1, <2>1, <2>2, <2>5, <2>7
    <3>2. logger_offset(At(x) + k) = At(x) + k - Size
      BY <1>1, <2>2, <2>5, <3>1, OffsetValue
    <3> QED
      BY <1>1, <2>1, <2>2, <2>4, <2>7, <3>2
  <2> QED
    BY <1>1, <2>2, <2>5, <2>6, <2>7
<1>5. ASSUME NEW x \in Offsets
      PROVE  At(x) \in Offsets /\ Dist(At(x)) = x
  BY <1>2, <1>3 DEF Dist, At
<1>6. 0 \in Offsets /\ At(0) = w_off
  <2>1. 0 \in Offsets /\ 0 <= w_off /\ w_off - 0 = w_off
    BY <1>1 DEF Offsets
  <2> QED
    BY <1>2, <2>1 DEF At
<1> QED
  BY <1>3, <1>4, <1>5, <1>6 DEF DistAtFacts

(* From every member of B the entries lead to the write head, through      *)
(* members of B.                                                           *)
Chain(B) ==
  /\ 0 \in B
  /\ \A x \in B : x # 0 => /\ get_entry_len(At(x)) <= x
                           /\ get_entry_len(At(x)) <= MaxLen
                           /\ x - get_entry_len(At(x)) \in B

(* get_next_entry stays on the chain, if the chain is long enough. *)
LEMMA NextEntryOnChain ==
  ASSUME BufferOK, w_off \in Offsets, NEW B, B \subseteq Offsets, Chain(B),
         NEW off \in Offsets, Dist(off) \in B,
         NEW len \in Nat, len > 0, len <= Dist(off)
  PROVE  \E x \in B : x <= Dist(off) - len /\ get_next_entry(off, len) = At(x)
<1> DEFINE d == Dist(off)
<1>1. PICK f : IsWalk(off, len, f) /\ get_next_entry(off, len) = f[0]
  BY NextEntryIsWalk
<1>2. /\ d \in Offsets /\ At(d) = off
      /\ \A k \in 0 .. d : logger_offset(off + k) = At(d - k)
  BY DistAt DEF DistAtFacts
<1>3. /\ Size \in Nat /\ off \in Int /\ d \in Int /\ d >= 0 /\ d < Size
      /\ len <= d /\ d \in B
  BY <1>2, SizeFacts DEF Offsets
<1> HIDE DEF d
<1> DEFINE T == {p \in 0 .. len - 1 :
                   d - p \in B => \E x \in B : x <= d - len /\ f[p] = At(x)}
<1>4. ASSUME NEW p \in 0 .. len - 1,
             \A q \in 0 .. len - 1 : q > p => q \in T
      PROVE  p \in T
  <2> SUFFICES ASSUME d - p \in B
               PROVE  \E x \in B : x <= d - len /\ f[p] = At(x)
    OBVIOUS
  <2> DEFINE h == Hop(off, p)
  <2>1. p \in Int /\ p >= 0 /\ p < len
    OBVIOUS
  <2>2. h \in Nat /\ h >= 1
    BY <1>3, <2>1, HopType
  <2>3. logger_offset(off + p) = At(d - p)
    <3>1. p \in 0 .. d
      BY <1>3, <2>1
    <3> QED
      BY <1>2, <3>1
  <2>4. h <= d - p /\ d - p - h \in B
    <3>1. d - p # 0
      BY <1>3, <2>1
    <3> QED
      BY <2>3, <3>1 DEF Chain, Hop
  <2>5. f[p] = WalkStep(off, len, f, p)
    BY <1>1 DEF IsWalk
  <2> HIDE DEF h
  <2>6. d - (p + h) = d - p - h /\ off + (p + h) = off + p + h
    BY <1>3, <2>1, <2>2
  <2>7. CASE p + h < len
    <3>1. p + h \in 0 .. len - 1 /\ p + h > p
      BY <2>1, <2>2, <2>7
    <3>2. p + h \in T
      BY <1>4, <3>1
    <3>3. d - (p + h) \in B
      BY <2>4, <2>6
    <3>4. f[p] = f[p + h]
      BY <2>5, <2>7 DEF WalkStep, h
    <3> QED
      BY <3>2, <3>3, <3>4
  <2>8. CASE ~(p + h < len)
    <3>1. p + h \in 0 .. d
      BY <1>3, <2>1, <2>2, <2>4
    <3>2. f[p] = logger_offset(off + (p + h))
      BY <2>5, <2>6, <2>8 DEF WalkStep, h
    <3>3. f[p] = At(d - (p + h))
      BY <1>2, <3>1, <3>2
    <3>4. d - (p + h) <= d - len
      BY <1>3, <2>1, <2>2, <2>8
    <3> QED
      BY <2>4, <2>6, <3>3, <3>4
  <2> QED
    BY <2>7, <2>8
<1>5. \A p \in 0 .. len - 1 : p \in T
  <2> HIDE DEF T
  <2> QED
    BY <1>4, InductionDown
<1>6. 0 \in 0 .. len - 1 /\ d - 0 = d
  BY <1>3
<1>7. 0 \in T
  BY <1>5, <1>6
<1>8. \E x \in B : x <= d - len /\ f[0] = At(x)
  BY <1>3, <1>6, <1>7
<1> QED
  BY <1>1, <1>8 DEF d

(* The write of len cells laps what is less than len cells ahead of it. *)
LEMMA LappedValue ==
  ASSUME w_off \in Offsets, NEW off \in Offsets, NEW len \in 1 .. MaxLen
  PROVE  Lapped(off, len) <=> Dist(off) >= Size - len
<1>1. /\ Size \in Nat /\ w_off \in Int /\ w_off >= 0 /\ w_off < Size
      /\ off \in Int /\ off >= 0 /\ off < Size
      /\ len \in Int /\ len >= 1 /\ 2 * len <= Size
  BY SizeFacts DEF Offsets
<1> DEFINE b == logger_offset(w_off + len)
<1>2. b = IF w_off + len < Size THEN w_off + len ELSE w_off + len - Size
  <2>1. w_off + len < Size => w_off + len \in 0 .. Size - 1
    BY <1>1
  <2>2. ~(w_off + len < Size) => w_off + len \in Size .. 2 * Size - 1
    BY <1>1
  <2>3. w_off + len \in Int
    BY <1>1
  <2> QED
    BY <1>1, <2>1, <2>2, <2>3, OffsetValue
<1>3. Dist(off) = IF off <= w_off THEN w_off - off ELSE w_off - off + Size
  <2>1. off <= w_off => w_off - off \in 0 .. Size - 1
    BY <1>1
  <2>2. ~(off <= w_off) => w_off - off \in -Size .. -1
    BY <1>1
  <2>3. w_off - off \in Int
    BY <1>1
  <2> QED
    BY <2>1, <2>2, <2>3, OffsetValue DEF Dist
<1>4. Lapped(off, len) <=> IF b < w_off THEN w_off < off \/ b >= off
                           ELSE w_off < off /\ b >= off
  BY DEF Lapped, clock_interval
<1> HIDE DEF b
<1> QED
  BY <1>1, <1>2, <1>3, <1>4

(* The chain after a write of len cells: what is left of it, and the new   *)
(* entry.                                                                  *)
Longer(B, len) == {0} \cup {x + len : x \in {y \in B : y < Size - len}}

(* What a write leaves as it was, and where: seen from the new write head  *)
(* everything is len cells further away.                                   *)
LEMMA WriteKeeps ==
  ASSUME BufferOK, w_off \in Offsets, NEW e \in Payloads, do_write_log(e),
         NEW len, len = 1 + Len(e), NEW x \in Offsets, x < Size - len
  PROVE  /\ x + len \in Offsets /\ At(x + len)' = At(x)
         /\ x # 0 => \A k \in 0 .. x - 1 : buffer'[At(x - k)] = buffer[At(x - k)]
         /\ x = 0 => /\ buffer'[At(x)] = Len(e)
                     /\ \A k \in 1 .. Len(e) :
                          buffer'[logger_offset(At(x) + k)] = e[k]
<1>1. /\ Len(e) \in Int /\ len \in Int /\ len >= 2 /\ 2 * len <= Size
      /\ Len(e) = len - 1
  <2>1. Len(e) \in 1 .. MaxPayload
    BY PayloadType
  <2> QED
    BY <2>1, SizeFacts
<1>2. /\ Size \in Nat /\ w_off \in Int /\ w_off >= 0 /\ w_off < Size
      /\ x \in Int /\ x >= 0
  BY SizeFacts DEF Offsets
<1>3. /\ w_off' = logger_offset(w_off + 1 + Len(e)) /\ w_off' \in Offsets
      /\ \A off \in Offsets :
           /\ logger_offset(off - w_off) = 0 => buffer'[off] = Len(e)
           /\ logger_offset(off - w_off) \in 1 .. Len(e) =>
                buffer'[off] = e[logger_offset(off - w_off)]
           /\ logger_offset(off - w_off) > Len(e) => buffer'[off] = buffer[off]
  BY WrittenCells
<1>4. w_off' = IF w_off + len < Size THEN w_off + len ELSE w_off + len - Size
  <2>1. w_off + len < Size => w_off + len \in 0 .. Size - 1
    BY <1>1, <1>2
  <2>2. ~(w_off + len < Size) => w_off + len \in Size .. 2 * Size - 1
    BY <1>1, <1>2
  <2>3. w_off + len \in Int /\ w_off + 1 + Len(e) = w_off + len
    BY <1>1, <1>2
  <2> QED
    BY <1>1, <1>2, <1>3, <2>1, <2>2, <2>3, OffsetValue
<1>5. ASSUME NEW y \in Offsets
      PROVE  /\ y \in Int /\ y >= 0 /\ y < Size /\ At(y) \in Offsets
             /\ At(y) = IF y <= w_off THEN w_off - y ELSE w_off - y + Size
  <2>1. y \in Int /\ y >= 0 /\ y < Size
    BY <1>2 DEF Offsets
  <2>2. w_off - y \in Int
    BY <1>2, <2>1
  <2>3. y <= w_off => w_off - y \in 0 .. Size - 1
    BY <1>2, <2>1
  <2>4. ~(y <= w_off) => w_off - y \in -Size .. -1
    BY <1>2, <2>1
  <2> QED
    BY <1>2, <2>1, <2>2, <2>3, <2>4, OffsetValue DEF At
<1>6. x + len \in Offsets
  BY <1>1, <1>2 DEF Offsets
<1>7. At(x + len)' = At(x)
  <2>1. At(x + len)' = logger_offset(w_off' - (x + len))
    BY DEF At, logger_offset
  <2>2. w_off' \in Int /\ w_off' >= 0 /\ w_off' < Size
    BY <1>2, <1>3 DEF Offsets
  <2>3. w_off' - (x + len) \in Int
    BY <1>1, <1>2, <2>2
  <2>4. CASE x + len <= w_off'
    <3>1. w_off' - (x + len) \in 0 .. Size - 1
      BY <1>1, <1>2, <2>2, <2>4
    <3>2. logger_offset(w_off' - (x + len)) = w_off' - (x + len)
      BY <2>3, <3>1, OffsetValue
    <3> QED
      BY <1>1, <1>2, <1>4, <1>5, <2>1, <2>2, <2>4, <3>2
  <2>5. CASE ~(x + len <= w_off')
    <3>1. w_off' - (x + len) \in -Size .. -1
      BY <1>1, <1>2, <2>2, <2>5
    <3>2. logger_offset(w_off' - (x + len)) = w_off' - (x + len) + Size
      BY <2>3, <3>1, OffsetValue
    <3> QED
      BY <1>1, <1>2, <1>4, <1>5, <2>1, <2>2, <2>5, <3>2
  <2> QED
    BY <2>4, <2>5
<1>8. ASSUME NEW y \in Offsets, y # 0, y < Size - len
      PROVE  buffer'[At(y)] = buffer[At(y)]
  <2>1. /\ y \in Int /\ y >= 0 /\ y < Size /\ At(y) \in Offsets
        /\ At(y) = IF y <= w_off THEN w_off - y ELSE w_off - y + Size
    BY <1>5
  <2>2. At(y) - w_off = IF y <= w_off THEN -y ELSE Size - y
    BY <1>2, <2>1
  <2>3. y <= w_off => At(y) - w_off \in -Size .. -1
    BY <1>2, <1>8, <2>1, <2>2
  <2>4. ~(y <= w_off) => At(y) - w_off \in 0 .. Size - 1
    BY <1>2, <1>8, <2>1, <2>2
  <2>5. At(y) - w_off \in Int
    BY <1>2, <2>1, <2>2
  <2>6. logger_offset(At(y) - w_off) = Size - y
    BY <1>2, <2>1, <2>2, <2>3, <2>4, <2>5, OffsetValue
  <2>7. Size - y > Len(e)
    BY <1>1, <1>2, <1>8, <2>1
  <2> QED
    BY <1>3, <2>1, <2>6, <2>7
<1>9. x # 0 => \A k \in 0 .. x - 1 : buffer'[At(x - k)] = buffer[At(x - k)]
  <2> SUFFICES ASSUME NEW k \in 0 .. x - 1
               PROVE  buffer'[At(x - k)] = buffer[At(x - k)]
    OBVIOUS
  <2>1. x - k \in Offsets /\ x - k # 0 /\ x - k < Size - len
    BY <1>1, <1>2 DEF Offsets
  <2> QED
    BY <1>8, <2>1
<1>10. CASE x = 0
  <2>1. At(x) = w_off
    BY <1>10, DistAt DEF DistAtFacts
  <2>2. w_off - w_off = 0 /\ logger_offset(0) = 0
    <3>1. 0 \in 0 .. Size - 1
      BY <1>1, <1>2
    <3> QED
      BY <1>2, <3>1, OffsetValue
  <2>3. buffer'[At(x)] = Len(e)
    BY <1>3, <2>1, <2>2
  <2>4. ASSUME NEW k \in 1 .. Len(e)
        PROVE  buffer'[logger_offset(At(x) + k)] = e[k]
    <3> DEFINE c == logger_offset(w_off + k)
    <3>1. k \in Int /\ k >= 1 /\ k < len
      BY <1>1
    <3>2. c \in Offsets
      BY <1>2, <3>1, OffsetValue
    <3>3. c = IF w_off + k < Size THEN w_off + k ELSE w_off + k - Size
      <4>1. w_off + k < Size => w_off + k \in 0 .. Size - 1
        BY <1>2, <3>1
      <4>2. ~(w_off + k < Size) => w_off + k \in Size .. 2 * Size - 1
        BY <1>1, <1>2, <3>1
      <4>3. w_off + k \in Int
        BY <1>2, <3>1
      <4> QED
        BY <1>2, <3>1, <4>1, <4>2, <4>3, OffsetValue
    <3> HIDE DEF c
    <3>4. w_off + k < Size => c - w_off \in 0 .. Size - 1 /\ c - w_off = k
      BY <1>1, <1>2, <3>1, <3>3
    <3>5. ~(w_off + k < Size) =>
            c - w_off \in -Size .. -1 /\ c - w_off + Size = k
      BY <1>1, <1>2, <3>1, <3>3
    <3>6. c - w_off \in Int
      BY <1>2, <3>1, <3>3
    <3>7. logger_offset(c - w_off) = k
      BY <3>4, <3>5, <3>6, OffsetValue
    <3> QED
      BY <1>3, <2>1, <3>2, <3>7 DEF c
  <2> QED
    BY <1>6, <1>7, <1>10, <2>3, <2>4
<1> QED
  BY <1>6, <1>7, <1>9, <1>10

(* The chain goes on: the old entries that are left, and the new one. *)
LEMMA WriteChain ==
  ASSUME BufferOK, w_off \in Offsets, NEW e \in Payloads, do_write_log(e),
         NEW len, len = 1 + Len(e), NEW B, B \subseteq Offsets, Chain(B)
  PROVE  Longer(B, len) \subseteq Offsets /\ Chain(Longer(B, len))'
<1>1. /\ Len(e) \in Int /\ len \in Int /\ len >= 2 /\ 2 * len <= Size
      /\ Size \in Nat /\ Len(e) = len - 1 /\ len <= MaxLen
  <2>1. Len(e) \in 1 .. MaxPayload
    BY PayloadType
  <2> QED
    BY <2>1, SizeFacts
<1>2. ASSUME NEW x \in B, x < Size - len
      PROVE  /\ x \in Int /\ x >= 0 /\ x \in Offsets
             /\ x + len \in Offsets /\ At(x + len)' = At(x)
             /\ x # 0 => buffer'[At(x)] = buffer[At(x)]
             /\ x = 0 => buffer'[At(x)] = Len(e)
  <2>1. x \in Offsets /\ x \in Int /\ x >= 0
    BY <1>1 DEF Offsets
  <2>2. /\ x + len \in Offsets /\ At(x + len)' = At(x)
        /\ x # 0 => \A k \in 0 .. x - 1 : buffer'[At(x - k)] = buffer[At(x - k)]
        /\ x = 0 => buffer'[At(x)] = Len(e)
    BY <1>2, <2>1, WriteKeeps
  <2>3. x # 0 => 0 \in 0 .. x - 1 /\ x - 0 = x
    BY <2>1
  <2> QED
    BY <2>1, <2>2, <2>3
<1>3. Longer(B, len) \subseteq Offsets
  <2>1. 0 \in Offsets
    BY <1>1 DEF Offsets
  <2> QED
    BY <1>2, <2>1 DEF Longer
<1>4. ASSUME NEW z \in Longer(B, len), z # 0
      PROVE  /\ get_entry_len(At(z))' <= z
             /\ get_entry_len(At(z))' <= MaxLen
             /\ z - get_entry_len(At(z))' \in Longer(B, len)
  <2>1. PICK x \in B : x < Size - len /\ z = x + len
    BY <1>4 DEF Longer
  <2>2. get_entry_len(At(z))' = 1 + buffer'[At(z)']
    BY DEF get_entry_len, HeaderLen
  <2>3. At(z)' = At(x)
    <3>1. At(x + len)' = At(x)
      BY <1>2, <2>1
    <3> QED
      BY <2>1, <3>1 DEF At
  <2>4. CASE x = 0
    <3>1. get_entry_len(At(z))' = len /\ z = len
      BY <1>1, <1>2, <2>1, <2>2, <2>3, <2>4
    <3>2. z - len = 0
      BY <1>1, <3>1
    <3> QED
      BY <1>1, <3>1, <3>2 DEF Longer
  <2>5. CASE x # 0
    <3> DEFINE l == get_entry_len(At(x))
    <3>1. get_entry_len(At(z))' = l
      BY <1>2, <2>1, <2>2, <2>3, <2>5 DEF get_entry_len, HeaderLen
    <3>2. l <= x /\ l <= MaxLen /\ x - l \in B
      BY <2>5 DEF Chain
    <3>3. l \in Int /\ l >= 1
      BY <1>2, <2>1, DistAt, EntryLen, SizeFacts DEF DistAtFacts
    <3> HIDE DEF l
    <3>4. x \in Int /\ x >= 0
      BY <1>2, <2>1
    <3>5. x - l < Size - len /\ z - l = (x - l) + len /\ l <= z
      BY <1>1, <2>1, <3>2, <3>3, <3>4
    <3>6. z - l \in Longer(B, len)
      BY <3>2, <3>5 DEF Longer
    <3> QED
      BY <3>1, <3>2, <3>5, <3>6
  <2> QED
    BY <2>4, <2>5
<1>5. 0 \in Longer(B, len)
  BY DEF Longer
<1>6. \A z \in Longer(B, len) :
        z # 0 => /\ get_entry_len(At(z))' <= z
                 /\ get_entry_len(At(z))' <= MaxLen
                 /\ z - get_entry_len(At(z))' \in Longer(B, len)
  BY <1>4
<1> QED
  BY <1>3, <1>5, <1>6 DEF Chain, Longer, MaxLen, HeaderLen

(* Where fix_up_readers leaves a reader that was on the chain. *)
LEMMA FixedUp ==
  ASSUME BufferOK, w_off \in Offsets, NEW len \in 1 .. MaxLen,
         NEW B, B \subseteq Offsets, Chain(B), NEW off \in Offsets, Dist(off) \in B
  PROVE  \E x \in B :
           /\ x < Size - len
           /\ At(x) = IF Lapped(off, len) THEN get_next_entry(off, len) ELSE off
           /\ Lapped(off, len) => x <= Dist(off) - len
           /\ ~Lapped(off, len) => x = Dist(off)
<1>1. /\ len \in Nat /\ len > 0 /\ Size \in Nat /\ Size >= 2 * len
      /\ Dist(off) \in Int /\ Dist(off) >= 0 /\ Dist(off) < Size
  <2>1. Dist(off) \in Offsets
    BY DistAt DEF DistAtFacts
  <2> QED
    BY <2>1, SizeFacts DEF Offsets
<1>2. CASE Lapped(off, len)
  <2>1. Dist(off) >= Size - len
    BY <1>2, LappedValue
  <2>2. len <= Dist(off)
    BY <1>1, <2>1
  <2>3. PICK x \in B : x <= Dist(off) - len /\ get_next_entry(off, len) = At(x)
    BY <1>1, <2>2, NextEntryOnChain
  <2>4. x \in Int
    BY <1>1 DEF Offsets
  <2>5. x < Size - len
    BY <1>1, <2>3, <2>4
  <2> QED
    BY <1>2, <2>3, <2>5
<1>3. CASE ~Lapped(off, len)
  <2>1. Dist(off) < Size - len
    BY <1>1, <1>3, LappedValue
  <2>2. At(Dist(off)) = off
    BY DistAt DEF DistAtFacts
  <2> QED
    BY <1>3, <2>1, <2>2
<1> QED
  BY <1>2, <1>3

-----------------------------------------------------------------------------
(* The ring *)

OnChain(B) ==
  /\ Chain(B) /\ Dist(head) \in B
  /\ \A r \in readers : Dist(r_off[r]) \in B

(* The head and all readers are where an entry begins, or at the write     *)
(* head.                                                                   *)
ChainInv == \E B \in SUBSET Offsets : OnChain(B)

(* A thread that is about to copy has something to copy, and knows its     *)
(* length or will ask for it again.                                        *)
CopyInv ==
  \A t \in Threads :
    at[t] = "copy" =>
      /\ ~Empty(t)
      /\ file[t] \in fixed \/ count[t] = get_entry_len(r_off[file[t]])

RingInv == TypeOK /\ FileInv /\ ChainInv /\ CopyInv

(* Where a write leaves an offset that was on the chain. *)
LEMMA WriteMoves ==
  ASSUME TypeOK, NEW e \in Payloads, do_write_log(e),
         NEW len, len = 1 + Len(e), NEW B, B \subseteq Offsets, Chain(B),
         NEW off \in Offsets, Dist(off) \in B,
         NEW off2, off2 = IF Lapped(off, len) THEN get_next_entry(off, len) ELSE off
  PROVE  \E x \in B :
           /\ x < Size - len /\ off2 = At(x)
           /\ logger_offset(w_off' - off2) = x + len
           /\ x + len \in Longer(B, len) /\ x + len > 0
           /\ Lapped(off, len) => x <= Dist(off) - len
           /\ ~Lapped(off, len) => x = Dist(off)
<1>1. BufferOK /\ w_off \in Offsets
  BY DEF TypeOK, BufferOK
<1>2. len \in 1 .. MaxLen /\ len \in Int /\ len > 0
  <2>1. Len(e) \in 1 .. MaxPayload
    BY PayloadType
  <2> QED
    BY <2>1, SizeFacts
<1>3. PICK x \in B :
        /\ x < Size - len /\ At(x) = off2
        /\ Lapped(off, len) => x <= Dist(off) - len
        /\ ~Lapped(off, len) => x = Dist(off)
  BY <1>1, <1>2, FixedUp
<1>4. x \in Offsets /\ x \in Int /\ x >= 0
  BY SizeFacts DEF Offsets
<1>5. x + len \in Offsets /\ At(x + len)' = At(x)
  BY <1>1, <1>3, <1>4, WriteKeeps
<1>6. w_off' \in Offsets
  BY <1>1, WrittenCells
<1>7. (w_off \in Offsets)' => DistAtFacts'
  BY DistAt, PTL
<1>8. Dist(At(x + len))' = x + len
  BY <1>5, <1>6, <1>7 DEF DistAtFacts, Offsets
<1>9. Dist(At(x + len))' = logger_offset(w_off' - At(x + len)')
  BY DEF Dist, logger_offset
<1>10. logger_offset(w_off' - off2) = x + len
  BY <1>3, <1>5, <1>8, <1>9
<1>11. x + len \in Longer(B, len) /\ x + len > 0
  BY <1>2, <1>3, <1>4 DEF Longer
<1> QED
  BY <1>3, <1>10, <1>11

LEMMA WriteRing ==
  ASSUME RingInv, NEW w \in Writers, NEW e \in Payloads, write_log_entry(w, e)
  PROVE  ChainInv' /\ CopyInv'
<1> DEFINE len == 1 + Len(e)
           Moved(off) == IF Lapped(off, len) THEN get_next_entry(off, len) ELSE off
<1>1. TypeOK /\ FileInv /\ CopyInv /\ do_write_log(e)
  BY DEF RingInv, write_log_entry
<1>2. /\ fix_up_readers(len)
      /\ UNCHANGED <<readers, at, count, wq>>
  BY DEF write_log_entry, HeaderLen, threadvars
<1>3. PICK B \in SUBSET Offsets : OnChain(B)
  BY DEF RingInv, ChainInv
<1>4. Chain(B) /\ Dist(head) \in B /\ \A r \in readers : Dist(r_off[r]) \in B
  BY <1>3 DEF OnChain
<1>5. BufferOK /\ w_off \in Offsets /\ head \in Offsets
      /\ readers \subseteq Readers /\ r_off \in [Readers -> Offsets]
  BY <1>1 DEF TypeOK, BufferOK
<1>6. Longer(B, len) \subseteq Offsets /\ Chain(Longer(B, len))'
  BY <1>1, <1>4, <1>5, WriteChain
<1>7. ASSUME NEW off \in Offsets, Dist(off) \in B
      PROVE  \E x \in B :
               /\ x < Size - len /\ Moved(off) = At(x)
               /\ logger_offset(w_off' - Moved(off)) = x + len
               /\ x + len \in Longer(B, len) /\ x + len > 0
               /\ Lapped(off, len) => x <= Dist(off) - len
               /\ ~Lapped(off, len) => x = Dist(off)
  BY <1>1, <1>4, <1>7, WriteMoves
<1>8. head' = Moved(head)
  BY <1>2 DEF fix_up_readers
<1>9. \A r \in readers : r_off'[r] = Moved(r_off[r])
  BY <1>2, <1>5 DEF fix_up_readers
<1> HIDE DEF Moved
<1>10. Dist(head)' \in Longer(B, len)
  BY <1>4, <1>5, <1>7, <1>8 DEF Dist, logger_offset
<1>11. ASSUME NEW r \in readers
       PROVE  Dist(r_off[r])' \in Longer(B, len) /\ Dist(r_off[r])' > 0
  <2>1. r_off[r] \in Offsets /\ Dist(r_off[r]) \in B
    BY <1>4, <1>5
  <2>2. PICK x \in B : /\ logger_offset(w_off' - Moved(r_off[r])) = x + len
                       /\ x + len \in Longer(B, len) /\ x + len > 0
    BY <1>7, <2>1
  <2>3. Dist(r_off[r])' = logger_offset(w_off' - r_off'[r])
    BY DEF Dist, logger_offset
  <2> QED
    BY <1>9, <2>2, <2>3
<1>12. OnChain(Longer(B, len))'
  BY <1>2, <1>6, <1>10, <1>11 DEF OnChain, Longer
<1>13. ChainInv'
  BY <1>6, <1>12 DEF ChainInv, Offsets, Longer
<1>14. ASSUME NEW t \in Threads, at[t] = "copy"
       PROVE  /\ w_off' # r_off'[file[t]]
              /\ file[t] \in fixed' \/ count[t] = get_entry_len(r_off[file[t]])'
  <2> DEFINE r == file[t]
             off == r_off[r]
  <2>1. r \in readers /\ off \in Offsets /\ w_off # off
    BY <1>1, <1>5, <1>14 DEF FileInv, CopyInv, Empty
  <2>2. w_off' # r_off'[r]
    <3>1. Dist(r_off[r])' > 0
      BY <1>11, <2>1
    <3>2. Dist(r_off[r])' = logger_offset(w_off' - r_off'[r])
      BY DEF Dist, logger_offset
    <3>3. w_off' - w_off' = 0 /\ logger_offset(0) = 0
      <4>1. w_off' \in Int
        BY <1>1, <1>5, WrittenCells, SizeFacts DEF Offsets
      <4>2. logger_offset(0) = 0
        <5>1. 0 \in 0 .. Size - 1 /\ 0 \in Int
          BY SizeFacts
        <5> QED
          BY <5>1, OffsetValue
      <4>3. \A v \in Int : v - v = 0
        OBVIOUS
      <4> QED
        BY <4>1, <4>2, <4>3, Zenon
    <3> QED
      BY <3>1, <3>2, <3>3
  <2>3. CASE Lapped(off, len)
    BY <1>2, <2>1, <2>2, <2>3 DEF fix_up_readers
  <2>4. CASE ~Lapped(off, len)
    <3>1. r_off'[r] = off
      BY <1>9, <2>1, <2>4 DEF Moved
    <3>2. /\ Dist(off) \in Offsets /\ Dist(off) # 0 /\ At(Dist(off)) = off
      BY <1>5, <2>1, DistAt DEF DistAtFacts
    <3>3. PICK x \in B : x < Size - len /\ x = Dist(off)
      BY <1>4, <1>7, <2>1, <2>4
    <3>4. \A k \in 0 .. Dist(off) - 1 :
            buffer'[At(Dist(off) - k)] = buffer[At(Dist(off) - k)]
      BY <1>1, <1>5, <3>2, <3>3, WriteKeeps
    <3>5. 0 \in 0 .. Dist(off) - 1 /\ Dist(off) - 0 = Dist(off)
      BY <3>2, SizeFacts DEF Offsets
    <3>6. buffer'[off] = buffer[off]
      BY <3>2, <3>4, <3>5
    <3>7. get_entry_len(r_off[file[t]])' = get_entry_len(off)
      BY <3>1, <3>6 DEF get_entry_len, HeaderLen
    <3>8. file[t] \in fixed => file[t] \in fixed'
      BY <1>2 DEF fix_up_readers
    <3> QED
      BY <1>1, <1>14, <2>2, <3>7, <3>8 DEF CopyInv
  <2> QED
    BY <2>3, <2>4
<1>15. CopyInv'
  BY <1>2, <1>14 DEF CopyInv, Empty
<1> QED
  BY <1>13, <1>15

(* What a copy takes: the whole entry at the read head. *)
LEMMA CopyTakes ==
  ASSUME RingInv, NEW t \in Threads, do_read_log_to_user(t),
         NEW B \in SUBSET Offsets, OnChain(B)
  PROVE  LET r == file[t]
             off == r_off[r]
             d == Dist(off)
             l == get_entry_len(off)
         IN  /\ r \in readers /\ off \in Offsets
             /\ d \in B /\ d # 0 /\ At(d) = off
             /\ l \in 1 .. d /\ d - l \in B
             /\ CopyCount(t) = l
             /\ r_off' = [r_off EXCEPT ![r] = At(d - l)]
             /\ Dist(At(d - l)) = d - l
<1> DEFINE r == file[t]
           off == r_off[r]
           d == Dist(off)
           l == get_entry_len(off)
<1>1. TypeOK /\ FileInv /\ CopyInv /\ at[t] = "copy"
  BY DEF RingInv, do_read_log_to_user
<1>2. r \in readers /\ w_off # off /\ (r \in fixed \/ count[t] = l)
  BY <1>1 DEF FileInv, CopyInv, Empty
<1>3. off \in Offsets /\ w_off \in Offsets /\ BufferOK
  BY <1>1, LoggerAssumption DEF TypeOK, BufferOK
<1>4. CopyCount(t) = l
  BY <1>2 DEF CopyCount
<1>5. d \in Offsets /\ d # 0 /\ At(d) = off
  BY <1>2, <1>3, DistAt DEF DistAtFacts
<1>6. d \in B
  BY <1>2 DEF OnChain
<1>7. l <= d /\ d - l \in B
  BY <1>5, <1>6 DEF OnChain, Chain
<1>8. l \in Nat /\ l >= 1
  BY <1>3, EntryLen
<1>9. d \in Int /\ d >= 0
  BY <1>5, SizeFacts DEF Offsets
<1>10. l \in 1 .. d /\ l \in 0 .. d
  <2> HIDE DEF l, d
  <2> QED
    BY <1>7, <1>8, <1>9, SizeFacts
<1>11. logger_offset(At(d) + l) = At(d - l)
  BY <1>3, <1>5, <1>10, DistAt DEF DistAtFacts
<1>12. r_off' = [r_off EXCEPT ![r] = At(d - l)]
  <2>1. r_off' = [r_off EXCEPT ![r] = logger_offset(off + CopyCount(t))]
    BY DEF do_read_log_to_user
  <2> QED
    BY <1>4, <1>5, <1>11, <2>1
<1>13. Dist(At(d - l)) = d - l
  BY <1>3, <1>7, DistAt DEF DistAtFacts
<1> QED
  BY <1>2, <1>3, <1>4, <1>5, <1>6, <1>7, <1>10, <1>12, <1>13

LEMMA ChainUnchanged ==
  ASSUME ChainInv, UNCHANGED <<buffer, w_off, head, filevars>>
  PROVE  ChainInv'
<1>1. PICK B \in SUBSET Offsets : OnChain(B)
  BY DEF ChainInv
<1>2. OnChain(B)'
  BY <1>1 DEF OnChain, Chain, Dist, At, get_entry_len, logger_offset, filevars
<1> QED
  BY <1>2 DEF ChainInv, Offsets

LEMMA CopyUnchanged ==
  ASSUME CopyInv, UNCHANGED <<buffer, w_off, filevars, at, count>>
  PROVE  CopyInv'
BY DEF CopyInv, Empty, get_entry_len, filevars

(* A change of read heads, where the chain stays. *)
LEMMA ChainMoves ==
  ASSUME NEW B \in SUBSET Offsets, OnChain(B), UNCHANGED <<buffer, w_off>>,
         Dist(head') \in B, \A r \in readers' : Dist(r_off'[r]) \in B
  PROVE  ChainInv'
<1>1. Chain(B)'
  BY DEF OnChain, Chain, At, get_entry_len, logger_offset
<1>2. Dist(head)' \in B /\ \A r \in readers' : Dist(r_off[r])' \in B
  BY DEF Dist, logger_offset
<1>3. OnChain(B)'
  BY <1>1, <1>2 DEF OnChain
<1> QED
  BY <1>3 DEF ChainInv, Offsets

LEMMA RingStep ==
  ASSUME OneThreadPerFile, FlushAnytime = FALSE, RingInv, [Next]_vars
  PROVE  RingInv'
<1>1. TypeOK /\ FileInv /\ ChainInv /\ CopyInv
  BY DEF RingInv
<1>2. TypeOK' /\ FileInv'
  BY <1>1, TypeStep, FileStep
<1> SUFFICES ChainInv' /\ CopyInv'
  BY <1>2 DEF RingInv
<1>3. PICK B \in SUBSET Offsets : OnChain(B)
  BY <1>1 DEF ChainInv
<1>4. /\ Dist(head) \in B /\ Dist(w_off) \in B
      /\ \A r \in readers : Dist(r_off[r]) \in B
  <2>1. Dist(w_off) = 0
    BY <1>1, DistAt DEF TypeOK, DistAtFacts
  <2> QED
    BY <1>3, <2>1 DEF OnChain, Chain
<1>5. CASE \E w \in Writers, e \in Payloads : write_log_entry(w, e)
  BY <1>5, WriteRing
<1>6. CASE \E w \in Writers : wake_up_readers(w)
  BY <1>1, <1>6, ChainUnchanged, CopyUnchanged DEF wake_up_readers, logvars
<1>7. ASSUME NEW t \in Threads, Waits(t) PROVE ChainInv' /\ CopyInv'
  <2>1. UNCHANGED <<logvars, filevars>>
    BY <1>7 DEF Waits, read_begin, prepare_to_wait, read_check, schedule, signal,
                read_length, read_nomem
  <2>2. ChainInv'
    BY <1>1, <2>1, ChainUnchanged DEF logvars
  <2>3. \A u \in Threads :
          u # t => (at'[u] = "copy" <=> at[u] = "copy") /\ count'[u] = count[u]
    BY <1>1, <1>7 DEF Waits, read_begin, prepare_to_wait, read_check, schedule,
         signal, read_length, read_nomem, goto, TypeOK
  <2>4. at'[t] = "copy" => ~Empty(t) /\ count'[t] = get_entry_len(r_off[file[t]])
    <3>1. CASE read_length(t)
      BY <1>1, <3>1 DEF read_length, goto, TypeOK
    <3>2. CASE ~read_length(t)
      BY <1>1, <1>7, <3>2 DEF Waits, read_begin, prepare_to_wait, read_check,
           schedule, signal, read_nomem, goto, TypeOK
    <3> QED
      BY <3>1, <3>2
  <2>5. CopyInv'
    BY <1>1, <2>1, <2>3, <2>4
       DEF CopyInv, Empty, get_entry_len, logvars, filevars
  <2> QED
    BY <2>2, <2>5
<1>8. ASSUME NEW t \in Threads, do_read_log_to_user(t) PROVE ChainInv' /\ CopyInv'
  <2> DEFINE r == file[t]
             x == Dist(r_off[r]) - get_entry_len(r_off[r])
  <2>1. /\ r \in readers /\ x \in B /\ Dist(At(x)) = x
        /\ r_off' = [r_off EXCEPT ![r] = At(x)]
    BY <1>3, <1>8, CopyTakes
  <2>2. /\ UNCHANGED <<logvars, readers>> /\ at' = [at EXCEPT ![t] = "user"]
        /\ fixed' = fixed \ {r} /\ count' = [count EXCEPT ![t] = 0]
    BY <1>8 DEF do_read_log_to_user, goto
  <2> HIDE DEF x
  <2>3. \A q \in readers : q # r => r_off'[q] = r_off[q]
    BY <1>1, <2>1 DEF TypeOK
  <2>4. \A q \in readers : Dist(r_off'[q]) \in B
    BY <1>1, <1>4, <2>1, <2>3 DEF TypeOK
  <2>5. ChainInv'
    BY <1>3, <1>4, <2>2, <2>4, ChainMoves DEF logvars
  <2>6. \A u \in Threads : u # t => file[u] # r
    BY DEF OneThreadPerFile
  <2>7. CopyInv'
    <3> SUFFICES ASSUME NEW u \in Threads, at'[u] = "copy"
                 PROVE  /\ ~Empty(u)'
                        /\ \/ file[u] \in fixed'
                           \/ count'[u] = get_entry_len(r_off[file[u]])'
      BY DEF CopyInv
    <3>1. u # t /\ at[u] = "copy" /\ count'[u] = count[u]
      BY <1>1, <2>2 DEF TypeOK
    <3>2. file[u] # r /\ file[u] \in readers
      BY <1>1, <2>6, <3>1 DEF FileInv
    <3>3. r_off'[file[u]] = r_off[file[u]]
      BY <2>3, <3>2
    <3> QED
      BY <1>1, <2>2, <3>1, <3>2, <3>3 DEF CopyInv, Empty, get_entry_len, logvars
  <2> QED
    BY <2>5, <2>7
<1>9. ASSUME NEW r \in Readers, logger_open(r) \/ logger_release(r)
      PROVE  ChainInv' /\ CopyInv'
  <2>1. UNCHANGED <<logvars, threadvars>>
    BY <1>9 DEF logger_open, logger_release
  <2>2. /\ \A q \in readers' : q # r => q \in readers /\ r_off'[q] = r_off[q]
        /\ r \in readers' => r_off'[r] = head
    BY <1>1, <1>9 DEF logger_open, logger_release, TypeOK
  <2>3. \A q \in readers' : Dist(r_off'[q]) \in B
    BY <1>4, <2>2
  <2>4. ChainInv'
    BY <1>3, <1>4, <2>1, <2>3, ChainMoves DEF logvars
  <2>5. \A u \in Threads : at[u] # "user" => file[u] # r /\ file[u] \in readers
    BY <1>1, <1>9 DEF FileInv, logger_open, logger_release, Quiet
  <2>6. \A q \in readers : q # r => /\ r_off'[q] = r_off[q]
                                    /\ q \in fixed' <=> q \in fixed
    BY <1>1, <1>9 DEF logger_open, logger_release, TypeOK
  <2>7. CopyInv'
    BY <1>1, <2>1, <2>5, <2>6
       DEF CopyInv, Empty, get_entry_len, logvars, threadvars
  <2> QED
    BY <2>4, <2>7
<1>10. CASE LogStep
  <2>1. CASE flush_log
    <3>1. /\ UNCHANGED <<buffer, w_off, readers, at, count>> /\ head' = w_off
          /\ \A t \in Threads : at[t] # "copy"
          /\ r_off' = [r \in Readers |-> IF r \in readers THEN w_off ELSE r_off[r]]
      BY <2>1 DEF flush_log, threadvars
    <3>2. \A r \in readers : r_off'[r] = w_off
      BY <1>1, <3>1 DEF TypeOK
    <3>3. ChainInv'
      BY <1>3, <1>4, <3>1, <3>2, ChainMoves
    <3> QED
      BY <3>1, <3>3 DEF CopyInv
  <2>2. CASE show_global_was_overrun
    BY <1>1, <2>2, ChainUnchanged, CopyUnchanged
       DEF show_global_was_overrun, threadvars
  <2> QED
    BY <1>10, <2>1, <2>2 DEF LogStep
<1>11. CASE UNCHANGED vars
  BY <1>1, <1>11, ChainUnchanged, CopyUnchanged DEF vars, logvars, threadvars
<1> QED
  BY <1>5, <1>6, <1>7, <1>8, <1>9, <1>10, <1>11, Steps

LEMMA InitRing == Init => RingInv
<1> SUFFICES ASSUME Init PROVE RingInv
  OBVIOUS
<1>1. TypeOK
  BY InitTypes
<1>2. FileInv /\ CopyInv
  BY DEF Init, FileInv, CopyInv
<1>3. Dist(head) = 0
  BY <1>1, DistAt DEF Init, TypeOK, DistAtFacts
<1>4. {0} \in SUBSET Offsets
  BY SizeFacts DEF Offsets
<1>5. OnChain({0})
  BY <1>3 DEF OnChain, Chain, Init
<1>6. ChainInv
  BY <1>4, <1>5 DEF ChainInv
<1> QED
  BY <1>1, <1>2, <1>6 DEF RingInv

(* The invariant of the ring, while no two threads read from the same file *)
(* and no flush comes between the look at a length and the copy.           *)
THEOREM RingTheorem ==
  ASSUME OneThreadPerFile, FlushAnytime = FALSE
  PROVE  Spec => []RingInv
<1>1. RingInv /\ [Next]_vars => RingInv'
  BY RingStep
<1> QED
  BY <1>1, InitRing, PTL DEF Spec

(* Under the same conditions no read copies more than the temporary buffer *)
(* of LOGGER_ENTRY_MAX_LEN holds, although the code takes a length for what*)
(* the buffer has and does not check it.                                   *)
THEOREM CopyFitsTheorem ==
  ASSUME OneThreadPerFile, FlushAnytime = FALSE
  PROVE  Spec => []CopyFits
<1>1. RingInv => CopyFits
  <2> SUFFICES ASSUME RingInv, NEW t \in Threads, at[t] = "copy"
               PROVE  CopyCount(t) <= MaxLen
    BY DEF CopyFits
  <2> DEFINE off == r_off[file[t]]
  <2>1. PICK B \in SUBSET Offsets : OnChain(B)
    BY DEF RingInv, ChainInv
  <2>2. file[t] \in readers /\ w_off # off
    BY DEF RingInv, FileInv, CopyInv, Empty
  <2>3. CopyCount(t) = get_entry_len(off)
    BY DEF RingInv, CopyInv, CopyCount
  <2>4. off \in Offsets /\ w_off \in Offsets
    BY LoggerAssumption DEF RingInv, TypeOK
  <2>5. Dist(off) # 0 /\ At(Dist(off)) = off
    BY <2>2, <2>4, DistAt DEF DistAtFacts
  <2>6. Dist(off) \in B
    BY <2>1, <2>2 DEF OnChain
  <2>7. get_entry_len(off) <= MaxLen
    BY <2>1, <2>5, <2>6 DEF OnChain, Chain
  <2> QED
    BY <2>3, <2>7
<1> QED
  BY <1>1, RingTheorem, PTL

-----------------------------------------------------------------------------
(* The entries that are unread *)

Items == Seq(Nat) \cup {"torn"}

LEMMA PayloadOf ==
  ASSUME BufferOK, NEW off \in Offsets
  PROVE  /\ Payload(off) \in Seq(Nat) /\ Payload(off) \in Items
         /\ Len(Payload(off)) = buffer[off]
         /\ \A i \in 1 .. buffer[off] :
              Payload(off)[i] = buffer[logger_offset(off + i)]
<1>1. buffer[off] \in Nat /\ off \in Int
  BY EntryLen, SizeFacts DEF Offsets
<1>2. \A i \in 1 .. buffer[off] : buffer[logger_offset(off + i)] \in Nat
  <2> SUFFICES ASSUME NEW i \in 1 .. buffer[off]
               PROVE  buffer[logger_offset(off + i)] \in Nat
    OBVIOUS
  <2>1. off + i \in Int
    BY <1>1
  <2>2. logger_offset(off + i) \in Offsets
    BY <2>1, OffsetValue
  <2> QED
    BY <2>2, EntryLen
<1>3. Payload(off) \in [1 .. buffer[off] -> Nat]
  BY <1>2 DEF Payload
<1>4. Payload(off) \in Seq(Nat) /\ Len(Payload(off)) = buffer[off]
  <2> DEFINE n == buffer[off]
             p == Payload(off)
  <2> HIDE DEF n, p
  <2>1. n \in Nat /\ p \in [1 .. n -> Nat]
    BY <1>1, <1>3 DEF n, p
  <2>2. p \in Seq(Nat)
    BY <2>1, SeqDef
  <2>3. Len(p) = n
    BY <2>1
  <2> QED
    BY <2>2, <2>3 DEF n, p
<1> QED
  BY <1>4 DEF Payload, Items

EntriesStep(f, x) ==
  IF x = 0 THEN <<>>
  ELSE IF get_entry_len(At(x)) > x THEN <<"torn">>
  ELSE <<Payload(At(x))>> \o f[x - get_entry_len(At(x))]

IsEntries(f) == f = [x \in Offsets |-> EntriesStep(f, x)]

(* The entries of the last x cells, for each x. *)
Entries == CHOOSE f : IsEntries(f)

(* A step from sequences of entries gives one. *)
LEMMA EntriesStepType ==
  ASSUME BufferOK, w_off \in Offsets, NEW x \in Offsets, NEW f,
         \A y \in Offsets : y < x => f[y] \in Seq(Items)
  PROVE  EntriesStep(f, x) \in Seq(Items)
<1>1. x \in Int /\ x >= 0 /\ x < Size /\ Size \in Nat
  BY SizeFacts DEF Offsets
<1>2. At(x) \in Offsets
  BY DistAt DEF DistAtFacts
<1>3. get_entry_len(At(x)) \in Int /\ get_entry_len(At(x)) >= 1
  BY <1>2, EntryLen, SizeFacts
<1>4. Payload(At(x)) \in Items
  BY <1>2, PayloadOf
<1>5. CASE x = 0
  <2>1. <<>> \in Seq(Items)
    OBVIOUS
  <2> QED
    BY <1>5, <2>1 DEF EntriesStep
<1>6. CASE x # 0 /\ get_entry_len(At(x)) > x
  <2>1. "torn" \in Items
    BY DEF Items
  <2>2. <<"torn">> \in Seq(Items)
    BY <2>1
  <2> QED
    BY <1>6, <2>2 DEF EntriesStep
<1>7. CASE x # 0 /\ ~(get_entry_len(At(x)) > x)
  <2> DEFINE y == x - get_entry_len(At(x))
  <2>1. y \in Offsets /\ y < x
    BY <1>1, <1>3, <1>7 DEF Offsets
  <2>2. f[y] \in Seq(Items)
    BY <2>1
  <2> HIDE DEF y
  <2>3. <<Payload(At(x))>> \in Seq(Items)
    BY <1>4
  <2>4. <<Payload(At(x))>> \o f[y] \in Seq(Items)
    BY <2>2, <2>3
  <2> QED
    BY <1>7, <2>4 DEF EntriesStep, y
<1> QED
  BY <1>5, <1>6, <1>7

LEMMA EntriesExist ==
  ASSUME BufferOK, w_off \in Offsets
  PROVE  \E f : IsEntries(f)
<1> DEFINE Upto(n, f) == \A x \in Offsets : x < n => f[x] = EntriesStep(f, x)
           T == {n \in Nat : \E f \in [Offsets -> Seq(Items)] : Upto(n, f)}
<1>0. Size \in Nat /\ \A x \in Offsets : x \in Nat /\ x < Size
  BY SizeFacts DEF Offsets
<1>1. ASSUME NEW n \in Nat, \A m \in Nat : m < n => m \in T
      PROVE  n \in T
  <2> SUFFICES \E f \in [Offsets -> Seq(Items)] : Upto(n, f)
    OBVIOUS
  <2>1. CASE n = 0
    <3>1. [x \in Offsets |-> <<>>] \in [Offsets -> Seq(Items)]
      OBVIOUS
    <3>2. Upto(n, [x \in Offsets |-> <<>>])
      BY <1>0, <2>1
    <3> QED
      BY <3>1, <3>2
  <2>2. CASE n # 0
    <3> DEFINE k == n - 1
    <3>1. k \in Nat /\ k < n
      BY <2>2
    <3>2. PICK f \in [Offsets -> Seq(Items)] : Upto(k, f)
      BY <1>1, <3>1
    <3>3. CASE k \notin Offsets
      <4>1. \A x \in Offsets : x < n => x < k
        <5> SUFFICES ASSUME NEW x \in Offsets, x < n PROVE x < k
          OBVIOUS
        <5>1. x \in Nat /\ x # k
          BY <1>0, <3>3
        <5> QED
          BY <5>1
      <4>2. Upto(n, f)
        BY <3>2, <4>1
      <4> QED
        BY <4>2
    <3>4. CASE k \in Offsets
      <4> DEFINE v == EntriesStep(f, k)
                 g == [f EXCEPT ![k] = v]
      <4>1. v \in Seq(Items)
        BY <3>4, EntriesStepType
      <4>2. g \in [Offsets -> Seq(Items)]
        BY <4>1
      <4>3. ASSUME NEW x \in Offsets, x < n
            PROVE  g[x] = EntriesStep(g, x)
        <5>1. x \in Nat /\ x <= k
          BY <1>0, <4>3, <3>1
        <5>2. At(x) \in Offsets
          BY DistAt DEF DistAtFacts
        <5>3. get_entry_len(At(x)) \in Int /\ get_entry_len(At(x)) >= 1
          BY <5>2, EntryLen, SizeFacts
        <5> DEFINE y == x - get_entry_len(At(x))
        <5>4. ~(get_entry_len(At(x)) > x) => y \in Offsets /\ y # k
          BY <1>0, <3>1, <5>1, <5>3 DEF Offsets
        <5>5. ~(get_entry_len(At(x)) > x) => g[y] = f[y]
          <6> HIDE DEF y, k, v
          <6> QED
            BY <5>4
        <5>6. EntriesStep(g, x) = EntriesStep(f, x)
          <6> HIDE DEF g
          <6> QED
            BY <5>5 DEF EntriesStep
        <5>7. CASE x = k
          <6> HIDE DEF k, v
          <6>1. g[x] = v
            BY <3>4, <5>7
          <6> QED
            BY <5>6, <5>7, <6>1 DEF v
        <5>8. CASE x # k
          <6>1. x < k
            BY <3>1, <5>1, <5>8
          <6>2. f[x] = EntriesStep(f, x)
            BY <3>2, <6>1
          <6>3. g[x] = f[x]
            BY <5>8
          <6> QED
            BY <5>6, <6>2, <6>3
        <5> QED
          BY <5>7, <5>8
      <4> QED
        BY <4>2, <4>3
    <3> QED
      BY <3>3, <3>4
  <2> QED
    BY <2>1, <2>2
<1>2. \A n \in Nat : n \in T
  <2> HIDE DEF T
  <2> QED
    BY <1>1, Induction
<1>3. PICK f \in [Offsets -> Seq(Items)] : Upto(Size, f)
  BY <1>0, <1>2
<1>4. \A x \in Offsets : f[x] = EntriesStep(f, x)
  BY <1>0, <1>3
<1>5. f = [x \in Offsets |-> f[x]]
  OBVIOUS
<1>6. f = [x \in Offsets |-> EntriesStep(f, x)]
  BY <1>4, <1>5
<1> QED
  BY <1>6 DEF IsEntries

(* What is known of the entries and of Unread. *)
EntriesFacts ==
  /\ Entries[0] = <<>>
  /\ \A x \in Offsets : Entries[x] \in Seq(Items)
  /\ \A x \in Offsets :
       x # 0 /\ get_entry_len(At(x)) <= x =>
         Entries[x] = <<Payload(At(x))>> \o Entries[x - get_entry_len(At(x))]
  /\ \A off \in Offsets : Unread(off) = Entries[Dist(off)]

HeadsOK == BufferOK /\ w_off \in Offsets

LEMMA EntriesAre == HeadsOK => EntriesFacts
<1> SUFFICES ASSUME BufferOK, w_off \in Offsets PROVE EntriesFacts
  BY DEF HeadsOK
<1>0. Size \in Nat /\ 0 \in Offsets /\ \A x \in Offsets : x \in Nat /\ x < Size
  BY SizeFacts DEF Offsets
<1>1. IsEntries(Entries)
  BY EntriesExist DEF Entries
<1>2. \A x \in Offsets : Entries[x] = EntriesStep(Entries, x)
  BY <1>1 DEF IsEntries
<1>3. \A off \in Offsets : Unread(off) = Entries[Dist(off)]
  BY DEF Unread, Entries, IsEntries, EntriesStep, At, Dist
<1> DEFINE T == {n \in Nat : n \in Offsets => Entries[n] \in Seq(Items)}
<1>4. ASSUME NEW n \in Nat, \A m \in Nat : m < n => m \in T
      PROVE  n \in T
  BY <1>0, <1>2, <1>4, EntriesStepType
<1>5. \A n \in Nat : n \in T
  <2> HIDE DEF T
  <2> QED
    BY <1>4, Induction
<1>6. \A x \in Offsets : Entries[x] \in Seq(Items)
  BY <1>0, <1>5
<1>7. Entries[0] = <<>>
  BY <1>0, <1>2 DEF EntriesStep
<1>8. ASSUME NEW x \in Offsets, x # 0, get_entry_len(At(x)) <= x
      PROVE  Entries[x] = <<Payload(At(x))>> \o Entries[x - get_entry_len(At(x))]
  <2>1. get_entry_len(At(x)) \in Int
    BY DistAt, EntryLen, SizeFacts DEF DistAtFacts
  <2>2. ~(get_entry_len(At(x)) > x)
    BY <1>0, <1>8, <2>1
  <2> QED
    BY <1>2, <1>8, <2>2 DEF EntriesStep
<1> QED
  BY <1>3, <1>6, <1>7, <1>8 DEF EntriesFacts

(* A read delivers one whole entry, the oldest that was not read, also to  *)
(* a reader that was lapped in the middle of it: for any size of the       *)
(* buffer, any entries and any number of readers and writers, while no two *)
(* threads read from the same file and nobody flushes in the middle.       *)
THEOREM OldestTheorem ==
  ASSUME OneThreadPerFile, FlushAnytime = FALSE
  PROVE  Spec => ReadsOldestEntry
<1> DEFINE Oldest ==
             \A t \in Threads :
               do_read_log_to_user(t) =>
                 LET q == Unread(r_off[file[t]])
                 IN  q # <<>> /\ Copied(t) = <<Len(q[1])>> \o q[1]
<1>1. ASSUME RingInv, NEW t \in Threads, do_read_log_to_user(t)
      PROVE  LET q == Unread(r_off[file[t]])
             IN  q # <<>> /\ Copied(t) = <<Len(q[1])>> \o q[1]
  <2> DEFINE off == r_off[file[t]]
             d == Dist(off)
             l == get_entry_len(off)
             q == Unread(off)
  <2>1. PICK B \in SUBSET Offsets : OnChain(B)
    BY <1>1 DEF RingInv, ChainInv
  <2>2. /\ off \in Offsets /\ d \in B /\ d # 0 /\ At(d) = off
        /\ l \in 1 .. d /\ d - l \in B /\ CopyCount(t) = l
    BY <1>1, <2>1, CopyTakes
  <2>3. HeadsOK
    BY <1>1 DEF RingInv, TypeOK, HeadsOK, BufferOK
  <2>4. EntriesFacts
    BY <2>3, EntriesAre
  <2>5. q = Entries[d]
    BY <2>2, <2>4 DEF EntriesFacts
  <2>6. q = <<Payload(off)>> \o Entries[d - l] /\ Entries[d - l] \in Seq(Items)
    <3>1. l <= d
      BY <2>2
    <3> QED
      BY <2>2, <2>4, <2>5, <3>1 DEF EntriesFacts
  <2>7. /\ Payload(off) \in Seq(Nat) /\ Payload(off) \in Items
        /\ Len(Payload(off)) = buffer[off]
        /\ \A i \in 1 .. buffer[off] :
             Payload(off)[i] = buffer[logger_offset(off + i)]
    BY <2>2, <2>3, PayloadOf DEF HeadsOK
  <2>8. l = 1 + buffer[off] /\ buffer[off] \in Nat
    BY <2>2, <2>3, EntryLen, SizeFacts DEF HeadsOK
  <2> DEFINE P == Payload(off)
             E == Entries[d - l]
  <2>9. q # <<>> /\ q[1] = P
    <3> HIDE DEF P, E, q
    <3>1. P \in Items /\ E \in Seq(Items) /\ q = <<P>> \o E
      BY <2>6, <2>7 DEF P, E
    <3> QED
      BY <3>1
  <2>10. Copied(t) = [i \in 1 .. l |-> buffer[logger_offset(off + i - 1)]]
    BY <2>2 DEF Copied
  <2>11. <<Len(P)>> \o P = [i \in 1 .. l |-> IF i = 1 THEN Len(P) ELSE P[i - 1]]
    <3>1. P \in Seq(Nat) /\ l = 1 + Len(P) /\ Len(P) \in Nat
      BY <2>7, <2>8
    <3> HIDE DEF P, l
    <3> QED
      BY <3>1
  <2>12. ASSUME NEW i \in 1 .. l
         PROVE  buffer[logger_offset(off + i - 1)] =
                  IF i = 1 THEN Len(P) ELSE P[i - 1]
    <3>1. off \in Int /\ i \in Int /\ i >= 1 /\ off \in 0 .. Size - 1
      BY <2>2, <2>8, SizeFacts DEF Offsets
    <3>2. CASE i = 1
      <4>1. off + i - 1 = off
        BY <3>1, <3>2
      <4>2. logger_offset(off) = off
        BY <3>1, OffsetValue
      <4> QED
        BY <2>7, <3>2, <4>1, <4>2
    <3>3. CASE i # 1
      <4>1. i - 1 \in 1 .. buffer[off] /\ off + i - 1 = off + (i - 1)
        BY <2>8, <3>1, <3>3
      <4> QED
        BY <2>7, <3>3, <4>1
    <3> QED
      BY <3>2, <3>3
  <2>13. Copied(t) = <<Len(P)>> \o P
    <3> HIDE DEF P, l
    <3> QED
      BY <2>10, <2>11, <2>12
  <2> QED
    BY <2>9, <2>13
<1>2. RingInv /\ [Next]_vars => [Oldest]_vars
  BY <1>1
<1> QED
  BY <1>2, RingTheorem, PTL DEF ReadsOldestEntry, Spec

-----------------------------------------------------------------------------
(* The ring buffer implements the queues *)

Entry == Seq(Nat)

(* Space, as a recursive function. *)
LEMMA SpaceIs ==
  ASSUME NEW q \in Seq(Entry)
  PROVE  \E f \in [0 .. Len(q) -> Nat] :
           /\ f[0] = 0
           /\ \A n \in 1 .. Len(q) : f[n] = 1 + Len(q[n]) + f[n - 1]
           /\ Abstract!Space(q) = f[Len(q)]
<1> DEFINE D == 0 .. Len(q)
           Step(f, n) == IF n = 0 THEN 0 ELSE Abstract!EntryLen(q[n]) + f[n - 1]
           Upto(n, f) == \A k \in D : k <= n => f[k] = Step(f, k)
           T == {n \in Nat : \E f \in [D -> Nat] : Upto(n, f)}
<1>1. Len(q) \in Nat
  OBVIOUS
<1>2. \A n \in 1 .. Len(q) : Len(q[n]) \in Nat /\ Abstract!EntryLen(q[n]) = 1 + Len(q[n])
  BY DEF Entry, Abstract!EntryLen, HeaderLen
<1>3. \A n \in 1 .. Len(q) : Abstract!EntryLen(q[n]) \in Nat
  BY <1>2
<1>4. ASSUME NEW n \in Nat, \A m \in Nat : m < n => m \in T
      PROVE  n \in T
  <2> SUFFICES \E f \in [D -> Nat] : Upto(n, f)
    OBVIOUS
  <2>1. CASE n = 0
    <3>1. [k \in D |-> 0] \in [D -> Nat]
      OBVIOUS
    <3>2. Upto(n, [k \in D |-> 0])
      BY <1>1, <2>1
    <3> QED
      BY <3>1, <3>2
  <2>2. CASE n # 0
    <3>1. n - 1 \in Nat /\ n - 1 < n
      BY <2>2
    <3>2. PICK f \in [D -> Nat] : Upto(n - 1, f)
      BY <1>4, <3>1
    <3>3. CASE n \notin D
      <4>1. Upto(n, f)
        BY <1>1, <3>2, <3>3
      <4> QED
        BY <4>1
    <3>4. CASE n \in D
      <4> DEFINE v == Abstract!EntryLen(q[n]) + f[n - 1]
                 g == [f EXCEPT ![n] = v]
      <4>1. n \in 1 .. Len(q) /\ n - 1 \in D
        BY <1>1, <2>2, <3>4
      <4>2. v \in Nat
        BY <1>3, <4>1
      <4>3. g \in [D -> Nat]
        BY <4>2
      <4>4. ASSUME NEW k \in D, k <= n
            PROVE  g[k] = Step(g, k)
        <5>1. k \in Nat /\ (k # 0 => k - 1 \in D /\ k - 1 # n)
          BY <1>1, <4>4
        <5>2. k # 0 => g[k - 1] = f[k - 1]
          <6> HIDE DEF v, D
          <6> QED
            BY <5>1
        <5>3. CASE k = n
          <6>1. g[k] = v
            <7> HIDE DEF v, D
            <7> QED
              BY <3>4, <5>3
          <6> QED
            BY <2>2, <5>2, <5>3, <6>1
        <5>4. CASE k # n
          <6>1. g[k] = f[k]
            <7> HIDE DEF v, D
            <7> QED
              BY <5>4
          <6>2. f[k] = Step(f, k)
            BY <3>2, <4>4, <5>1, <5>4
          <6> QED
            BY <5>2, <6>1, <6>2
        <5> QED
          BY <5>3, <5>4
      <4> QED
        BY <4>3, <4>4
    <3> QED
      BY <3>3, <3>4
  <2> QED
    BY <2>1, <2>2
<1>5. \A n \in Nat : n \in T
  <2> HIDE DEF T
  <2> QED
    BY <1>4, Induction
<1>6. PICK f \in [D -> Nat] : Upto(Len(q), f)
  BY <1>1, <1>5
<1>7. f = [n \in D |-> Step(f, n)]
  <2>1. \A n \in D : f[n] = Step(f, n)
    BY <1>1, <1>6
  <2>2. f = [n \in D |-> f[n]]
    OBVIOUS
  <2> QED
    BY <2>1, <2>2
<1> DEFINE used == CHOOSE h : h = [n \in D |-> Step(h, n)]
<1>8. used = [n \in D |-> Step(used, n)]
  BY <1>7
<1>9. Abstract!Space(q) = used[Len(q)]
  BY DEF Abstract!Space
<1> HIDE DEF used
<1>10. used[0] = 0 /\ \A n \in 1 .. Len(q) : used[n] = 1 + Len(q[n]) + used[n - 1]
  <2>1. \A n \in D : used[n] = Step(used, n)
    BY <1>8
  <2>2. 0 \in D /\ \A n \in 1 .. Len(q) : n \in D /\ n # 0
    BY <1>1
  <2> QED
    BY <1>2, <2>1, <2>2
<1> DEFINE S == {n \in Nat : n \in D => used[n] \in Nat}
<1>11. ASSUME NEW n \in Nat, \A m \in Nat : m < n => m \in S
       PROVE  n \in S
  <2>1. CASE n = 0
    BY <1>10, <2>1
  <2>2. CASE n # 0 /\ n \in D
    <3>1. n \in 1 .. Len(q) /\ n - 1 \in Nat /\ n - 1 < n /\ n - 1 \in D
      BY <1>1, <2>2
    <3>2. used[n - 1] \in Nat
      BY <1>11, <3>1
    <3>3. used[n] = 1 + Len(q[n]) + used[n - 1] /\ Len(q[n]) \in Nat
      BY <1>2, <1>10, <3>1
    <3> DEFINE a == Len(q[n])
               b == used[n - 1]
    <3>4. 1 + a + b \in Nat
      <4> HIDE DEF a, b
      <4> QED
        BY <3>2, <3>3 DEF a, b
    <3> QED
      BY <3>3, <3>4
  <2> QED
    BY <2>1, <2>2
<1>12. \A n \in Nat : n \in S
  <2> HIDE DEF S
  <2> QED
    BY <1>11, Induction
<1>13. used \in [D -> Nat]
  <2>1. \A n \in D : used[n] \in Nat
    BY <1>1, <1>12
  <2>2. used = [n \in D |-> used[n]]
    BY <1>8
  <2> QED
    BY <2>1, <2>2
<1> QED
  BY <1>9, <1>10, <1>13

LEMMA SpaceNil == Abstract!Space(<<>>) = 0
<1>1. <<>> \in Seq(Entry) /\ Len(<<>>) = 0
  OBVIOUS
<1> QED
  BY <1>1, SpaceIs

(* An entry in front takes its own space. *)
LEMMA SpaceCons ==
  ASSUME NEW q \in Seq(Entry), NEW p \in Entry
  PROVE  Abstract!Space(<<p>> \o q) = 1 + Len(p) + Abstract!Space(q)
<1> DEFINE s == <<p>> \o q
<1>1. /\ s \in Seq(Entry) /\ Len(s) = 1 + Len(q) /\ Len(q) \in Nat
      /\ s[1] = p /\ \A n \in 1 .. Len(q) : s[n + 1] = q[n]
  OBVIOUS
<1>2. Len(p) \in Nat
  BY DEF Entry
<1> HIDE DEF s
<1>3. PICK f \in [0 .. Len(s) -> Nat] :
        /\ f[0] = 0
        /\ \A n \in 1 .. Len(s) : f[n] = 1 + Len(s[n]) + f[n - 1]
        /\ Abstract!Space(s) = f[Len(s)]
  BY <1>1, SpaceIs
<1>4. PICK g \in [0 .. Len(q) -> Nat] :
        /\ g[0] = 0
        /\ \A n \in 1 .. Len(q) : g[n] = 1 + Len(q[n]) + g[n - 1]
        /\ Abstract!Space(q) = g[Len(q)]
  BY SpaceIs
<1> DEFINE T == {n \in Nat : n <= Len(q) => f[n + 1] = 1 + Len(p) + g[n]}
<1>5. ASSUME NEW n \in Nat, \A m \in Nat : m < n => m \in T
      PROVE  n \in T
  <2>1. CASE n = 0
    <3>1. 1 \in 1 .. Len(s) /\ 1 - 1 = 0 /\ n + 1 = 1
      BY <1>1, <2>1
    <3>2. f[1] = 1 + Len(p) + 0
      BY <1>1, <1>2, <1>3, <3>1
    <3> QED
      BY <1>4, <2>1, <3>1, <3>2
  <2>2. CASE n # 0 /\ n <= Len(q)
    <3>1. /\ n \in 1 .. Len(q) /\ n - 1 \in Nat /\ n - 1 < n /\ n - 1 <= Len(q)
          /\ (n - 1) + 1 = n /\ n + 1 \in 1 .. Len(s) /\ (n + 1) - 1 = n
          /\ n - 1 \in 0 .. Len(q)
      BY <1>1, <2>2
    <3>2. f[n] = 1 + Len(p) + g[n - 1]
      <4>1. n - 1 \in T
        BY <1>5, <3>1
      <4> QED
        BY <3>1, <4>1
    <3>3. f[n + 1] = 1 + Len(q[n]) + f[n]
      BY <1>1, <1>3, <3>1
    <3>4. g[n] = 1 + Len(q[n]) + g[n - 1]
      BY <1>4, <3>1
    <3>5. Len(q[n]) \in Nat /\ g[n - 1] \in Nat
      <4>1. q[n] \in Entry
        BY <3>1
      <4>2. Len(q[n]) \in Nat
        BY <4>1 DEF Entry
      <4> QED
        BY <1>4, <3>1, <4>2
    <3>6. f[n + 1] = 1 + Len(p) + g[n]
      BY <1>2, <3>2, <3>3, <3>4, <3>5
    <3> QED
      BY <3>6
  <2> QED
    BY <2>1, <2>2
<1>6. \A n \in Nat : n \in T
  <2> HIDE DEF T
  <2> QED
    BY <1>5, Induction
<1>7. f[Len(q) + 1] = 1 + Len(p) + g[Len(q)]
  BY <1>1, <1>6
<1>8. Len(s) = Len(q) + 1
  BY <1>1
<1> QED
  BY <1>3, <1>4, <1>7, <1>8 DEF s

(* The entries on the chain are whole, and take the space up to the write  *)
(* head.                                                                   *)
LEMMA ChainSpace ==
  ASSUME HeadsOK, NEW B, B \subseteq Offsets, Chain(B)
  PROVE  \A x \in B : /\ Entries[x] \in Seq(Entry)
                      /\ Abstract!Space(Entries[x]) = x
<1> DEFINE T == {x \in Nat : x \in B => /\ Entries[x] \in Seq(Entry)
                                        /\ Abstract!Space(Entries[x]) = x}
<1>1. EntriesFacts /\ DistAtFacts /\ BufferOK
  BY EntriesAre, DistAt DEF HeadsOK
<1>2. ASSUME NEW x \in Nat, \A y \in Nat : y < x => y \in T
      PROVE  x \in T
  <2>1. CASE x \notin B
    BY <2>1
  <2>2. CASE x \in B /\ x = 0
    <3>1. Entries[x] = <<>>
      BY <1>1, <2>2 DEF EntriesFacts
    <3>2. <<>> \in Seq(Entry)
      OBVIOUS
    <3> QED
      BY <2>2, <3>1, <3>2, SpaceNil
  <2>3. CASE x \in B /\ x # 0
    <3> DEFINE l == get_entry_len(At(x))
               p == Payload(At(x))
               s == Entries[x - l]
    <3>1. x \in Offsets /\ At(x) \in Offsets
      BY <1>1, <2>3 DEF DistAtFacts
    <3>2. l <= x /\ x - l \in B
      BY <2>3 DEF Chain
    <3>3. l = 1 + buffer[At(x)] /\ buffer[At(x)] \in Nat
      <4>1. l = 1 + buffer[At(x)] /\ buffer[At(x)] \in Nat
        BY <1>1, <3>1, EntryLen
      <4> QED
        BY <4>1, SizeFacts
    <3>4. p \in Entry /\ Len(p) = buffer[At(x)]
      BY <1>1, <3>1, PayloadOf DEF Entry
    <3>5. Entries[x] = <<p>> \o s
      BY <1>1, <2>3, <3>1, <3>2 DEF EntriesFacts
    <3> HIDE DEF l, p
    <3>6. x - l \in Nat /\ x - l < x
      BY <3>2, <3>3
    <3>7. s \in Seq(Entry) /\ Abstract!Space(s) = x - l
      <4>1. x - l \in T
        BY <1>2, <3>6
      <4> QED
        BY <3>2, <4>1
    <3> HIDE DEF s
    <3>8. <<p>> \o s \in Seq(Entry)
      BY <3>4, <3>7
    <3>9. Abstract!Space(<<p>> \o s) = 1 + Len(p) + (x - l)
      BY <3>4, <3>7, SpaceCons
    <3>10. 1 + Len(p) + (x - l) = x
      BY <3>3, <3>4, <3>6
    <3> QED
      BY <3>5, <3>8, <3>9, <3>10
  <2> QED
    BY <2>1, <2>2, <2>3
<1>3. \A x \in Nat : x \in T
  <2> HIDE DEF T
  <2> QED
    BY <1>2, Induction
<1>4. \A x \in B : x \in Nat
  BY SizeFacts DEF Offsets
<1> QED
  BY <1>3, <1>4

(* A write puts its entry behind those that it leaves. *)
LEMMA WriteAppends ==
  ASSUME HeadsOK, NEW e \in Payloads, do_write_log(e),
         NEW len, len = 1 + Len(e), NEW B, B \subseteq Offsets, Chain(B)
  PROVE  \A x \in B : x < Size - len => Entries'[x + len] = Append(Entries[x], e)
<1> DEFINE T == {x \in Nat : x \in B /\ x < Size - len =>
                               Entries'[x + len] = Append(Entries[x], e)}
<1>1. EntriesFacts /\ DistAtFacts /\ BufferOK /\ w_off \in Offsets
  BY EntriesAre, DistAt DEF HeadsOK
<1>2. HeadsOK'
  BY <1>1, WrittenCells DEF HeadsOK, BufferOK
<1>3. EntriesFacts' /\ DistAtFacts' /\ BufferOK'
  <2>1. HeadsOK' => EntriesFacts'
    BY EntriesAre, PTL
  <2>2. (w_off \in Offsets)' => DistAtFacts'
    BY DistAt, PTL
  <2> QED
    BY <1>2, <2>1, <2>2 DEF HeadsOK
<1>4. /\ Len(e) \in Int /\ len \in Int /\ len >= 2 /\ Size \in Nat
      /\ Len(e) = len - 1 /\ e \in Entry
  <2>1. Len(e) \in 1 .. MaxPayload /\ e \in Seq(Nat)
    BY PayloadType
  <2> QED
    BY <2>1, SizeFacts DEF Entry
<1>5. \A x \in B : x \in Offsets /\ x \in Int /\ x >= 0
  BY <1>4 DEF Offsets
<1>6. ASSUME NEW x \in B, x < Size - len
      PROVE  /\ x + len \in Offsets /\ x + len # 0 /\ At(x + len)' = At(x)
             /\ x # 0 => \A k \in 0 .. x - 1 : buffer'[At(x - k)] = buffer[At(x - k)]
             /\ x = 0 => /\ buffer'[At(x)] = Len(e)
                         /\ \A k \in 1 .. Len(e) :
                              buffer'[logger_offset(At(x) + k)] = e[k]
  <2>1. x \in Offsets /\ x + len # 0
    BY <1>4, <1>5
  <2> QED
    BY <1>1, <1>6, <2>1, WriteKeeps
<1> DEFINE After(x) ==
             [i \in 1 .. buffer'[At(x)] |-> buffer'[logger_offset(At(x) + i)]]
<1>7. ASSUME NEW x \in B, x < Size - len, NEW y, y = x + len,
             NEW l, l = 1 + buffer'[At(x)], l <= y
      PROVE  Entries'[y] = <<After(x)>> \o Entries'[y - l]
  <2>1. y \in Offsets /\ y # 0 /\ At(y)' = At(x)
    BY <1>6, <1>7 DEF At
  <2>2. get_entry_len(At(y))' = l
    BY <1>7, <2>1 DEF get_entry_len, HeaderLen
  <2>3. Payload(At(y))' = After(x)
    BY <2>1 DEF Payload, logger_offset
  <2>4. \A z \in Offsets :
          z # 0 /\ get_entry_len(At(z))' <= z =>
            Entries'[z] = <<Payload(At(z))'>> \o Entries'[z - get_entry_len(At(z))']
    BY <1>3 DEF EntriesFacts
  <2> HIDE DEF After
  <2>5. Entries'[y] = <<Payload(At(y))'>> \o Entries'[y - get_entry_len(At(y))']
    BY <1>7, <2>1, <2>2, <2>4
  <2> QED
    BY <2>2, <2>3, <2>5
<1>8. ASSUME NEW x \in B, x < Size - len, 1 + buffer'[At(x)] <= x + len
      PROVE  Entries'[x + len] =
               <<After(x)>> \o Entries'[x + len - (1 + buffer'[At(x)])]
  <2> HIDE DEF After
  <2>1. PICK y : y = x + len
    OBVIOUS
  <2>2. PICK l : l = 1 + buffer'[At(x)]
    OBVIOUS
  <2>3. l <= y
    BY <1>8, <2>1, <2>2
  <2>4. Entries'[y] = <<After(x)>> \o Entries'[y - l]
    BY <1>7, <1>8, <2>1, <2>2, <2>3
  <2> DEFINE E == Entries'
             a == After(x)
             b == buffer'[At(x)]
  <2>5. E[y] = <<a>> \o E[y - l] /\ y = x + len /\ l = 1 + b
    BY <2>1, <2>2, <2>4
  <2>6. b \in Int /\ x \in Int /\ len \in Int
    <3>1. At(x) \in Offsets
      BY <1>1, <1>5 DEF DistAtFacts
    <3> QED
      BY <1>3, <1>4, <1>5, <3>1, SizeFacts DEF BufferOK
  <2> HIDE DEF E, a, b
  <2>7. E[x + len] = <<a>> \o E[x + len - (1 + b)]
    BY <2>5, <2>6
  <2> QED
    BY <2>7 DEF E, a, b
<1>9. ASSUME NEW x \in Nat, \A y \in Nat : y < x => y \in T
      PROVE  x \in T
  <2> SUFFICES ASSUME x \in B, x < Size - len
               PROVE  Entries'[x + len] = Append(Entries[x], e)
    OBVIOUS
  <2>1. CASE x = 0
    <3>1. buffer'[At(x)] = Len(e) /\ \A k \in 1 .. Len(e) :
                                buffer'[logger_offset(At(x) + k)] = e[k]
      BY <1>6, <2>1
    <3>2. After(x) = e
      <4>1. After(x) = [i \in 1 .. Len(e) |-> e[i]]
        BY <3>1
      <4>2. e = [i \in 1 .. Len(e) |-> e[i]]
        BY <1>4 DEF Entry
      <4> QED
        BY <4>1, <4>2
    <3>3. 1 + Len(e) = 1 + buffer'[At(x)] /\ 1 + Len(e) <= x + len
      BY <1>4, <2>1, <3>1
    <3>4. Entries'[x + len] = <<e>> \o Entries'[x + len - (1 + Len(e))]
      BY <1>7, <3>2, <3>3
    <3>5. x + len - (1 + Len(e)) = 0
      BY <1>4, <2>1
    <3>6. Entries'[0] = <<>> /\ Entries[x] = <<>>
      BY <1>1, <1>3, <2>1 DEF EntriesFacts
    <3>7. <<e>> \o <<>> = Append(<<>>, e)
      OBVIOUS
    <3> QED
      BY <3>4, <3>5, <3>6, <3>7
  <2>2. CASE x # 0
    <3> DEFINE l == get_entry_len(At(x))
               p == Payload(At(x))
    <3>1. x \in Offsets /\ At(x) \in Offsets
      BY <1>1, <1>5 DEF DistAtFacts
    <3>2. l <= x /\ x - l \in B
      BY <2>2 DEF Chain
    <3>3. l = 1 + buffer[At(x)] /\ buffer[At(x)] \in Nat
      <4>1. l = 1 + buffer[At(x)] /\ buffer[At(x)] \in Nat
        BY <1>1, <3>1, EntryLen
      <4> QED
        BY <4>1, SizeFacts
    <3>4. \A k \in 0 .. x - 1 : buffer'[At(x - k)] = buffer[At(x - k)]
      BY <1>6, <2>2
    <3>5. buffer'[At(x)] = buffer[At(x)]
      <4>1. 0 \in 0 .. x - 1 /\ x - 0 = x
        BY <2>2
      <4> QED
        BY <3>4, <4>1
    <3>6. \A i \in 1 .. buffer[At(x)] :
            buffer'[logger_offset(At(x) + i)] = buffer[logger_offset(At(x) + i)]
      <4> SUFFICES ASSUME NEW i \in 1 .. buffer[At(x)]
                   PROVE  buffer'[logger_offset(At(x) + i)] =
                            buffer[logger_offset(At(x) + i)]
        OBVIOUS
      <4> HIDE DEF l
      <4>1. i \in 0 .. x - 1 /\ i \in 0 .. x
        BY <3>2, <3>3
      <4>2. logger_offset(At(x) + i) = At(x - i)
        BY <1>1, <3>1, <4>1 DEF DistAtFacts
      <4> QED
        BY <3>4, <4>1, <4>2
    <3>7. After(x) = p
      BY <3>5, <3>6 DEF Payload
    <3>8. l = 1 + buffer'[At(x)] /\ l <= x + len
      <4> HIDE DEF l
      <4> QED
        BY <1>4, <3>2, <3>3, <3>5
    <3>9. Entries'[x + len] = <<p>> \o Entries'[x + len - l]
      <4>1. 1 + buffer'[At(x)] <= x + len
        BY <3>8
      <4>2. Entries'[x + len] =
              <<After(x)>> \o Entries'[x + len - (1 + buffer'[At(x)])]
        BY <1>8, <4>1
      <4> QED
        BY <3>7, <3>8, <4>2
    <3>10. Entries[x] = <<p>> \o Entries[x - l]
      BY <1>1, <2>2, <3>1, <3>2 DEF EntriesFacts
    <3> DEFINE s == Entries[x - l]
    <3>11. s \in Seq(Items) /\ p \in Items
      BY <1>1, <1>5, <3>1, <3>2, PayloadOf DEF EntriesFacts
    <3>12. e \in Items
      BY <1>4 DEF Entry, Items
    <3> HIDE DEF l, p
    <3>13. x - l \in Nat /\ x - l < x /\ x - l < Size - len /\ x + len - l = (x - l) + len
      BY <1>4, <3>2, <3>3
    <3>14. Entries'[(x - l) + len] = Append(s, e)
      <4>1. x - l \in T
        BY <1>9, <3>13
      <4> QED
        BY <3>2, <3>13, <4>1
    <3> HIDE DEF s
    <3>15. <<p>> \o Append(s, e) = Append(<<p>> \o s, e)
      BY <3>11, <3>12
    <3> QED
      BY <3>9, <3>10, <3>13, <3>14, <3>15 DEF s
  <2> QED
    BY <2>1, <2>2
<1>10. \A x \in Nat : x \in T
  <2> HIDE DEF T
  <2> QED
    BY <1>9, Induction
<1>11. \A x \in B : x \in Nat
  BY <1>5
<1> QED
  BY <1>10, <1>11

LEMMA Suffix ==
  ASSUME NEW S, NEW q \in Seq(S), NEW n \in 0 .. Len(q), NEW p \in S, NEW s \in Seq(S),
         SubSeq(q, n + 1, Len(q)) = <<p>> \o s
  PROVE  n + 1 \in 1 .. Len(q) /\ s = SubSeq(q, (n + 1) + 1, Len(q))
<1> DEFINE t == SubSeq(q, n + 1, Len(q))
           u == SubSeq(q, n + 2, Len(q))
<1>1. Len(q) \in Nat /\ n \in Nat /\ n <= Len(q) /\ Len(s) \in Nat
  OBVIOUS
<1>2. /\ Len(t) = Len(q) - n
      /\ \A i \in 1 .. Len(q) - n : t[i] = q[n + i]
  BY <1>1, SubSeqProperties
<1>3. /\ Len(t) = 1 + Len(s)
      /\ \A i \in 1 .. Len(s) : t[i + 1] = s[i]
  <2>1. /\ Len(<<p>> \o s) = 1 + Len(s)
        /\ \A i \in 1 .. Len(s) : (<<p>> \o s)[i + 1] = s[i]
    BY <1>1
  <2> QED
    BY <2>1
<1> HIDE DEF t
<1>4. n + 1 \in 1 .. Len(q) /\ Len(s) = Len(q) - (n + 1) /\ (n + 1) + 1 = n + 2
  BY <1>1, <1>2, <1>3
<1>5. /\ Len(u) = Len(q) - (n + 1) /\ u \in Seq(S)
      /\ \A i \in 1 .. Len(q) - (n + 1) : u[i] = q[n + 1 + i]
  BY <1>1, <1>4, SubSeqProperties
<1> HIDE DEF u
<1>6. \A i \in 1 .. Len(s) : s[i] = u[i]
  <2> SUFFICES ASSUME NEW i \in 1 .. Len(s) PROVE s[i] = u[i]
    OBVIOUS
  <2>1. /\ i + 1 \in 1 .. Len(q) - n /\ n + (i + 1) = n + 1 + i
        /\ i \in 1 .. Len(q) - (n + 1)
    BY <1>1, <1>4
  <2>2. t[i + 1] = q[n + (i + 1)]
    BY <1>2, <2>1
  <2> QED
    BY <1>3, <1>5, <2>1, <2>2
<1>7. s = u
  BY <1>4, <1>5, <1>6
<1> QED
  BY <1>4, <1>7 DEF u

(* What a write does to the unread entries q: it drops none, or, when it   *)
(* laps the offset, some of the oldest; then it appends its own.           *)
Written(off, len, e, q, q2) ==
  \E n \in 0 .. Len(q) :
    /\ q2 = Append(SubSeq(q, n + 1, Len(q)), e)
    /\ Lapped(off, len) <=> n > 0
    /\ n > 0 => Abstract!Space(q) + len >= Size

LEMMA WriteQueue ==
  ASSUME TypeOK, NEW e \in Payloads, do_write_log(e),
         NEW len, len = 1 + Len(e), NEW B, B \subseteq Offsets, Chain(B),
         NEW off \in Offsets, Dist(off) \in B,
         NEW off2, off2 = IF Lapped(off, len) THEN get_next_entry(off, len) ELSE off,
         NEW q, q = Unread(off)
  PROVE  /\ q \in Seq(Entry) /\ logger_offset(w_off' - off2) \in Offsets
         /\ Written(off, len, e, q, Entries'[logger_offset(w_off' - off2)])
<1> DEFINE d == Dist(off)
           G == {x \in B : \E n \in 0 .. Len(q) :
                             /\ Entries[x] = SubSeq(q, n + 1, Len(q))
                             /\ (x = d) <=> (n = 0)}
<1>1. HeadsOK /\ BufferOK /\ w_off \in Offsets
  BY DEF HeadsOK, BufferOK, TypeOK
<1>2. EntriesFacts /\ DistAtFacts
  BY <1>1, EntriesAre, DistAt
<1>3. q = Entries[d] /\ d \in B /\ d \in Offsets
  BY <1>2 DEF EntriesFacts, DistAtFacts
<1>4. \A x \in B : Entries[x] \in Seq(Entry) /\ Abstract!Space(Entries[x]) = x
  BY <1>1, ChainSpace
<1>5. q \in Seq(Entry) /\ Len(q) \in Nat /\ Abstract!Space(q) = d
  BY <1>3, <1>4
<1>6. /\ len \in 1 .. MaxLen /\ len \in Int /\ len >= 2 /\ Size \in Nat
      /\ d \in Int /\ d >= 0 /\ \A x \in B : x \in Int /\ x >= 0
  <2>1. Len(e) \in 1 .. MaxPayload
    BY PayloadType
  <2> QED
    BY <1>3, <2>1, SizeFacts DEF Offsets
<1>7. Entries[d] = SubSeq(q, 0 + 1, Len(q))
  BY <1>3, <1>5
<1>8. d \in G
  <2>1. 0 \in 0 .. Len(q)
    BY <1>5
  <2> HIDE DEF d
  <2> QED
    BY <1>3, <1>7, <2>1
<1>9. 0 \in G
  <2>1. CASE d = 0
    BY <1>8, <2>1
  <2>2. CASE d # 0
    <3>1. q # <<>>
      BY <1>5, <2>2, SpaceNil
    <3>2. Len(q) \in 0 .. Len(q) /\ Len(q) # 0
      BY <1>5, <3>1
    <3>3. SubSeq(q, Len(q) + 1, Len(q)) = <<>>
      BY <1>5
    <3>4. Entries[0] = <<>> /\ 0 \in B
      BY <1>2 DEF EntriesFacts, Chain
    <3> HIDE DEF d
    <3> QED
      BY <2>2, <3>2, <3>3, <3>4
  <2> QED
    BY <2>1, <2>2
<1>10. ASSUME NEW x \in G, x # 0
       PROVE  get_entry_len(At(x)) <= x /\ x - get_entry_len(At(x)) \in G
  <2> DEFINE l == get_entry_len(At(x))
             p == Payload(At(x))
             s == Entries[x - l]
  <2>1. PICK n \in 0 .. Len(q) : Entries[x] = SubSeq(q, n + 1, Len(q)) /\ x \in B
    OBVIOUS
  <2>2. x \in Offsets /\ At(x) \in Offsets /\ l <= x /\ x - l \in B
    BY <1>2, <1>10, <2>1 DEF DistAtFacts, Chain
  <2>3. l \in Int /\ l >= 1
    BY <1>1, <2>2, EntryLen, SizeFacts
  <2>4. p \in Entry
    BY <1>1, <2>2, PayloadOf DEF Entry
  <2>5. Entries[x] = <<p>> \o s /\ s \in Seq(Entry)
    BY <1>2, <1>4, <1>10, <2>2 DEF EntriesFacts
  <2>6. n + 1 \in 1 .. Len(q) /\ s = SubSeq(q, (n + 1) + 1, Len(q))
    <3> HIDE DEF p, s
    <3> QED
      BY <1>5, <2>1, <2>4, <2>5, Suffix
  <2>7. n + 1 \in 0 .. Len(q) /\ n + 1 # 0
    BY <1>5, <2>6
  <2>8. x - l # d
    <3>1. CASE x - l = d
      <4>1. s = q
        BY <1>3, <3>1
      <4>2. Abstract!Space(s) = d
        BY <1>5, <4>1
      <4>3. Len(SubSeq(q, (n + 1) + 1, Len(q))) = Len(q) - (n + 1)
        BY <1>5, <2>6
      <4>4. Len(q) = Len(q) - (n + 1)
        BY <2>6, <4>1, <4>3
      <4> QED
        BY <1>5, <2>6, <4>4
    <3> QED
      BY <3>1
  <2> HIDE DEF l, d
  <2>9. x - l \in G
    BY <2>2, <2>6, <2>7, <2>8 DEF l
  <2> QED
    BY <2>2, <2>9 DEF l
<1>11. Chain(G) /\ G \subseteq Offsets
  <2>1. G \subseteq B
    OBVIOUS
  <2> HIDE DEF G
  <2> QED
    BY <1>9, <1>10, <2>1 DEF Chain
<1>12. PICK x \in G :
         /\ x < Size - len
         /\ logger_offset(w_off' - off2) = x + len
         /\ Lapped(off, len) => x <= Dist(off) - len
         /\ ~Lapped(off, len) => x = Dist(off)
  <2> HIDE DEF G
  <2> QED
    BY <1>8, <1>11, WriteMoves
<1>13. PICK n \in 0 .. Len(q) :
         /\ x \in B /\ Entries[x] = SubSeq(q, n + 1, Len(q))
         /\ (x = d) <=> (n = 0)
  BY <1>12
<1>14. Entries'[x + len] = Append(SubSeq(q, n + 1, Len(q)), e)
  <2>1. \A y \in B : y < Size - len => Entries'[y + len] = Append(Entries[y], e)
    BY <1>1, WriteAppends
  <2> QED
    BY <1>12, <1>13, <2>1
<1>15. Lapped(off, len) <=> n > 0
  <2>1. x \in Int /\ n \in Nat
    BY <1>5, <1>6, <1>13
  <2>2. Lapped(off, len) => x # d
    BY <1>6, <1>12, <2>1
  <2>3. ~Lapped(off, len) => x = d
    BY <1>12
  <2> HIDE DEF d
  <2>4. n > 0 <=> n # 0
    BY <2>1
  <2> QED
    BY <1>13, <2>2, <2>3, <2>4
<1>16. Lapped(off, len) => d >= Size - len
  BY <1>1, <1>6, LappedValue
<1>17. n > 0 => Abstract!Space(q) + len >= Size
  BY <1>5, <1>6, <1>15, <1>16
<1>18. x + len \in Offsets
  BY <1>6, <1>12, <1>13 DEF Offsets
<1> QED
  BY <1>5, <1>12, <1>14, <1>15, <1>17, <1>18 DEF Written

(* The same in terms of LogQueue. *)
LEMMA WriteAllowed ==
  ASSUME TypeOK, NEW e \in Payloads, do_write_log(e),
         NEW len, len = 1 + Len(e), NEW B, B \subseteq Offsets, Chain(B),
         NEW off \in Offsets, Dist(off) \in B,
         NEW off2, off2 = IF Lapped(off, len) THEN get_next_entry(off, len) ELSE off,
         NEW q, q = Unread(off), NEW q2, q2 = Entries'[logger_offset(w_off' - off2)]
  PROVE  /\ q2 \in Abstract!Appended(q, e)
         /\ Lapped(off, len) <=> Len(q2) <= Len(q)
<1>1. PICK n \in 0 .. Len(q) :
        /\ q2 = Append(SubSeq(q, n + 1, Len(q)), e)
        /\ Lapped(off, len) <=> n > 0
        /\ n > 0 => Abstract!Space(q) + len >= Size
  <2>1. Written(off, len, e, q, q2)
    BY WriteQueue
  <2> QED
    BY <2>1 DEF Written
<1>2. q \in Seq(Entry) /\ Len(q) \in Nat /\ n \in Nat /\ n <= Len(q)
  <2>1. q \in Seq(Entry)
    BY WriteQueue
  <2> QED
    BY <2>1
<1>3. e \in Entry
  BY PayloadType DEF Entry
<1>4. Abstract!EntryLen(e) = len
  BY DEF Abstract!EntryLen, HeaderLen
<1>5. q2 \in Abstract!Appended(q, e)
  BY <1>1, <1>4 DEF Abstract!Appended
<1>6. Len(q2) = (Len(q) - n) + 1
  <2> DEFINE s == SubSeq(q, n + 1, Len(q))
  <2>1. s \in Seq(Entry) /\ Len(s) = Len(q) - n
    BY <1>2, SubSeqProperties
  <2> HIDE DEF s
  <2>2. Len(Append(s, e)) = Len(s) + 1
    BY <1>3, <2>1
  <2> QED
    BY <1>1, <2>1, <2>2 DEF s
<1>7. Len(q2) <= Len(q) <=> n > 0
  BY <1>2, <1>6
<1> QED
  BY <1>1, <1>5, <1>7

(* The queues of LogQueue, and their contents. *)
Queues == [r \in Readers |-> IF r \in readers THEN Unread(r_off[r]) ELSE <<>>]

QueuesAre ==
  /\ \A r \in readers : Unread(r_off[r]) = Entries[logger_offset(w_off - r_off[r])]
  /\ Unread(head) = Entries[logger_offset(w_off - head)]

LEMMA TypedQueues == TypeOK => QueuesAre
<1> SUFFICES ASSUME TypeOK PROVE QueuesAre
  OBVIOUS
<1>1. EntriesFacts
  BY EntriesAre DEF HeadsOK, BufferOK, TypeOK
<1>2. head \in Offsets /\ \A r \in readers : r_off[r] \in Offsets
  BY DEF TypeOK
<1> QED
  BY <1>1, <1>2 DEF EntriesFacts, QueuesAre, Dist

LEMMA EntriesUnchanged ==
  ASSUME UNCHANGED <<buffer, w_off>>
  PROVE  Entries' = Entries
BY DEF Entries, IsEntries, EntriesStep, At, Payload, get_entry_len, logger_offset

(* A write. *)
LEMMA WriteImplements ==
  ASSUME RingInv, TypeOK', NEW w \in Writers, NEW e \in Payloads,
         write_log_entry(w, e)
  PROVE  Abstract!Write(e)
<1> DEFINE len == 1 + Len(e)
<1>1. PICK B \in SUBSET Offsets : OnChain(B)
  BY DEF RingInv, ChainInv
<1>2. TypeOK /\ do_write_log(e) /\ readers' = readers
  BY DEF RingInv, write_log_entry
<1>3. /\ head' = IF Lapped(head, len) THEN get_next_entry(head, len) ELSE head
      /\ \A r \in readers : r_off'[r] = IF Lapped(r_off[r], len)
                                        THEN get_next_entry(r_off[r], len)
                                        ELSE r_off[r]
      /\ was_overrun' = \/ was_overrun
                        \/ {r \in readers : Lapped(r_off[r], len)} # {}
                        \/ Lapped(head, len) /\ readers = {}
  BY <1>2 DEF write_log_entry, fix_up_readers, HeaderLen, TypeOK
<1>4. QueuesAre'
  BY TypedQueues, PTL
<1>5. /\ head \in Offsets /\ Dist(head) \in B
      /\ \A r \in readers : r_off[r] \in Offsets /\ Dist(r_off[r]) \in B
  BY <1>1, <1>2 DEF OnChain, TypeOK
<1>6. /\ Unread(head)' \in Abstract!Appended(Unread(head), e)
      /\ Lapped(head, len) <=> Len(Unread(head)') <= Len(Unread(head))
  <2>1. Unread(head)' = Entries'[logger_offset(w_off' - head')]
    BY <1>4 DEF QueuesAre, logger_offset
  <2> QED
    BY <1>1, <1>2, <1>3, <1>5, <2>1, WriteAllowed DEF OnChain
<1>7. ASSUME NEW r \in readers
      PROVE  /\ Unread(r_off[r])' \in Abstract!Appended(Unread(r_off[r]), e)
             /\ Lapped(r_off[r], len) <=>
                  Len(Unread(r_off[r])') <= Len(Unread(r_off[r]))
  <2>1. Unread(r_off[r])' = Entries'[logger_offset(w_off' - r_off'[r])]
    BY <1>2, <1>4 DEF QueuesAre, logger_offset
  <2> QED
    BY <1>1, <1>2, <1>3, <1>5, <2>1, WriteAllowed DEF OnChain
<1>8. \A r \in Readers : Queues[r] = IF r \in readers THEN Unread(r_off[r]) ELSE <<>>
  BY DEF Queues
<1>9. \A r \in Readers :
        Queues'[r] = IF r \in readers THEN Unread(r_off[r])' ELSE <<>>
  BY <1>2 DEF Queues
<1>10. readers \subseteq Readers
  BY <1>2 DEF TypeOK
<1>11. \A r \in Readers :
         IF r \in readers THEN Queues'[r] \in Abstract!Appended(Queues[r], e)
                         ELSE Queues'[r] = <<>>
  BY <1>7, <1>8, <1>9
<1>12. DOMAIN Queues' = Readers
  BY DEF Queues
<1>13. (\E r \in readers : Len(Queues'[r]) <= Len(Queues[r])) <=>
         {r \in readers : Lapped(r_off[r], len)} # {}
  BY <1>7, <1>8, <1>9, <1>10
<1>14. was_overrun' = \/ was_overrun
                      \/ \E r \in readers : Len(Queues'[r]) <= Len(Queues[r])
                      \/ readers = {} /\ Len(Unread(head)') <= Len(Unread(head))
  <2> HIDE DEF len
  <2> QED
    BY <1>3, <1>6, <1>13, Zenon
<1> QED
  BY <1>2, <1>6, <1>11, <1>12, <1>14 DEF Abstract!Write, Queues

(* A read. *)
LEMMA CopyImplements ==
  ASSUME RingInv, TypeOK', NEW t \in Threads, do_read_log_to_user(t)
  PROVE  Abstract!Read(file[t])
<1> DEFINE r == file[t]
           off == r_off[r]
           d == Dist(off)
           l == get_entry_len(off)
           s == Entries[d - l]
<1>1. PICK B \in SUBSET Offsets : OnChain(B)
  BY DEF RingInv, ChainInv
<1>2. /\ r \in readers /\ off \in Offsets /\ d \in B /\ d # 0 /\ At(d) = off
      /\ l \in 1 .. d /\ d - l \in B
      /\ r_off' = [r_off EXCEPT ![r] = At(d - l)] /\ Dist(At(d - l)) = d - l
  BY <1>1, CopyTakes
<1>3. TypeOK /\ HeadsOK
  BY DEF RingInv, TypeOK, HeadsOK, BufferOK
<1>4. EntriesFacts /\ QueuesAre /\ QueuesAre'
  <2>1. QueuesAre'
    BY TypedQueues, PTL
  <2> QED
    BY <1>3, <2>1, TypedQueues, EntriesAre
<1>5. /\ UNCHANGED <<buffer, w_off, head, was_overrun, readers>>
  BY DEF do_read_log_to_user, logvars
<1>6. Entries' = Entries
  BY <1>5, EntriesUnchanged
<1>7. r \in Readers /\ r_off \in [Readers -> Offsets] /\ readers \subseteq Readers
  BY <1>2, <1>3 DEF TypeOK
<1>8. Unread(off) = <<Payload(off)>> \o s /\ s \in Seq(Items) /\ Payload(off) \in Items
  <2>1. l <= d
    BY <1>2
  <2>2. Payload(off) \in Items
    BY <1>2, <1>3, PayloadOf DEF HeadsOK
  <2> QED
    BY <1>2, <1>4, <2>1, <2>2 DEF EntriesFacts
<1>9. Unread(off) # <<>> /\ Tail(Unread(off)) = s
  <2> DEFINE p == Payload(off)
  <2> HIDE DEF p, s
  <2>1. <<p>> \o s # <<>> /\ Tail(<<p>> \o s) = s
    BY <1>8 DEF p
  <2> QED
    BY <1>8, <2>1 DEF p
<1>10. \A x \in readers :
         Unread(r_off[x])' = IF x = r THEN s ELSE Unread(r_off[x])
  <2> SUFFICES ASSUME NEW x \in readers
               PROVE  Unread(r_off[x])' = IF x = r THEN s ELSE Unread(r_off[x])
    OBVIOUS
  <2>1. Unread(r_off[x])' = Entries[logger_offset(w_off - r_off'[x])]
    BY <1>4, <1>5, <1>6 DEF QueuesAre, logger_offset
  <2>2. CASE x = r
    <3>1. r_off'[x] = At(d - l)
      BY <1>2, <1>7, <2>2
    <3>2. logger_offset(w_off - At(d - l)) = d - l
      BY <1>2 DEF Dist
    <3> QED
      BY <2>1, <2>2, <3>1, <3>2
  <2>3. CASE x # r
    <3>1. r_off'[x] = r_off[x]
      BY <1>2, <1>7, <2>3
    <3>2. Unread(r_off[x]) = Entries[logger_offset(w_off - r_off[x])]
      BY <1>4 DEF QueuesAre
    <3> QED
      BY <2>1, <2>3, <3>1, <3>2
  <2> QED
    BY <2>2, <2>3
<1>11. Unread(head)' = Unread(head)
  <2>1. Unread(head)' = Entries[logger_offset(w_off - head)]
    BY <1>4, <1>5, <1>6 DEF QueuesAre, logger_offset
  <2> QED
    BY <1>4, <2>1 DEF QueuesAre
<1>12. /\ Queues[r] = Unread(off)
       /\ Queues' = [Queues EXCEPT ![r] = Tail(Unread(off))]
  <2>1. Queues' = [x \in Readers |-> IF x \in readers THEN Unread(r_off[x])' ELSE <<>>]
    BY <1>5 DEF Queues
  <2> HIDE DEF s
  <2>2. Queues' = [x \in Readers |-> IF x = r THEN s ELSE Queues[x]]
    BY <1>2, <1>10, <2>1 DEF Queues
  <2>3. Queues = [x \in Readers |-> Queues[x]]
    BY DEF Queues
  <2>4. Queues[r] = Unread(off)
    BY <1>2, <1>7 DEF Queues
  <2> QED
    BY <1>9, <2>2, <2>3, <2>4
<1> QED
  BY <1>2, <1>5, <1>9, <1>11, <1>12 DEF Abstract!Read, Queues

(* Opening and releasing a file. *)
LEMMA FileImplements ==
  ASSUME TypeOK, TypeOK', NEW r \in Readers
  PROVE  /\ logger_open(r) => Abstract!Open(r)
         /\ logger_release(r) => Abstract!Close(r)
<1>1. QueuesAre /\ QueuesAre'
  <2>1. QueuesAre'
    BY TypedQueues, PTL
  <2> QED
    BY <2>1, TypedQueues
<1>2. r_off \in [Readers -> Offsets] /\ readers \subseteq Readers
  BY DEF TypeOK
<1>3. ASSUME logger_open(r) \/ logger_release(r)
      PROVE  /\ UNCHANGED <<buffer, w_off, head, was_overrun>>
             /\ \A x \in readers' \ {r} : /\ x \in readers
                                          /\ Unread(r_off[x])' = Unread(r_off[x])
             /\ readers \ {r} = readers' \ {r}
             /\ Unread(head)' = Unread(head)
             /\ r \in readers' => Unread(r_off[r])' = Unread(head)
  <2>1. /\ UNCHANGED <<buffer, w_off, head, was_overrun>>
        /\ \A x \in Readers \ {r} : r_off'[x] = r_off[x]
        /\ readers \ {r} = readers' \ {r}
        /\ r \in readers' => r_off'[r] = head
    BY <1>2, <1>3 DEF logger_open, logger_release, logvars
  <2>2. Entries' = Entries
    BY <2>1, EntriesUnchanged
  <2>3. \A x \in readers' : Unread(r_off[x])' = Entries[logger_offset(w_off - r_off'[x])]
    BY <1>1, <2>1, <2>2 DEF QueuesAre, logger_offset
  <2>4. Unread(head)' = Entries[logger_offset(w_off - head)]
    BY <1>1, <2>1, <2>2 DEF QueuesAre, logger_offset
  <2>5. \A x \in readers : Unread(r_off[x]) = Entries[logger_offset(w_off - r_off[x])]
    BY <1>1 DEF QueuesAre
  <2>6. Unread(head) = Entries[logger_offset(w_off - head)]
    BY <1>1 DEF QueuesAre
  <2> QED
    BY <1>2, <2>1, <2>3, <2>4, <2>5, <2>6
<1>4. Queues' = [x \in Readers |-> IF x \in readers' THEN Unread(r_off[x])' ELSE <<>>]
  BY DEF Queues
<1>5. ASSUME logger_open(r) PROVE Abstract!Open(r)
  <2>1. r \notin readers /\ readers' = readers \cup {r}
    BY <1>5 DEF logger_open
  <2>2. Queues' = [x \in Readers |-> IF x = r THEN Unread(head) ELSE Queues[x]]
    BY <1>3, <1>4, <1>5, <2>1 DEF Queues
  <2>3. Queues' = [Queues EXCEPT ![r] = Unread(head)]
    BY <2>2 DEF Queues
  <2> QED
    BY <1>3, <1>5, <2>1, <2>3 DEF Abstract!Open, Queues
<1>6. ASSUME logger_release(r) PROVE Abstract!Close(r)
  <2>1. r \in readers /\ readers' = readers \ {r}
    BY <1>6 DEF logger_release
  <2>2. Queues' = [x \in Readers |-> IF x = r THEN <<>> ELSE Queues[x]]
    BY <1>3, <1>4, <1>6, <2>1 DEF Queues
  <2>3. Queues' = [Queues EXCEPT ![r] = <<>>]
    BY <2>2 DEF Queues
  <2> QED
    BY <1>3, <1>6, <2>1, <2>3 DEF Abstract!Close, Queues
<1> QED
  BY <1>5, <1>6

(* Steps that leave the queues alone. *)
LEMMA QueuesUnchanged ==
  ASSUME TypeOK, TypeOK', UNCHANGED <<buffer, w_off, head, readers, r_off>>
  PROVE  UNCHANGED <<readers, Queues, Unread(head)>>
<1>1. QueuesAre /\ QueuesAre'
  <2>1. QueuesAre'
    BY TypedQueues, PTL
  <2> QED
    BY <2>1, TypedQueues
<1>2. Entries' = Entries
  BY EntriesUnchanged
<1>3. \A x \in readers : Unread(r_off[x])' = Unread(r_off[x])
  BY <1>1, <1>2 DEF QueuesAre, logger_offset
<1>4. Unread(head)' = Unread(head)
  BY <1>1, <1>2 DEF QueuesAre, logger_offset
<1>5. Queues' = Queues
  BY <1>3 DEF Queues
<1> QED
  BY <1>4, <1>5

(* Flushing the log and asking for the overrun flag. *)
LEMMA LogImplements ==
  ASSUME TypeOK, TypeOK'
  PROVE  /\ flush_log => Abstract!Flush
         /\ show_global_was_overrun => Abstract!AskOverrun
<1>1. ASSUME flush_log PROVE Abstract!Flush
  <2>1. /\ UNCHANGED <<buffer, w_off, was_overrun, readers>> /\ head' = w_off
        /\ \A r \in readers : r_off'[r] = w_off
    BY <1>1 DEF flush_log, TypeOK
  <2>2. QueuesAre' /\ EntriesFacts /\ DistAtFacts
    <3>1. QueuesAre'
      BY TypedQueues, PTL
    <3> QED
      BY <3>1, EntriesAre, DistAt DEF TypeOK, HeadsOK, BufferOK
  <2>3. Entries' = Entries
    BY <2>1, EntriesUnchanged
  <2>4. Entries[logger_offset(w_off - w_off)] = <<>>
    <3>1. Dist(w_off) = 0
      BY <2>2 DEF DistAtFacts, TypeOK
    <3> QED
      BY <2>2, <3>1 DEF EntriesFacts, Dist
  <2>5. Unread(head)' = <<>> /\ \A r \in readers : Unread(r_off[r])' = <<>>
    <3>1. /\ Unread(head)' = Entries'[logger_offset(w_off' - head')]
          /\ \A r \in readers' :
               Unread(r_off[r])' = Entries'[logger_offset(w_off' - r_off'[r])]
      BY <2>2 DEF QueuesAre, logger_offset
    <3> QED
      BY <2>1, <2>3, <2>4, <3>1
  <2>6. Queues' = [r \in Readers |-> <<>>]
    BY <2>1, <2>5 DEF Queues
  <2> QED
    BY <2>1, <2>5, <2>6 DEF Abstract!Flush, Queues
<1>2. ASSUME show_global_was_overrun PROVE Abstract!AskOverrun
  <2>1. UNCHANGED <<buffer, w_off, head, readers, r_off>> /\ was_overrun' = FALSE
    BY <1>2 DEF show_global_was_overrun, filevars
  <2>2. UNCHANGED <<readers, Queues, Unread(head)>>
    BY <2>1, QueuesUnchanged
  <2> QED
    BY <2>1, <2>2 DEF Abstract!AskOverrun, Queues
<1> QED
  BY <1>1, <1>2

LEMMA InitImplements == Init => Abstract!LQInit
<1> SUFFICES ASSUME Init PROVE Abstract!LQInit
  OBVIOUS
<1>1. TypeOK
  BY InitTypes
<1>2. EntriesFacts /\ DistAtFacts /\ QueuesAre
  BY <1>1, EntriesAre, DistAt, TypedQueues DEF TypeOK, HeadsOK, BufferOK
<1>3. Dist(head) = 0
  BY <1>1, <1>2 DEF Init, DistAtFacts, TypeOK
<1>4. Unread(head) = <<>>
  BY <1>2, <1>3 DEF EntriesFacts, QueuesAre, Dist
<1>5. Queues = [r \in Readers |-> <<>>]
  BY DEF Init, Queues
<1> QED
  BY <1>4, <1>5 DEF Init, Abstract!LQInit, Queues

(* The ring buffer implements the queues: no entry is lost, torn, repeated *)
(* or reordered except where the writer laps a reader, and then            *)
(* was_overrun says so.  For any size of the buffer, any entries and any   *)
(* number of readers and writers, while no two threads read from the same  *)
(* file and nobody flushes in the middle of a read.                        *)
THEOREM QueuesTheorem ==
  ASSUME OneThreadPerFile, FlushAnytime = FALSE
  PROVE  Spec => ImplementsQueues
<1>1. ASSUME RingInv, RingInv', [Next]_vars
      PROVE  [Abstract!LQNext]_Abstract!lqvars
  <2>1. TypeOK /\ TypeOK'
    BY <1>1 DEF RingInv
  <2>2. CASE \E w \in Writers, e \in Payloads : write_log_entry(w, e)
    <3>1. PICK w \in Writers, e \in Payloads : write_log_entry(w, e)
      BY <2>2
    <3>2. Abstract!Write(e)
      BY <1>1, <2>1, <3>1, WriteImplements
    <3> QED
      BY <3>2 DEF Abstract!LQNext
  <2>3. CASE \E t \in Threads : do_read_log_to_user(t)
    <3>1. PICK t \in Threads : do_read_log_to_user(t)
      BY <2>3
    <3>2. Abstract!Read(file[t])
      BY <1>1, <2>1, <3>1, CopyImplements
    <3>3. file[t] \in Readers
      BY LoggerAssumption
    <3> QED
      BY <3>2, <3>3 DEF Abstract!LQNext
  <2>4. CASE \E r \in Readers : logger_open(r) \/ logger_release(r)
    <3>1. PICK r \in Readers : logger_open(r) \/ logger_release(r)
      BY <2>4
    <3>2. Abstract!Open(r) \/ Abstract!Close(r)
      BY <2>1, <3>1, FileImplements
    <3> QED
      BY <3>2 DEF Abstract!LQNext
  <2>5. CASE LogStep
    <3>1. Abstract!Flush \/ Abstract!AskOverrun
      BY <2>1, <2>5, LogImplements DEF LogStep
    <3> QED
      BY <3>1 DEF Abstract!LQNext
  <2>6. ASSUME UNCHANGED <<logvars, filevars>>
        PROVE  UNCHANGED Abstract!lqvars
    <3>1. UNCHANGED <<buffer, w_off, head, was_overrun, readers, r_off>>
      BY <2>6 DEF logvars, filevars
    <3>2. UNCHANGED <<readers, Queues, Unread(head)>>
      BY <2>1, <3>1, QueuesUnchanged
    <3> QED
      BY <3>1, <3>2 DEF Abstract!lqvars, Queues
  <2>7. CASE \E w \in Writers : wake_up_readers(w)
    <3>1. UNCHANGED <<logvars, filevars>>
      BY <2>7 DEF wake_up_readers
    <3> QED
      BY <2>6, <3>1
  <2>8. CASE \E t \in Threads : Waits(t)
    <3>1. UNCHANGED <<logvars, filevars>>
      BY <2>8 DEF Waits, read_begin, prepare_to_wait, read_check, schedule, signal,
                  read_length, read_nomem
    <3> QED
      BY <2>6, <3>1
  <2>9. CASE UNCHANGED vars
    <3>1. UNCHANGED <<logvars, filevars>>
      BY <2>9 DEF vars
    <3> QED
      BY <2>6, <3>1
  <2> QED
    BY <1>1, <2>2, <2>3, <2>4, <2>5, <2>7, <2>8, <2>9, Steps
<1>2. Spec => []RingInv
  BY RingTheorem
<1> QED
  BY <1>1, <1>2, InitImplements, PTL DEF Spec, ImplementsQueues, Abstract!LQSpec
=============================================================================
