---------------------------- MODULE UserWakeLock ----------------------------
(***************************************************************************)
(* The files /sys/power/wake_lock and wake_unlock,                         *)
(* kernel/kernel/power/userwakelock.c: the tree of wake locks that user    *)
(* space names, and the conversion of time-outs from nanoseconds.          *)
(*                                                                         *)
(* The red-black tree is the sequence of its names in order; a lookup may  *)
(* meet them in the order of any search tree over that sequence, so that   *)
(* nothing depends on how the tree is balanced.  A name is a sequence of   *)
(* bytes without the NUL at its end.  Integers have the widths the         *)
(* constants give them.                                                    *)
(***************************************************************************)
EXTENDS Integers, SequencesExt

CONSTANTS
  Names,         \* names that user space writes
  Timeouts,      \* time-outs that it asks for, in nanoseconds
  U64Bits,       \* width of u64
  LongBits,      \* width of long
  NsecPerJiffy   \* NSEC_PER_SEC / HZ

ASSUME UserWakeLockAssumption ==
  /\ \A n \in Names : n # <<>> /\ n \in Seq(1 .. 255)
  /\ U64Bits \in Nat /\ LongBits \in 2 .. U64Bits
  /\ Timeouts \subseteq 0 .. 2^U64Bits - 1
  /\ NsecPerJiffy \in Nat \ {0}

(* Names in ASCII.  strncmp keeps the difference of two bytes in a signed  *)
(* char, so bytes 128 or more apart compare the wrong way round: on other  *)
(* names Compare is no order, and a look-up can miss the entry of its name *)
(* once the tree has been rebalanced.  The model has one lock per name and *)
(* follows the code up to the first such miss.                             *)
AsciiNames == \A n \in Names : n \in Seq(1 .. 127)

(* True of all widths: what the proofs use of powers of two, of which the  *)
(* provers know nothing.                                                   *)
ASSUME PowersAssumption ==
  /\ 2^U64Bits \in Nat /\ 2^LongBits \in Nat /\ 2^(LongBits - 1) \in Nat \ {0, 1}
  /\ 2^LongBits = 2^(LongBits - 1) + 2^(LongBits - 1)

VARIABLES
  tree,     \* the names in user_wake_locks, in order
  held,     \* held[n]: how the lock of tree entry n is held
  asked     \* asked[n]: what user space last asked for under the name n

vars == <<tree, held, asked>>

(* Ways to hold a lock, or to ask for it. *)
Free == [kind |-> "free", time |-> 0]
Forever == [kind |-> "forever", time |-> 0]
Timed(t) == [kind |-> "timed", time |-> t]

(* A long from the low bits of a u64, in two's complement. *)
ToLong(x) ==
  LET low == x % 2^LongBits
  IN  IF low < 2^(LongBits - 1) THEN low ELSE low - 2^LongBits

(* A planted bug: the time-out is rounded down. *)
ToJiffies_down(ns) ==
  LET jiffies == ns \div NsecPerJiffy
  IN  ToLong(IF jiffies <= 0 THEN 1 ELSE jiffies)

(* "convert timeout from nanoseconds to jiffies > 0" *)
ToJiffies(ns) ==
  LET rounded == (ns + NsecPerJiffy - 1) % 2^U64Bits
      jiffies == rounded \div NsecPerJiffy
  IN  ToLong(IF jiffies <= 0 THEN 1 ELSE jiffies)

(* Character i of a string, or the NUL at its end. *)
Char(s, i) == IF i <= Len(s) THEN s[i] ELSE 0

(* The difference of two bytes as strncmp keeps it, in a signed char. *)
SignedChar(difference) ==
  LET low == difference % 256
  IN  IF low < 128 THEN low ELSE low - 256

(* The sign of strncmp over the length of buf. *)
strncmp(buf, name) ==
  LET differ == {i \in 1 .. Len(buf) : Char(buf, i) # Char(name, i)}
      first  == Min(differ)
  IN  IF differ = {} THEN 0
      ELSE IF SignedChar(Char(buf, first) - Char(name, first)) < 0 THEN -1
      ELSE 1

(* A planted bug: a name equals every name that it begins. *)
Compare_prefix(buf, name) == strncmp(buf, name)

(* strncmp, and where it finds no difference a longer name comes later. *)
Compare(buf, name) ==
  IF strncmp(buf, name) # 0 THEN strncmp(buf, name)
  ELSE IF Char(name, Len(buf) + 1) # 0 THEN -1 ELSE 0

(* Where a search can end: at an entry, or at the place for a new one.  It *)
(* goes on between the entries w[1] and w[2].                              *)
Lookup(buf) ==
  LET ends[w \in (1 .. Len(tree) + 1) \X (0 .. Len(tree))] ==
        IF w[1] > w[2] THEN {[found |-> FALSE, pos |-> w[1]]}
        ELSE UNION {CASE Compare(buf, tree[m]) < 0 -> ends[<<w[1], m - 1>>]
                      [] Compare(buf, tree[m]) > 0 -> ends[<<m + 1, w[2]>>]
                      [] OTHER -> {[found |-> TRUE, pos |-> m]}
                    : m \in w[1] .. w[2]}
  IN  ends[<<1, Len(tree)>>]

-----------------------------------------------------------------------------
(* The lock of the entry that the search ends at becomes h. *)
SetLock(end, buf, h) ==
  IF end.found
  THEN held' = [held EXCEPT ![tree[end.pos]] = h] /\ UNCHANGED tree
  ELSE /\ held' = [held EXCEPT ![buf] = h]
       /\ tree' = InsertAt(tree, end.pos, buf)

(* wake_lock_store without a time-out. *)
wake_lock_store(buf) ==
  /\ \E end \in Lookup(buf) : SetLock(end, buf, Forever)
  /\ asked' = [asked EXCEPT ![buf] = Forever]

(* wake_lock_store with one: a conversion that ends in 0 is none. *)
wake_lock_store_timeout(buf, ns) ==
  LET timeout == ToJiffies(ns)
  IN  /\ \E end \in Lookup(buf) :
           SetLock(end, buf, IF timeout # 0 THEN Timed(timeout) ELSE Forever)
      /\ asked' = [asked EXCEPT ![buf] = Timed(ns)]

(* wake_unlock_store; -EINVAL for an unknown name. *)
wake_unlock_store(buf) ==
  /\ \E end \in Lookup(buf) :
       IF end.found THEN SetLock(end, buf, Free) ELSE UNCHANGED <<tree, held>>
  /\ asked' = [asked EXCEPT ![buf] = Free]

Init ==
  /\ tree = <<>>
  /\ held = [n \in Names |-> Free]
  /\ asked = [n \in Names |-> Free]

Next ==
  \E n \in Names : \/ wake_lock_store(n) \/ wake_unlock_store(n)
                   \/ \E ns \in Timeouts : wake_lock_store_timeout(n, ns)

Spec == Init /\ [][Next]_vars

-----------------------------------------------------------------------------
(* Names stay apart, also a name and one that it begins, however the tree  *)
(* is balanced: no name has two entries, and each write reaches the lock of*)
(* its own name and no other.  It holds of names in ASCII.                 *)
EachNameItsOwnLock ==
  /\ \A i, j \in 1 .. Len(tree) : tree[i] = tree[j] => i = j
  /\ \A n \in Names : held[n] = Free <=> asked[n] = Free

(* A lock is held at least as long as was asked, by less than one jiffy    *)
(* more, and one jiffy when zero was asked.  It holds of time-outs whose   *)
(* jiffies fit a long; longer ones are cut, to negative ones or to none.   *)
TimeoutIsRoundedUp ==
  \A n \in Names :
    asked[n].kind = "timed" =>
      LET ns == asked[n].time
          jiffies == held[n].time
      IN  /\ held[n].kind = "timed"
          /\ jiffies * NsecPerJiffy >= ns
          /\ IF ns = 0 THEN jiffies = 1 ELSE (jiffies - 1) * NsecPerJiffy < ns
=============================================================================
