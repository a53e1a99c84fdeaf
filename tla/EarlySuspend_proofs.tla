------------------------ MODULE EarlySuspend_proofs -------------------------
(***************************************************************************)
(* Proofs about the early suspend handlers, for any set of handlers and    *)
(* any levels, and the type invariant of PowerManagement.                  *)
(***************************************************************************)
EXTENDS PowerManagement_proofs

-----------------------------------------------------------------------------
(* Sequences: what InsertAt and RemoveAt do to every position. *)

LEMMA InsertAtPositions ==
  ASSUME NEW H, NEW s \in Seq(H), NEW h \in H, NEW n \in 1 .. Len(s) + 1
  PROVE  /\ InsertAt(s, n, h) \in Seq(H)
         /\ Len(InsertAt(s, n, h)) = Len(s) + 1
         /\ \A i \in 1 .. Len(s) + 1 :
              InsertAt(s, n, h)[i] = IF i < n THEN s[i]
                                     ELSE IF i = n THEN h ELSE s[i - 1]
<1> DEFINE s1 == SubSeq(s, 1, n - 1)
           s2 == SubSeq(s, n, Len(s))
           m  == s1 \o <<h>>
<1>1. Len(s) \in Nat /\ \A i \in 1 .. Len(s) : s[i] \in H
  OBVIOUS
<1>2. /\ s1 \in Seq(H) /\ Len(s1) = n - 1
      /\ \A i \in 1 .. n - 1 : s1[i] = s[i]
  BY <1>1, SubSeqProperties
<1>3. /\ s2 \in Seq(H) /\ Len(s2) = Len(s) - n + 1
      /\ \A i \in 1 .. Len(s) - n + 1 : s2[i] = s[n + i - 1]
  BY <1>1, SubSeqProperties
<1>4. <<h>> \in Seq(H) /\ Len(<<h>>) = 1 /\ <<h>>[1] = h
  OBVIOUS
<1> HIDE DEF s1, s2
<1>5. /\ m \in Seq(H) /\ Len(m) = n
      /\ \A i \in 1 .. n : m[i] = IF i < n THEN s[i] ELSE h
  <2>1. /\ m \in Seq(H) /\ Len(m) = Len(s1) + Len(<<h>>)
        /\ \A i \in 1 .. Len(s1) + Len(<<h>>) :
             m[i] = IF i <= Len(s1) THEN s1[i] ELSE <<h>>[i - Len(s1)]
    BY <1>2, <1>4, ConcatProperties
  <2> HIDE DEF m
  <2> QED
    BY <1>2, <1>4, <2>1
<1> HIDE DEF m
<1>6. /\ m \o s2 \in Seq(H) /\ Len(m \o s2) = Len(m) + Len(s2)
      /\ \A i \in 1 .. Len(m) + Len(s2) :
           (m \o s2)[i] = IF i <= Len(m) THEN m[i] ELSE s2[i - Len(m)]
  BY <1>3, <1>5, ConcatProperties
<1>7. InsertAt(s, n, h) = m \o s2
  BY DEF InsertAt, m, s1, s2
<1> QED
  BY <1>1, <1>3, <1>5, <1>6, <1>7

LEMMA RemoveAtPositions ==
  ASSUME NEW H, NEW s \in Seq(H), NEW n \in 1 .. Len(s)
  PROVE  /\ RemoveAt(s, n) \in Seq(H)
         /\ Len(RemoveAt(s, n)) = Len(s) - 1
         /\ \A i \in 1 .. Len(s) - 1 :
              RemoveAt(s, n)[i] = IF i < n THEN s[i] ELSE s[i + 1]
<1> DEFINE s1 == SubSeq(s, 1, n - 1)
           s2 == SubSeq(s, n + 1, Len(s))
           r  == s1 \o s2
<1>1. Len(s) \in Nat /\ \A i \in 1 .. Len(s) : s[i] \in H
  OBVIOUS
<1>2. /\ s1 \in Seq(H) /\ Len(s1) = n - 1
      /\ \A i \in 1 .. n - 1 : s1[i] = s[i]
  BY <1>1, SubSeqProperties
<1>3. /\ s2 \in Seq(H) /\ Len(s2) = Len(s) - n
      /\ \A i \in 1 .. Len(s) - n : s2[i] = s[n + i]
  BY <1>1, SubSeqProperties
<1> HIDE DEF s1, s2
<1>4. /\ r \in Seq(H) /\ Len(r) = Len(s1) + Len(s2)
      /\ \A i \in 1 .. Len(s1) + Len(s2) :
           r[i] = IF i <= Len(s1) THEN s1[i] ELSE s2[i - Len(s1)]
  BY <1>2, <1>3, ConcatProperties
<1>5. RemoveAt(s, n) = r
  BY DEF RemoveAt, s1, s2
<1> HIDE DEF r
<1>6. Len(s1) + Len(s2) = Len(s) - 1 /\ Len(r) = Len(s) - 1
  BY <1>1, <1>2, <1>3, <1>4
<1>7. \A i \in 1 .. Len(s) - 1 :
        r[i] = IF i < n THEN s[i] ELSE s[i + 1]
  <2> TAKE i \in 1 .. Len(s) - 1
  <2>1. r[i] = IF i <= Len(s1) THEN s1[i] ELSE s2[i - Len(s1)]
    BY <1>4, <1>6
  <2>2. CASE i < n
    <3>1. i <= n - 1 /\ i \in 1 .. n - 1
      BY <1>1, <2>2
    <3> QED
      BY <1>2, <2>1, <2>2, <3>1
  <2>3. CASE i >= n
    <3>1. /\ i - (n - 1) \in 1 .. Len(s) - n /\ n + (i - (n - 1)) = i + 1
          /\ ~(i <= n - 1)
      BY <1>1, <2>3
    <3>2. s2[i - (n - 1)] = s[i + 1]
      BY <1>3, <3>1
    <3> QED
      BY <1>2, <2>1, <2>3, <3>1, <3>2
  <2> QED
    BY <1>1, <2>2, <2>3
<1> QED
  BY <1>4, <1>5, <1>6, <1>7

-----------------------------------------------------------------------------
(* The list early_suspend_handlers *)

Distinct(s) == \A i, j \in 1 .. Len(s) : s[i] = s[j] => i = j

Sorted(s) ==
  \A i, j \in 1 .. Len(s) : i < j => level[s[i]] <= level[s[j]]

LEMMA PositionProperties ==
  ASSUME handlers \in Seq(Handlers), Sorted(handlers), NEW h \in Handlers
  PROVE  /\ Position(h) \in 1 .. Len(handlers) + 1
         /\ \A i \in 1 .. Len(handlers) :
              IF i < Position(h) THEN level[handlers[i]] <= level[h]
                                 ELSE level[h] <= level[handlers[i]]
<1> DEFINE N == Len(handlers)
           higher == {i \in 1 .. N : level[handlers[i]] > level[h]}
<1>1. /\ N \in Nat /\ level[h] \in Nat
      /\ \A i \in 1 .. N : level[handlers[i]] \in Nat
  BY LevelAssumption
<1>2. CASE higher = {}
  <2>1. Position(h) = N + 1
    BY <1>2 DEF Position
  <2> QED
    BY <1>1, <1>2, <2>1
<1>3. CASE higher # {}
  <2>1. \E m \in higher : \A j \in higher : m <= j
    <3>1. higher \subseteq Nat
      BY <1>1
    <3> HIDE DEF higher
    <3> QED
      BY <1>3, <3>1, LeastNatural
  <2>2. Position(h) = Min(higher)
    BY <1>3 DEF Position
  <2>3. Position(h) \in higher /\ \A j \in higher : Position(h) <= j
    BY <2>1, <2>2 DEF Min
  <2> QED
    BY <1>1, <2>3 DEF Sorted
<1> QED
  BY <1>2, <1>3

LEMMA RegisteredHandlers ==
  ASSUME NEW s \in Seq(Handlers)
  PROVE  ToSet(s) = {s[i] : i \in 1 .. Len(s)}
BY DEF ToSet

(* list_add_tail before the first handler of a higher level: the list gains*)
(* h and stays sorted.                                                     *)
LEMMA InsertKeepsOrder ==
  ASSUME handlers \in Seq(Handlers), Sorted(handlers), Distinct(handlers),
         NEW h \in Handlers, h \notin ToSet(handlers)
  PROVE  LET s == InsertAt(handlers, Position(h), h)
         IN  /\ s \in Seq(Handlers)
             /\ ToSet(s) = ToSet(handlers) \cup {h}
             /\ Distinct(s)
             /\ Sorted(s)
<1> DEFINE n == Position(h)
           s == InsertAt(handlers, n, h)
           N == Len(handlers)
<1>1. /\ N \in Nat /\ level[h] \in Nat
      /\ \A i \in 1 .. N : level[handlers[i]] \in Nat
  BY LevelAssumption
<1>2. /\ n \in 1 .. N + 1
      /\ \A i \in 1 .. N : IF i < n THEN level[handlers[i]] <= level[h]
                                    ELSE level[h] <= level[handlers[i]]
  BY PositionProperties
<1> HIDE DEF n
<1>3. /\ s \in Seq(Handlers)
      /\ Len(s) = N + 1
      /\ \A i \in 1 .. N + 1 :
           s[i] = IF i < n THEN handlers[i]
                  ELSE IF i = n THEN h ELSE handlers[i - 1]
  BY <1>2, InsertAtPositions
<1> HIDE DEF s
<1>4. ToSet(s) = ToSet(handlers) \cup {h}
  <2>1. \A i \in 1 .. N : \E j \in 1 .. N + 1 : s[j] = handlers[i]
    <3> TAKE i \in 1 .. N
    <3>1. CASE i < n
      <4>1. i \in 1 .. N + 1 /\ s[i] = handlers[i]
        BY <1>1, <1>3, <3>1
      <4> QED
        BY <4>1
    <3>2. CASE i >= n
      <4>1. i + 1 \in 1 .. N + 1 /\ s[i + 1] = handlers[i]
        BY <1>1, <1>2, <1>3, <3>2
      <4> QED
        BY <4>1
    <3> QED
      BY <1>1, <1>2, <3>1, <3>2
  <2>2. n \in 1 .. N + 1 /\ s[n] = h
    BY <1>1, <1>2, <1>3
  <2>3. \A j \in 1 .. N + 1 :
          s[j] = h \/ \E i \in 1 .. N : s[j] = handlers[i]
    BY <1>1, <1>2, <1>3
  <2>4. ToSet(s) = {s[i] : i \in 1 .. N + 1}
    BY <1>3, RegisteredHandlers
  <2>5. ToSet(handlers) = {handlers[i] : i \in 1 .. N}
    BY RegisteredHandlers
  <2> QED
    BY <2>1, <2>2, <2>3, <2>4, <2>5
<1>5. \A i \in 1 .. N : handlers[i] # h
  BY RegisteredHandlers
(* Positions of the new list that hold an old handler. *)
<1> DEFINE old(i) == IF i < n THEN i ELSE i - 1
<1>6. \A i \in 1 .. N + 1 :
        i # n => old(i) \in 1 .. N /\ s[i] = handlers[old(i)]
  BY <1>1, <1>2, <1>3
<1>7. s[n] = h
  BY <1>1, <1>2, <1>3
<1>8. Distinct(s)
  <2>1. SUFFICES ASSUME NEW i \in 1 .. N + 1, NEW j \in 1 .. N + 1,
                        s[i] = s[j]
                 PROVE  i = j
    BY <1>3 DEF Distinct
  <2>2. CASE i = n \/ j = n
    BY <1>5, <1>6, <1>7, <2>1, <2>2
  <2>3. CASE i # n /\ j # n
    <3>1. old(i) = old(j)
      BY <1>6, <2>1, <2>3 DEF Distinct
    <3> QED
      BY <1>1, <1>2, <2>3, <3>1
  <2> QED
    BY <2>2, <2>3
<1>9. Sorted(s)
  <2>1. SUFFICES ASSUME NEW i \in 1 .. N + 1, NEW j \in 1 .. N + 1, i < j
                 PROVE  level[s[i]] <= level[s[j]]
    BY <1>3 DEF Sorted
  <2>2. CASE i = n
    <3>1. old(j) \in 1 .. N /\ ~(old(j) < n) /\ s[j] = handlers[old(j)]
      BY <1>1, <1>2, <1>6, <2>1, <2>2
    <3> QED
      BY <1>2, <1>7, <2>2, <3>1
  <2>3. CASE j = n
    <3>1. old(i) \in 1 .. N /\ old(i) < n /\ s[i] = handlers[old(i)]
      BY <1>1, <1>2, <1>6, <2>1, <2>3
    <3> QED
      BY <1>2, <1>7, <2>3, <3>1
  <2>4. CASE i # n /\ j # n
    <3>1. /\ old(i) \in 1 .. N /\ s[i] = handlers[old(i)]
          /\ old(j) \in 1 .. N /\ s[j] = handlers[old(j)]
          /\ old(i) < old(j)
      BY <1>1, <1>2, <1>6, <2>1, <2>4
    <3> HIDE DEF old
    <3> QED
      BY <3>1 DEF Sorted
  <2> QED
    BY <2>2, <2>3, <2>4
<1> QED
  BY <1>3, <1>4, <1>8, <1>9 DEF s, n

LEMMA RemoveKeepsOrder ==
  ASSUME handlers \in Seq(Handlers), Sorted(handlers), Distinct(handlers),
         NEW n \in 1 .. Len(handlers)
  PROVE  LET s == RemoveAt(handlers, n)
         IN  /\ s \in Seq(Handlers)
             /\ ToSet(s) = ToSet(handlers) \ {handlers[n]}
             /\ Distinct(s)
             /\ Sorted(s)
<1> DEFINE s == RemoveAt(handlers, n)
           N == Len(handlers)
<1>1. N \in Nat /\ \A i \in 1 .. N : level[handlers[i]] \in Nat
  BY LevelAssumption
<1>2. /\ s \in Seq(Handlers)
      /\ Len(s) = N - 1
      /\ \A i \in 1 .. N - 1 :
           s[i] = IF i < n THEN handlers[i] ELSE handlers[i + 1]
  BY RemoveAtPositions
<1> HIDE DEF s
<1>3. ToSet(s) = ToSet(handlers) \ {handlers[n]}
  <2>1. \A i \in 1 .. N : i # n => \E j \in 1 .. N - 1 : s[j] = handlers[i]
    <3>1. SUFFICES ASSUME NEW i \in 1 .. N, i # n
                   PROVE  \E j \in 1 .. N - 1 : s[j] = handlers[i]
      OBVIOUS
    <3>2. CASE i < n
      <4>1. i \in 1 .. N - 1 /\ s[i] = handlers[i]
        BY <1>1, <1>2, <3>2
      <4> QED
        BY <4>1
    <3>3. CASE i > n
      <4>1. i - 1 \in 1 .. N - 1 /\ s[i - 1] = handlers[i]
        BY <1>1, <1>2, <3>3
      <4> QED
        BY <4>1
    <3> QED
      BY <1>1, <3>1, <3>2, <3>3
  <2>2. \A j \in 1 .. N - 1 : \E i \in 1 .. N : i # n /\ s[j] = handlers[i]
    BY <1>1, <1>2
  <2>3. \A i \in 1 .. N : i # n => handlers[i] # handlers[n]
    BY DEF Distinct
  <2>4. ToSet(s) = {s[i] : i \in 1 .. N - 1}
    BY <1>2, RegisteredHandlers
  <2>5. ToSet(handlers) = {handlers[i] : i \in 1 .. N}
    BY RegisteredHandlers
  <2>6. ToSet(s) \subseteq ToSet(handlers) \ {handlers[n]}
    BY <2>2, <2>3, <2>4, <2>5
  <2>7. ToSet(handlers) \ {handlers[n]} \subseteq ToSet(s)
    BY <2>1, <2>4, <2>5
  <2> QED
    BY <2>6, <2>7
<1> DEFINE old(i) == IF i < n THEN i ELSE i + 1
<1>6. \A i \in 1 .. N - 1 : old(i) \in 1 .. N /\ s[i] = handlers[old(i)]
  BY <1>1, <1>2
<1>4. Distinct(s)
  BY <1>1, <1>2 DEF Distinct
<1>5. Sorted(s)
  <2>1. SUFFICES ASSUME NEW i \in 1 .. N - 1, NEW j \in 1 .. N - 1, i < j
                 PROVE  level[s[i]] <= level[s[j]]
    BY <1>2 DEF Sorted
  <2>2. /\ old(i) \in 1 .. N /\ s[i] = handlers[old(i)]
        /\ old(j) \in 1 .. N /\ s[j] = handlers[old(j)]
        /\ old(i) < old(j)
    BY <1>1, <1>6, <2>1
  <2> HIDE DEF old
  <2> QED
    BY <2>2 DEF Sorted
<1> QED
  BY <1>2, <1>3, <1>4, <1>5 DEF s

-----------------------------------------------------------------------------
(* The invariant.  Inside the loops of early_suspend and late_resume the   *)
(* suspended handlers are a prefix of the list, which ends at pos.         *)

Prefix(n) == {handlers[i] : i \in 1 .. n}

(* The registered handlers that are suspended. *)
Off == off \cap Registered

InPrefix ==
  /\ worker = "early_calls" =>
       pos \in 1 .. Len(handlers) + 1 /\ suspended /\ Off = Prefix(pos - 1)
  /\ worker = "late_calls" =>
       pos \in 0 .. Len(handlers) /\ ~suspended /\ Off = Prefix(pos)

HandlerInv ==
  /\ handlers \in Seq(Handlers)
  /\ off \subseteq Handlers
  /\ pos \in Nat
  /\ Distinct(handlers)
  /\ Sorted(handlers)
  /\ InPrefix
  /\ HandlersFollowState

LEMMA RegisteredIsPrefix ==
  ASSUME handlers \in Seq(Handlers)
  PROVE  Registered = Prefix(Len(handlers))
BY RegisteredHandlers DEF Registered, Prefix

LEMMA QuietStepKeepsHandlerInv ==
  ASSUME HandlerInv, UNCHANGED <<suspended, handlers, off, pos>>,
         \/ worker' = worker
         \/ ~EarlySuspendLocked /\ ~EarlySuspendLocked'
  PROVE  HandlerInv'
BY DEF HandlerInv, InPrefix, Prefix, Off, HandlersFollowState, Registered,
       EarlySuspendLocked

LEMMA DriverKeepsHandlerInv ==
  ASSUME HandlerInv, DriverClient PROVE HandlerInv'
<1>1. PICK h \in Handlers :
        register_early_suspend(h) \/ unregister_early_suspend(h)
  BY DEF DriverClient
<1>2. /\ ~EarlySuspendLocked /\ ~EarlySuspendLocked'
      /\ UNCHANGED <<worker, suspended, pos>>
  BY <1>1 DEF register_early_suspend, unregister_early_suspend, spvars,
              EarlySuspendLocked
<1>3. InPrefix'
  BY <1>2 DEF InPrefix, EarlySuspendLocked
<1>4. off \cap Registered = IF suspended THEN Registered ELSE {}
  BY <1>2 DEF HandlerInv, HandlersFollowState
<1>5. CASE register_early_suspend(h)
  <2>1. /\ handlers' \in Seq(Handlers) /\ Distinct(handlers')
        /\ Sorted(handlers') /\ Registered' = Registered \cup {h}
    BY <1>5, InsertKeepsOrder
       DEF register_early_suspend, HandlerInv, Registered
  <2>2. off' = IF suspended THEN off \cup {h} ELSE off \ {h}
    BY <1>5 DEF register_early_suspend
  <2> QED
    BY <1>2, <1>3, <1>4, <2>1, <2>2 DEF HandlerInv, HandlersFollowState
<1>6. CASE unregister_early_suspend(h)
  <2>1. PICK n \in 1 .. Len(handlers) :
          handlers[n] = h /\ handlers' = RemoveAt(handlers, n)
    BY <1>6 DEF unregister_early_suspend
  <2>2. /\ handlers' \in Seq(Handlers) /\ Distinct(handlers')
        /\ Sorted(handlers') /\ Registered' = Registered \ {h}
    BY <2>1, RemoveKeepsOrder DEF HandlerInv, Registered
  <2>3. off' = off
    BY <1>6 DEF unregister_early_suspend
  <2> QED
    BY <1>2, <1>3, <1>4, <2>2, <2>3 DEF HandlerInv, HandlersFollowState
<1> QED
  BY <1>1, <1>5, <1>6

LEMMA EarlySuspendKeepsHandlerInv ==
  ASSUME SleepInv, HandlerInv, EarlySuspendWork PROVE HandlerInv'
<1> USE DEF goto, EarlySuspendLocked
<1>1. /\ handlers \in Seq(Handlers) /\ Len(handlers) \in Nat /\ pos \in Nat
      /\ Distinct(handlers) /\ Sorted(handlers) /\ InPrefix
      /\ HandlersFollowState
      /\ Registered = Prefix(Len(handlers))
      /\ suspended \in BOOLEAN
  BY RegisteredIsPrefix DEF HandlerInv, SleepInv, ControlOK
<1>2. handlers' = handlers /\ \A n : Prefix(n)' = Prefix(n)
  BY DEF EarlySuspendWork, early_suspend_state, early_suspend_call,
     early_suspend_sync, early_suspend_final, late_resume_state,
     late_resume_call, late_resume_done, esvars, Prefix
<1>3. Registered' = Registered
  BY <1>2 DEF Registered
<1>4. SUFFICES /\ pos' \in Nat /\ InPrefix' /\ HandlersFollowState'
               /\ off' \subseteq Handlers
  BY <1>1, <1>2 DEF HandlerInv
<1>o. /\ \A i \in 1 .. Len(handlers) :
           handlers[i] \in Handlers /\ handlers[i] \in Registered
      /\ off \subseteq Handlers
  BY <1>1 DEF Prefix, HandlerInv
<1>p. HandlersFollowState <=>
        (~EarlySuspendLocked => Off = IF suspended THEN Registered ELSE {})
  BY DEF HandlersFollowState, Off
<1>q. HandlersFollowState' <=>
        (~EarlySuspendLocked' => Off' = IF suspended' THEN Registered' ELSE {})
  BY DEF HandlersFollowState, Off
<1>r. off' = off => Off' = Off
  BY <1>3 DEF Off
<1>5. CASE early_suspend_state
  <2>1. CASE suspend_requested /\ ~suspended
    <3>1. /\ worker' = "early_calls" /\ pos' = 1 /\ suspended' = TRUE
          /\ off' = off /\ Off = {}
      BY <1>1, <1>p, <1>5, <2>1 DEF early_suspend_state
    <3>2. Off' = Prefix(pos - 1)'
      BY <1>r, <3>1 DEF Prefix
    <3> QED
      BY <1>1, <1>2, <1>o, <1>q, <3>1, <3>2 DEF InPrefix
  <2>2. CASE ~(suspend_requested /\ ~suspended)
    <3>1. /\ worker' = "early_final"
          /\ UNCHANGED <<suspended, handlers, off, pos>>
      BY <1>5, <2>2 DEF early_suspend_state
    <3> QED
      BY <1>1, <1>3, <1>o, <1>p, <1>q, <1>r, <1>5, <3>1
         DEF early_suspend_state, InPrefix
  <2> QED
    BY <2>1, <2>2
<1>6. CASE early_suspend_call
  <2>0. off' = off \cup {handlers[pos]} /\ handlers[pos] \in Registered
        /\ handlers[pos] \in Handlers
    BY <1>1, <1>o, <1>6 DEF early_suspend_call, InPrefix
  <2>1. /\ worker = "early_calls" /\ worker' = "early_calls"
        /\ pos \in 1 .. Len(handlers) /\ pos' = pos + 1
        /\ suspended' = suspended /\ suspended
        /\ Off' = Prefix(pos - 1) \cup {handlers[pos]}
    BY <1>1, <1>3, <1>6, <2>0 DEF early_suspend_call, InPrefix, Off, spvars
  <2>2. Prefix(pos - 1) \cup {handlers[pos]} = Prefix(pos)
    BY <1>1, <2>1 DEF Prefix
  <2>3. pos' - 1 = pos /\ pos' \in 1 .. Len(handlers) + 1
    BY <1>1, <2>1
  <2>4. Off' = Prefix(pos - 1)'
    BY <1>2, <2>1, <2>2, <2>3 DEF Prefix
  <2> QED
    BY <1>1, <1>2, <1>o, <1>q, <2>0, <2>1, <2>3, <2>4 DEF InPrefix
<1>7. CASE early_suspend_sync
  <2>1. /\ pos = Len(handlers) + 1 /\ suspended /\ Off = Prefix(pos - 1)
        /\ worker' = "early_final" /\ pos' = 0
        /\ UNCHANGED <<suspended, off>>
    BY <1>1, <1>7 DEF early_suspend_sync, InPrefix
  <2>2. Off' = Registered'
    BY <1>1, <1>3, <1>r, <2>1
  <2> QED
    BY <1>o, <1>q, <2>1, <2>2 DEF InPrefix
<1>8. CASE early_suspend_final \/ late_resume_done
  <2>1. /\ worker' = "idle" /\ UNCHANGED <<suspended, handlers, off, pos>>
    BY <1>8 DEF early_suspend_final, late_resume_done, esvars
  <2>2. Off = IF suspended THEN Registered ELSE {}
    <3>1. CASE early_suspend_final
      BY <1>1, <1>p, <3>1 DEF early_suspend_final
    <3>2. CASE late_resume_done
      <4>1. Off = Prefix(0) /\ ~suspended
        BY <1>1, <3>2 DEF late_resume_done, InPrefix
      <4> QED
        BY <4>1 DEF Prefix
    <3> QED
      BY <1>8, <3>1, <3>2
  <2> QED
    BY <1>1, <1>3, <1>o, <1>q, <1>r, <2>1, <2>2 DEF InPrefix
<1>9. CASE late_resume_state
  <2>1. CASE suspended /\ ~suspend_requested
    <3>1. /\ worker' = "late_calls" /\ pos' = Len(handlers)
          /\ suspended' = FALSE /\ off' = off /\ Off = Registered
      BY <1>1, <1>p, <1>9, <2>1 DEF late_resume_state
    <3>2. Off' = Prefix(pos)'
      BY <1>1, <1>2, <1>r, <3>1 DEF Prefix
    <3> QED
      BY <1>1, <1>2, <1>o, <1>q, <3>1, <3>2 DEF InPrefix
  <2>2. CASE ~(suspended /\ ~suspend_requested)
    <3>1. /\ worker' = "idle"
          /\ UNCHANGED <<suspended, handlers, off, pos>>
      BY <1>9, <2>2 DEF late_resume_state
    <3> QED
      BY <1>1, <1>3, <1>o, <1>p, <1>q, <1>r, <1>9, <3>1
         DEF late_resume_state, InPrefix
  <2> QED
    BY <2>1, <2>2
<1>10. CASE late_resume_call
  <2>0. off' = off \ {handlers[pos]}
    BY <1>10 DEF late_resume_call
  <2>1. /\ worker = "late_calls" /\ worker' = "late_calls"
        /\ pos \in 1 .. Len(handlers) /\ pos' = pos - 1
        /\ suspended' = suspended /\ ~suspended
        /\ Off' = Prefix(pos) \ {handlers[pos]}
    BY <1>1, <1>3, <1>10, <2>0 DEF late_resume_call, InPrefix, Off, spvars
  <2>2. Prefix(pos) \ {handlers[pos]} = Prefix(pos - 1)
    <3>1. \A i \in 1 .. pos - 1 : handlers[i] # handlers[pos]
      BY <1>1, <2>1 DEF Distinct
    <3>2. \A i \in 1 .. pos : i = pos \/ i \in 1 .. pos - 1
      BY <1>1, <2>1
    <3>3. \A i \in 1 .. pos - 1 : i \in 1 .. pos
      BY <1>1, <2>1
    <3> QED
      BY <3>1, <3>2, <3>3 DEF Prefix
  <2>3. Off' = Prefix(pos)'
    BY <1>2, <2>1, <2>2 DEF Prefix
  <2>4. pos' \in 0 .. Len(handlers)
    BY <1>1, <2>1
  <2> QED
    BY <1>1, <1>2, <1>o, <1>q, <2>0, <2>1, <2>3, <2>4 DEF InPrefix
<1> QED
  BY <1>5, <1>6, <1>7, <1>8, <1>9, <1>10 DEF EarlySuspendWork

LEMMA InitHandlerInv == Init => HandlerInv
<1> SUFFICES ASSUME Init PROVE HandlerInv
  OBVIOUS
<1>1. handlers = <<>> /\ Len(handlers) = 0 /\ pos = 0
  BY DEF Init
<1>2. ToSet(<<>>) = {}
  BY DEF ToSet
<1>3. handlers \in Seq(Handlers)
  BY <1>1
<1> QED
  BY <1>1, <1>2, <1>3
     DEF Init, HandlerInv, Distinct, Sorted, InPrefix, HandlersFollowState,
         Registered

LEMMA NextHandlerInv ==
  SleepInv /\ HandlerInv /\ [Next]_vars => HandlerInv'
<1> SUFFICES ASSUME SleepInv, HandlerInv, [Next]_vars PROVE HandlerInv'
  OBVIOUS
<1>1. CASE KernelClient \/ UserClient \/ arch_idle \/ TimerTick
           \/ TimerSoftirq \/ UNCHANGED vars
  <2>1. worker' = worker /\ UNCHANGED <<suspended, handlers, off, pos>>
    BY <1>1 DEF KernelClient, UserClient, arch_idle, TimerTick,
       TimerSoftirq, request_suspend_state, vars, spvars, esvars
  <2> QED
    BY <2>1, QuietStepKeepsHandlerInv
<1>2. CASE DriverClient
  BY <1>2, DriverKeepsHandlerInv
<1>3. CASE EarlySuspendWork
  BY <1>3, EarlySuspendKeepsHandlerInv
<1>4. CASE /\ run_workqueue \/ SuspendWork \/ SuspendFailure \/ wake_up
           /\ UNCHANGED esvars
  <2>1. ~EarlySuspendLocked /\ ~EarlySuspendLocked'
    <3>1. CASE run_workqueue
      <4>1. Head(worklist) \in Works
        BY <3>1 DEF SleepInv, LocksOK, WakeLockTypeOK, run_workqueue
      <4> QED
        BY <3>1, <4>1 DEF run_workqueue, goto, EntryStep, Works,
                          EarlySuspendLocked
    <3>2. CASE SuspendWork \/ SuspendFailure \/ wake_up
      BY <3>2 DEF EarlySuspendLocked, SuspendWork, SuspendFailure, goto,
         suspend_check, suspend_entry_event, pm_suspend, suspend_prepare,
         freeze_done, freeze_retry, device_suspend, power_suspend_late,
         suspend_enter, suspend_finish, suspend_exit,
         suspend_prepare_fails, freeze_fails, device_suspend_fails,
         power_down_fails, wake_up
    <3> QED
      BY <1>4, <3>1, <3>2
  <2>2. UNCHANGED <<suspended, handlers, off, pos>>
    BY <1>4 DEF esvars
  <2> QED
    BY <2>1, <2>2, QuietStepKeepsHandlerInv
<1> QED
  BY <1>1, <1>2, <1>3, <1>4 DEF Next, Client, Worker, Failure, WakeUp

(* Outside the section early_suspend_lock protects, the suspended handlers *)
(* are all the registered ones or none, as the SUSPENDED bit says.         *)
THEOREM HandlersTheorem == Spec => []HandlersFollowState
<1>1. HandlerInv => HandlersFollowState
  BY DEF HandlerInv
<1> QED
  BY <1>1, InitSleepInv, NextSleepInv, InitHandlerInv, NextHandlerInv, PTL
     DEF Spec

(* Handlers suspend in order of their levels and resume in the opposite    *)
(* order, also those registered and unregistered in between.               *)
THEOREM LevelOrderTheorem == Spec => []HandlersInLevelOrder
<1>1. SleepInv /\ HandlerInv => HandlersInLevelOrder
  <2>1. SUFFICES ASSUME SleepInv, HandlerInv,
                        NEW g \in Registered, NEW h \in Registered,
                        level[g] < level[h], h \in off
                 PROVE  g \in off
    BY DEF HandlersInLevelOrder
  <2>2. CASE ~EarlySuspendLocked
    BY <2>1, <2>2 DEF HandlerInv, HandlersFollowState
  <2>3. CASE EarlySuspendLocked
    <3>0. h \in Off
      BY <2>1 DEF Off
    <3>1. PICK n \in 0 .. Len(handlers) : Off = Prefix(n)
      <4>1. Len(handlers) \in Nat
        BY <2>1 DEF HandlerInv
      <4>2. CASE worker = "early_calls"
        BY <2>1, <4>1, <4>2 DEF HandlerInv, InPrefix
      <4>3. CASE worker = "late_calls"
        BY <2>1, <4>1, <4>3 DEF HandlerInv, InPrefix
      <4> QED
        BY <2>3, <4>2, <4>3 DEF EarlySuspendLocked
    <3>2. PICK j \in 1 .. n : h = handlers[j]
      BY <3>0, <3>1 DEF Prefix
    <3>3. PICK i \in 1 .. Len(handlers) : g = handlers[i]
      BY <2>1, RegisteredIsPrefix DEF HandlerInv, Prefix
    <3>4. /\ Len(handlers) \in Nat
          /\ level[g] \in Nat /\ level[h] \in Nat
          /\ j \in 1 .. Len(handlers)
      BY <2>1, <3>1, <3>2, <3>3, LevelAssumption DEF HandlerInv
    <3>5. ~(j < i)
      BY <2>1, <3>2, <3>3, <3>4 DEF HandlerInv, Sorted
    <3>6. i \in 1 .. n
      BY <2>1, <3>2, <3>3, <3>4, <3>5
    <3> QED
      BY <3>1, <3>3, <3>6 DEF Prefix, Off
  <2> QED
    BY <2>2, <2>3
<1> QED
  BY <1>1, InitSleepInv, NextSleepInv, InitHandlerInv, NextHandlerInv, PTL
     DEF Spec

(* The system sleeps only while user space asks for it and with every      *)
(* registered handler suspended.                                           *)
THEOREM SleepRequestTheorem == Spec => []SleepOnlyWhenRequested
<1>1. SleepInv /\ HandlerInv => SleepOnlyWhenRequested
  <2>1. SUFFICES ASSUME SleepInv, HandlerInv, Asleep
                 PROVE  /\ suspend_requested
                        /\ requested_suspend_state # "on"
                        /\ Registered \subseteq off
    BY DEF SleepOnlyWhenRequested
  <2>2. ~MainActive
    BY <2>1, LockAssumption DEF SleepInv, LateMeansUnlocked, Asleep,
       MainActive
  <2>3. suspend_requested /\ suspended
    BY <2>1, <2>2 DEF SleepInv, MainLockFollowsRequest
  <2>4. ~EarlySuspendLocked
    BY <2>1 DEF Asleep, EarlySuspendLocked
  <2> QED
    BY <2>1, <2>3, <2>4 DEF SleepInv, RequestIsSleep, HandlerInv,
       HandlersFollowState
<1> QED
  BY <1>1, InitSleepInv, NextSleepInv, InitHandlerInv, NextHandlerInv, PTL
     DEF Spec

(* Every variable of the composition keeps its type. *)
THEOREM TypeTheorem == Spec => []TypeOK
<1>1. SleepInv /\ HandlerInv => TypeOK
  BY DEF TypeOK, SleepInv, LocksOK, ControlOK, HandlerInv
<1> QED
  BY <1>1, InitSleepInv, NextSleepInv, InitHandlerInv, NextHandlerInv, PTL
     DEF Spec
=============================================================================
