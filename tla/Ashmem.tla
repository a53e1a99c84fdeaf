------------------------------- MODULE Ashmem -------------------------------
(***************************************************************************)
(* The anonymous shared memory of Android, kernel/mm/ashmem.c: ranges of   *)
(* unpinned pages, on a sorted list per area and, while they are not       *)
(* purged, on one LRU list.                                                *)
(*                                                                         *)
(* All that is done under ashmem_mutex is one step.  Sizes and offsets are *)
(* in pages, requests the pairs of pages that pass the checks of           *)
(* ashmem_pin_unpin.  Those checks are made before the mutex is taken; as  *)
(* they only read the file, which stays, and the size, which no step under *)
(* the mutex reads again, they are part of the step.  Names, protection    *)
(* bits and the mappings themselves are left out.                          *)
(***************************************************************************)
EXTENDS Integers, SequencesExt

CONSTANTS
  Areas,      \* files of /dev/ashmem, one struct ashmem_area each
  Sizes,      \* Sizes[a]: what SET_SIZE is called with, in pages
  Scans,      \* numbers of pages that are to be reclaimed
  Ids         \* bound: structs ashmem_range that can exist at a time

ASSUME AshmemAssumption == 
  (\A a \in Areas : Sizes[a] \subseteq Nat \ {0}) /\ Scans \subseteq Nat \ {0}

VARIABLES
  opened,         \* areas that exist
  size,           \* size[a]: in pages, 0 until it is set
  setting,        \* <<a, n>> while a thread in SET_SIZE is to store size n, or <<>>
  file,           \* areas that have their backing file
  range,          \* range[i]: the struct ashmem_range at i, if there is one
  unpinned_list,  \* unpinned_list[a]: its ranges
  ashmem_lru_list,
  lru_count,      \* pages on the LRU list
  dropped,        \* dropped[a]: unpinned pages that were truncated away
  ret,            \* what a PIN or UNPIN has returned in the last step
  nomem           \* range_alloc failed in it

areas == <<opened, size, setting, file>>
ranges == <<range, unpinned_list, ashmem_lru_list, lru_count, dropped>>
answer == <<ret, nomem>>
vars == <<areas, ranges, answer>>

range_size(r) == r.pgend - r.pgstart + 1
range_on_lru(r) == ~r.purged
page_range_subsumes_range(r, start, end) == r.pgstart >= start /\ r.pgend <= end
page_range_subsumed_by_range(r, start, end) ==
  r.pgstart <= start /\ r.pgend >= end
page_in_range(r, page) == r.pgstart <= page /\ page <= r.pgend

(* A planted bug: a range that lies inside the pages is not seen. *)
page_range_in_range_ends(r, start, end) ==
  page_in_range(r, start) \/ page_in_range(r, end)

page_range_in_range(r, start, end) ==
  \/ page_in_range(r, start) \/ page_in_range(r, end)
  \/ page_range_subsumes_range(r, start, end)

range_before_page(r, page) == r.pgend < page

(* The lists, which the steps below take from one state to the next. *)
Lists == [range |-> range, list |-> unpinned_list, lru |-> ashmem_lru_list,
          count |-> lru_count]

(* The positions that a scan of list for pages from start on comes to. *)
Reached(rng, list, start) ==
  {i \in DOMAIN list : \A j \in 1 .. i : ~range_before_page(rng[list[j]], start)}

(* Those of them that have to do with the pages. *)
Hits(rng, list, start, end) ==
  {i \in Reached(rng, list, start) : page_range_in_range(rng[list[i]], start, end)}

lru_add(s, i, r) ==
  [s EXCEPT !.lru = Append(@, i), !.count = @ + range_size(r)]

lru_del(s, i) ==
  [s EXCEPT !.lru = RemoveFirst(@, i), !.count = @ - range_size(s.range[i])]

(* A planted bug: the pages of a purged range are counted off once more. *)
range_del_counted(s, i) ==
  [lru_del(s, i) EXCEPT !.range = Restrict(@, DOMAIN @ \ {i}),
                        !.list[s.range[i].asma] = RemoveFirst(@, i)]

range_del(s, i) ==
  [(IF range_on_lru(s.range[i]) THEN lru_del(s, i) ELSE s) EXCEPT
     !.range = Restrict(@, DOMAIN @ \ {i}),
     !.list[s.range[i].asma] = RemoveFirst(@, i)]

(* A planted bug: lru_count does not follow. *)
range_shrink_uncounted(s, i, start, end) ==
  [s EXCEPT !.range[i].pgstart = start, !.range[i].pgend = end]

range_shrink(s, i, start, end) ==
  LET pre == range_size(s.range[i])
  IN  [s EXCEPT !.range[i].pgstart = start, !.range[i].pgend = end,
                !.count = IF range_on_lru(s.range[i])
                          THEN @ - (pre - (end - start + 1)) ELSE @]

(* range_alloc of i, if there is memory, before position at of the list *)
range_alloc(s, i, at, r) ==
  [(IF range_on_lru(r) THEN lru_add(s, i, r) ELSE s) EXCEPT
     !.range = [j \in DOMAIN @ \cup {i} |-> IF j = i THEN r ELSE @[j]],
     !.list[r.asma] = InsertAt(@, at, i)]

Free(s) == Ids \ DOMAIN s.range

(* The pages of a that are in some range. *)
Unpinned(rng, a) ==
  UNION {rng[i].pgstart .. rng[i].pgend : i \in {i \in DOMAIN rng : rng[i].asma = a}}

(* The lists become those of s, and P is truncated away. *)
Becomes(s, P) ==
  /\ range' = s.range /\ unpinned_list' = s.list
  /\ ashmem_lru_list' = s.lru /\ lru_count' = s.count
  /\ dropped' = [a \in Areas |-> (dropped[a] \cup P[a]) \cap Unpinned(s.range, a)]

Nothing == [a \in Areas |-> {}]

(* The step is no PIN and no UNPIN. *)
NoAnswer == ret' = "NOT_PURGED" /\ nomem' = FALSE

-----------------------------------------------------------------------------
ashmem_open(a) ==
  /\ a \notin opened
  /\ opened' = opened \cup {a}
  /\ NoAnswer /\ UNCHANGED <<size, setting, file, ranges>>

(* All ranges of an area are deleted. *)
Released(a) ==
  LET list == unpinned_list[a]
      del[n \in 0 .. Len(list)] ==
        IF n = 0 THEN Lists ELSE range_del(del[n - 1], list[n])
  IN  del[Len(list)]

(* Its file is dropped as well; no ioctl is under way then. *)
ashmem_release(a) ==
  /\ a \in opened /\ (setting # <<>> => setting[1] # a)
  /\ opened' = opened \ {a} /\ file' = file \ {a}
  /\ size' = [size EXCEPT ![a] = 0]
  /\ Becomes(Released(a), Nothing)
  /\ NoAnswer /\ UNCHANGED setting

(* ASHMEM_SET_SIZE looks for a file and stores the size, without the mutex:*)
(* it can be preempted in between.                                         *)
set_size_check(a, n) ==
  /\ a \in opened \ file /\ setting = <<>>
  /\ setting' = <<a, n>>
  /\ NoAnswer /\ UNCHANGED <<opened, size, file, ranges>>

set_size ==
  /\ setting # <<>>
  /\ size' = [size EXCEPT ![setting[1]] = setting[2]]
  /\ setting' = <<>>
  /\ NoAnswer /\ UNCHANGED <<opened, file, ranges>>

(* The first mapping makes the backing file. *)
ashmem_mmap(a) ==
  /\ a \in opened \ file /\ size[a] # 0
  /\ file' = file \cup {a}
  /\ NoAnswer /\ UNCHANGED <<opened, size, setting, ranges>>

(* First and last page of what ashmem_pin_unpin lets pass.  A length of 0  *)
(* means everything onward, also from the very end: then there is no page, *)
(* and the last is the one before the first.                               *)
Requests(a) ==
  {q \in (0 .. size[a]) \X (0 .. size[a] - 1) :
     q[1] <= q[2] \/ (q[1] = size[a] /\ q[2] = size[a] - 1)}

-----------------------------------------------------------------------------
(* A range that start..end is in the middle of. *)
Hole(r, start, end) == r.pgstart < start /\ r.pgend > end

(* Cases 1 to 4 of ashmem_pin: what start..end leave of the range i.  Of a *)
(* hole it is the lower part.                                              *)
PinRange(s, i, start, end) ==
  LET r == s.range[i]
  IN  IF page_range_subsumes_range(r, start, end) THEN range_del(s, i)
      ELSE IF r.pgstart >= start THEN range_shrink(s, i, end + 1, r.pgend)
      ELSE range_shrink(s, i, r.pgstart, start - 1)

(* The ranges that ashmem_pin changes: a hole ends the scan. *)
Pinned(a, start, end) ==
  LET list == unpinned_list[a]
  IN  {list[i] : i \in {i \in Hits(range, list, start, end) :
         \A j \in 1 .. i - 1 : ~Hole(range[list[j]], start, end)}}

(* What it makes of them. *)
PinRanges(a, start, end) ==
  LET list == unpinned_list[a]
      scan[n \in 0 .. Len(list)] ==
        IF n = 0 THEN Lists
        ELSE IF list[n] \in Pinned(a, start, end)
             THEN PinRange(scan[n - 1], list[n], start, end)
             ELSE scan[n - 1]
  IN  scan[Len(list)]

(* The upper part of a hole becomes a new range; that there is no memory   *)
(* for one goes unnoticed.                                                 *)
ashmem_pin(a, start, end) ==
  LET hit == Pinned(a, start, end)
      hole == {i \in hit : Hole(range[i], start, end)}
      s == PinRanges(a, start, end)
  IN  /\ \/ /\ Becomes(s, Nothing)
            /\ nomem' = (hole # {})
         \/ /\ \E h \in hole, new \in Free(s) :
                 LET at == SelectInSeq(s.list[a], LAMBDA i : i = h)
                     upper == [range[h] EXCEPT !.pgstart = end + 1]
                 IN  Becomes(range_alloc(s, new, at, upper), Nothing)
            /\ nomem' = FALSE
      /\ ret' = IF \E i \in hit : range[i].purged THEN "WAS_PURGED"
                ELSE "NOT_PURGED"
      /\ UNCHANGED areas

(* A planted bug: a merged range forgets that a part of it was purged. *)
Purged_forgotten(m, r) == m.purged

(* Whether a merged range counts as purged. *)
Purged(m, r) == m.purged \/ r.purged

(* One round of the loop of ashmem_unpin, up to "goto restart": the first  *)
(* range that is hit goes and m grows by it, unless m lies inside it.      *)
Merge(a, m) ==
  LET list == m.lists.list[a]
      hits == Hits(m.lists.range, list, m.pgstart, m.pgend)
      r == m.lists.range[list[Min(hits)]]
  IN  IF hits = {} \/ m.inside THEN m
      ELSE IF page_range_subsumed_by_range(r, m.pgstart, m.pgend)
           THEN [m EXCEPT !.inside = TRUE]
           ELSE [m EXCEPT !.pgstart = Min({r.pgstart, @}),
                          !.pgend = Max({r.pgend, @}),
                          !.purged = Purged(m, r),
                          !.lists = range_del(@, list[Min(hits)])]

(* All its rounds. *)
Merged(a, start, end) ==
  LET round[n \in 0 .. Len(unpinned_list[a]) + 1] ==
        IF n = 0 THEN [pgstart |-> start, pgend |-> end, purged |-> FALSE,
                       lists |-> Lists, inside |-> FALSE]
        ELSE Merge(a, round[n - 1])
  IN  round[Len(unpinned_list[a]) + 1]

(* ashmem_unpin: the merged range is allocated where the scan has ended. *)
ashmem_unpin(a, start, end) ==
  LET m == Merged(a, start, end)
      list == m.lists.list[a]
      at == Min({i \in DOMAIN list : range_before_page(m.lists.range[list[i]], m.pgstart)}
                \cup {Len(list) + 1})
      new == [asma |-> a, pgstart |-> m.pgstart, pgend |-> m.pgend,
              purged |-> m.purged]
  IN  /\ \/ /\ m.inside
            /\ Becomes(m.lists, Nothing)
            /\ ret' = "NOT_PURGED" /\ nomem' = FALSE
         \/ /\ ~m.inside
            /\ Becomes(m.lists, Nothing)
            /\ ret' = "ENOMEM" /\ nomem' = TRUE
         \/ /\ ~m.inside
            /\ \E i \in Free(m.lists) :
                 Becomes(range_alloc(m.lists, i, at, new), Nothing)
            /\ ret' = "NOT_PURGED" /\ nomem' = FALSE
      /\ UNCHANGED areas

(* ASHMEM_PIN and ASHMEM_UNPIN, of an area that has its file. *)
ashmem_pin_unpin(a) ==
  /\ a \in file
  /\ \E q \in Requests(a) : \/ ashmem_pin(a, q[1], q[2])
                             \/ ashmem_unpin(a, q[1], q[2])

(* ashmem_get_pin_status: are the pages all pinned? *)
ashmem_get_pin_status(a, start, end) ==
  Hits(range, unpinned_list[a], start, end) = {}

(* The range i is truncated in its file and taken off the LRU list. *)
PurgeRange(s, i) == [lru_del(s, i) EXCEPT !.range[i].purged = TRUE]

(* From the head of the LRU list, until nr_to_scan pages are gone. *)
PurgeRanges(nr_to_scan) ==
  LET lru == ashmem_lru_list
      scan[n \in 0 .. Len(lru)] ==
        IF n = 0 THEN [lists |-> Lists, left |-> nr_to_scan]
        ELSE LET s == scan[n - 1]
             IN  IF s.left <= 0 THEN s
                 ELSE [lists |-> PurgeRange(s.lists, lru[n]),
                       left |-> s.left - range_size(range[lru[n]])]
  IN  scan[Len(lru)].lists

(* ashmem_shrink, for the memory reclaim and for PURGE_ALL_CACHES, which   *)
(* takes the count without the mutex and so may come with any number.      *)
ashmem_shrink(nr_to_scan) ==
  LET s == PurgeRanges(nr_to_scan)
      gone == {i \in DOMAIN range : s.range[i].purged /\ ~range[i].purged}
  IN  /\ ashmem_lru_list # <<>>
      /\ Becomes(s, [a \in Areas |-> Unpinned(Restrict(range, gone), a)])
      /\ NoAnswer /\ UNCHANGED areas

-----------------------------------------------------------------------------
Init ==
  /\ opened = {} /\ file = {}
  /\ size = [a \in Areas |-> 0] /\ setting = <<>>
  /\ range = <<>> /\ unpinned_list = [a \in Areas |-> <<>>]
  /\ ashmem_lru_list = <<>> /\ lru_count = 0
  /\ dropped = Nothing /\ ret = "NOT_PURGED" /\ nomem = FALSE

Next ==
  \/ \E a \in Areas :
       \/ ashmem_open(a) \/ ashmem_release(a) \/ ashmem_mmap(a)
       \/ \E n \in Sizes[a] : set_size_check(a, n)
       \/ ashmem_pin_unpin(a)
  \/ set_size
  \/ \E n \in Scans : ashmem_shrink(n)

Spec == Init /\ [][Next]_vars

-----------------------------------------------------------------------------
TypeOK ==
  /\ opened \subseteq Areas /\ file \subseteq opened
  /\ size \in [Areas -> Nat] /\ setting \in {<<>>} \cup Areas \X Nat
  /\ DOMAIN range \subseteq Ids
  /\ \A i \in DOMAIN range :
       range[i] \in [asma : Areas, pgstart : Nat, pgend : Nat, purged : BOOLEAN]
  /\ \A a \in Areas : ToSet(unpinned_list[a]) \subseteq DOMAIN range
  /\ ToSet(ashmem_lru_list) \subseteq DOMAIN range
  /\ lru_count \in Nat
  /\ dropped \in [Areas -> SUBSET Nat]
  /\ ret \in {"NOT_PURGED", "WAS_PURGED", "ENOMEM"} /\ nomem \in BOOLEAN

(* The list of an area holds its ranges from the last to the first, and no *)
(* page is in two of them, whatever was pinned and unpinned before: the    *)
(* scans of all three ioctls stop early because of that.                   *)
RangesAreDisjoint ==
  \A a \in Areas :
    /\ ToSet(unpinned_list[a]) = {i \in DOMAIN range : range[i].asma = a}
    /\ \A i, j \in DOMAIN unpinned_list[a] :
         i < j => range[unpinned_list[a][i]].pgstart > range[unpinned_list[a][j]].pgend

(* The LRU list has each range that can be purged once, of areas only that *)
(* have a file to truncate, and lru_count is the number of their pages     *)
(* after every merge, split, shrinking and purge.                          *)
LruIsExact ==
  /\ IsInjective(ashmem_lru_list)
  /\ ToSet(ashmem_lru_list) = {i \in DOMAIN range : ~range[i].purged}
  /\ \A i \in DOMAIN range : range[i].asma \in file
  /\ lru_count = Cardinality(UNION {{a} \X Unpinned(Restrict(range, ToSet(ashmem_lru_list)), a) : a \in Areas})

(* ASHMEM_GET_PIN_STATUS never calls pages pinned of which one may be      *)
(* purged, whatever pins, unpins and purges came before.                   *)
GetPinStatusIsSafe ==
  \A a \in file : \A q \in Requests(a) :
    (q[1] .. q[2]) \cap Unpinned(range, a) # {}
      => ~ashmem_get_pin_status(a, q[1], q[2])

(* The comment on ashmem_get_pin_status: unpinned if any page of the       *)
(* interval is, pinned otherwise.  Asked of intervals that have a page.    *)
GetPinStatusIsExact ==
  \A a \in file : \A q \in Requests(a) :
    q[1] <= q[2] =>
      (ashmem_get_pin_status(a, q[1], q[2])
         <=> (q[1] .. q[2]) \cap Unpinned(range, a) = {})

(* The ranges implement what is promised for pages. *)
PagesSpec == INSTANCE AshmemPages WITH
  Pages <- UNION {0 .. n - 1 : n \in UNION {Sizes[a] : a \in Areas}},
  unpinned <- [a \in Areas |-> Unpinned(range, a)], lost <- dropped

(* No client is ever left to trust a page that was purged: every pin of a  *)
(* lost page says so after any merges and splits, losses are forgotten only*)
(* by a call that says or fails, and only unpinned pages are purged.       *)
ImplementsPages == PagesSpec!Spec
=============================================================================
