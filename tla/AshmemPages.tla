---------------------------- MODULE AshmemPages -----------------------------
(***************************************************************************)
(* What the anonymous shared memory of Android promises its clients, page  *)
(* by page: no ranges, no lists.  A page that is unpinned may lose its     *)
(* contents to the memory reclaim; who pins it again is told.  The answer  *)
(* may say so of pages that lost nothing, never the other way round.       *)
(* Without memory a call may leave fewer pages unpinned than it was asked  *)
(* to, but if it forgets a loss thereby, its answer is not a plain success.*)
(***************************************************************************)
EXTENDS Integers

CONSTANTS Areas, Pages

VARIABLES
  unpinned,   \* unpinned[a]: pages that may be purged
  lost,       \* lost[a]: of these, the pages that were, and nobody knows yet
  ret,        \* the answer to PIN or UNPIN, in the step that gives it
  nomem       \* an allocation failed in it

apvars == <<unpinned, lost, ret, nomem>>

Init ==
  /\ unpinned = [a \in Areas |-> {}] /\ lost = [a \in Areas |-> {}]
  /\ ret = "NOT_PURGED" /\ nomem = FALSE

(* A loss in any of the pages S of a that is forgotten now was answered. *)
Told(a, S) == lost[a] \cap S # {} => ret' # "NOT_PURGED"

(* The pages S of area a are pinned, or, without memory, these and more of *)
(* those behind them.                                                      *)
Pin(a, S) ==
  /\ \E T \in SUBSET {p \in unpinned[a] : \A q \in S : q < p} :
       /\ T # {} => nomem'
       /\ unpinned' = [unpinned EXCEPT ![a] = @ \ (S \cup T)]
       /\ lost' = [lost EXCEPT ![a] = @ \ (S \cup T)]
       /\ Told(a, S \cup T)
  /\ ret' \in {"NOT_PURGED", "WAS_PURGED"}
  /\ nomem' \in BOOLEAN

Unpin(a, S) ==
  /\ unpinned' = [unpinned EXCEPT ![a] = @ \cup S]
  /\ ret' = "NOT_PURGED" /\ nomem' = FALSE
  /\ UNCHANGED lost

(* There is no memory to note that S is unpinned: no page of S is. *)
UnpinFails(a, S) ==
  /\ \E T \in SUBSET unpinned[a] :
       /\ unpinned' = [unpinned EXCEPT ![a] = @ \ (S \cup T)]
       /\ lost' = [lost EXCEPT ![a] = @ \ (S \cup T)]
  /\ ret' = "ENOMEM" /\ nomem' = TRUE

NoAnswer == ret' = "NOT_PURGED" /\ nomem' = FALSE

(* Memory is reclaimed. *)
Purge ==
  /\ DOMAIN lost' = Areas
  /\ \A a \in Areas : lost[a] \subseteq lost'[a] /\ lost'[a] \subseteq unpinned[a]
  /\ NoAnswer /\ UNCHANGED unpinned

(* The area is gone, and what was known of its pages. *)
Release(a) ==
  /\ unpinned' = [unpinned EXCEPT ![a] = {}]
  /\ lost' = [lost EXCEPT ![a] = {}]
  /\ NoAnswer

(* Pages are pinned and unpinned as intervals. *)
Intervals == {s .. e : s \in Pages, e \in Pages}

Next ==
  \/ \E a \in Areas : Release(a) \/ \E S \in Intervals \cup {{}} :
                        Pin(a, S) \/ Unpin(a, S) \/ UnpinFails(a, S)
  \/ Purge

Spec == Init /\ [][Next]_apvars
=============================================================================
