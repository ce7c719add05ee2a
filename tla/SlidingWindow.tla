---------------------------- MODULE SlidingWindow ----------------------------
(***************************************************************************)
(* The arithmetic of app/llm/limits.py's SlidingWindow: a sorted list of   *)
(* the times at which requests may be sent, some of them in the future.    *)
(* The class's clock reading, capacity and window length are parameters    *)
(* here, so that one module serves every window of every limiter.  The     *)
(* code's floats are natural numbers of clock ticks.                       *)
(*                                                                         *)
(* RateLimiter_proofs proves what these operators guarantee.               *)
(***************************************************************************)
EXTENDS Integers, SequencesExt

\* What bisect.bisect_right(s, t) promises: the first k elements are at most
\* t and the others are above it.
IsBisectRight(s, t, k) ==
  /\ \A i \in 1..k : s[i] <= t
  /\ \A i \in (k + 1)..Len(s) : s[i] > t

BisectRight(s, t) == CHOOSE k \in 0..Len(s) : IsBisectRight(s, t, k)

\* bisect.insort: t goes after every element that is at most t.
Insort(s, t) == InsertAt(s, BisectRight(s, t) + 1, t)

\* _prune: forget the slots that are a whole window or more in the past.
Prune(s, now, window) ==
  SubSeq(s, BisectRight(s, now - window) + 1, Len(s))

\* A plausible slip in NextSlot: taking the oldest slot, slots[0], for the one
\* that is `capacity` from the end.
OldestSlotPlusWindow(s, now, capacity, window) ==
  IF Len(s) < capacity \/ s[1] + window <= now THEN now ELSE s[1] + window

\* A plausible slip: the window's length with the wrong sign.
WindowBeforeSlot(s, now, capacity, window) ==
  IF Len(s) < capacity THEN now ELSE s[Len(s) - capacity + 1] - window

\* _next_slot: now while fewer than `capacity` slots are held; otherwise one
\* window after the slot that is `capacity` from the end of the list.
NextSlot(s, now, capacity, window) ==
  IF Len(s) < capacity \/ s[Len(s) - capacity + 1] + window <= now
  THEN now
  ELSE s[Len(s) - capacity + 1] + window

\* cancel: list.remove, with the ValueError of a slot already pruned suppressed.
\* Equal slots are interchangeable, so which of them goes does not matter.
Holds(s, slot) == \E p \in 1..Len(s) : s[p] = slot
Place(s, slot) == CHOOSE p \in 1..Len(s) : s[p] = slot
RemoveSlot(s, slot) ==
  IF Holds(s, slot) THEN RemoveAt(s, Place(s, slot)) ELSE s

-----------------------------------------------------------------------------

Sorted(s) == \A i, j \in 1..Len(s) : i < j => s[i] <= s[j]

\* Any capacity + 1 slots, in order, span at least one window: no window holds
\* more than `capacity` of them.
Spaced(s, capacity, window) ==
  \A i \in 1..Len(s) :
    i + capacity <= Len(s) => s[i + capacity] >= s[i] + window

\* s is what is left of b after a prefix of slots no later than `horizon`.
IsTail(s, b, horizon) ==
  /\ Len(s) <= Len(b)
  /\ \A i \in 1..Len(s) : s[i] = b[Len(b) - Len(s) + i]
  /\ \A i \in 1..(Len(b) - Len(s)) : b[i] <= horizon

=============================================================================
