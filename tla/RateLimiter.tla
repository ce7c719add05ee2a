----------------------------- MODULE RateLimiter -----------------------------
(***************************************************************************)
(* One provider's RateLimiter (app/llm/limits.py): request windows and a   *)
(* token bucket, driven by the calls the router makes of it.  A request    *)
(* asks for the wait and books in one step, because Router._attempt has no *)
(* await between wait_time and reserve; it may be sent once the wait is    *)
(* over; a request that is not sent is cancelled, one that was sent has    *)
(* its tokens settled, and a cancelled task does neither.                  *)
(*                                                                         *)
(* Time is counted in ticks, and tokens in units of what the bucket        *)
(* refills in one tick, so that every wait is a whole number of ticks.     *)
(***************************************************************************)
EXTENDS SlidingWindow

CONSTANTS
  Requests,       \* the requests, each booked at most once
  Windows,        \* the request windows the provider has (minute, day, or none)
  Length,         \* Length[w]: a window's length in ticks
  Capacity,       \* Capacity[w]: max(1, int(scaled limit)) of a window
  TokenCapacity,  \* the bucket's capacity, one window's refill
  Estimates,      \* token estimates requests come with (0: no token limit)
  Usages,         \* token counts answers report
  MaxWait,        \* the router's max_wait: longer waits are not booked
  MaxTime         \* bound of the model: the clock stops here

ASSUME LimiterAssumption ==
  /\ Length \in [Windows -> Nat \ {0}]
  /\ Capacity \in [Windows -> Nat \ {0}]
  /\ TokenCapacity \in Nat \ {0}
  /\ Estimates \subseteq Nat
  /\ Usages \subseteq Nat
  /\ MaxWait \in Nat
  /\ MaxTime \in Nat

VARIABLES
  now,      \* clock.monotonic()
  slots,    \* SlidingWindow._slots of each window
  bucket,   \* TokenBucket: [level, updated]
  calls,    \* what each request holds: its Reservation and when it may be sent
  booked,   \* history: the slots booked and not cancelled, pruned ones too
  spent     \* history: tokens taken from the bucket less tokens returned

vars == <<now, slots, bucket, calls, booked, spent>>

Least(a, b) == IF a <= b THEN a ELSE b

-----------------------------------------------------------------------------
(* TokenBucket.  Every method refills first.                               *)

\* A plausible slip: refilling without remembering when.
RefilledButNotStamped(b) ==
  [b EXCEPT !.level = Least(TokenCapacity, @ + (now - b.updated))]

Refilled(b) ==
  [level   |-> Least(TokenCapacity, b.level + (now - b.updated)),
   updated |-> now]

Charged(amount) == Least(amount, TokenCapacity)

\* A plausible slip: waiting from an empty bucket instead of from its debt.
WaitWithoutDebt(b, amount) ==
  IF b.level >= Charged(amount) THEN 0 ELSE IF b.level < 0
       THEN Charged(amount)
       ELSE Charged(amount) - b.level

\* wait_time of a refilled bucket: ticks until the amount, capped, is there.
BucketWait(b, amount) ==
  IF b.level >= Charged(amount) THEN 0 ELSE Charged(amount) - b.level

\* reserve and refund of a refilled bucket.
Spend(b, amount) == [b EXCEPT !.level = @ - Charged(amount)]
Refund(b, amount) == [b EXCEPT !.level = Least(TokenCapacity, @ + amount)]

-----------------------------------------------------------------------------
(* RateLimiter.                                                            *)

\* Every method but cancel prunes the windows first.
PrunedSlots == [w \in Windows |-> Prune(slots[w], now, Length[w])]

Slot(w) == NextSlot(PrunedSlots[w], now, Capacity[w], Length[w])

Waits(tokens) ==
  {BucketWait(Refilled(bucket), tokens)} \cup {Slot(w) - now : w \in Windows}

\* wait_time: the longest wait of the bucket and the windows.
IsWaitTime(tokens, wait) ==
  wait \in Waits(tokens) /\ \A other \in Waits(tokens) : other <= wait

NoCall == [pc |-> "idle", tokens |-> 0, slot |-> [w \in Windows |-> 0],
           due |-> 0]

\* Where booked[w] has what `live`, its unpruned end, has at position p.
InBooked(w, live, p) == Len(booked[w]) - Len(live) + p

\* The router keeps nothing of a request that is over.
Gone == [NoCall EXCEPT !.pc = "over"]

-----------------------------------------------------------------------------

Init ==
  /\ now = 0
  /\ slots = [w \in Windows |-> <<>>]
  /\ bucket = [level |-> TokenCapacity, updated |-> 0]
  /\ calls = [r \in Requests |-> NoCall]
  /\ booked = [w \in Windows |-> <<>>]
  /\ spent = 0

\* wait_time answers that the wait is too long, and the router moves on.
Refuse(tokens) ==
  /\ \E wait \in Waits(tokens) : IsWaitTime(tokens, wait) /\ wait > MaxWait
  /\ slots' = PrunedSlots
  /\ bucket' = Refilled(bucket)
  /\ UNCHANGED <<now, calls, booked, spent>>

\* wait_time, then reserve.
Reserve(r, tokens) ==
  /\ calls[r].pc = "idle"
  /\ \E wait \in Waits(tokens) :
       /\ IsWaitTime(tokens, wait)
       /\ wait <= MaxWait
       /\ calls' = [calls EXCEPT ![r] =
                      [pc     |-> "waiting",
                       tokens |-> Charged(tokens),
                       slot   |-> [w \in Windows |-> Slot(w)],
                       due    |-> now + wait]]
  /\ slots' = [w \in Windows |-> Insort(PrunedSlots[w], Slot(w))]
  /\ booked' = [w \in Windows |->
       InsertAt(booked[w],
                InBooked(w, PrunedSlots[w], BisectRight(PrunedSlots[w], Slot(w)) + 1),
                Slot(w))]
  /\ bucket' = Spend(Refilled(bucket), tokens)
  /\ spent' = spent + Charged(tokens)
  /\ UNCHANGED now

\* The wait is over and the provider is called; waiting for a concurrency slot
\* may have taken any time on top.
Send(r) ==
  /\ calls[r].pc = "waiting"
  /\ now >= calls[r].due
  /\ calls' = [calls EXCEPT ![r].pc = "sent"]
  /\ UNCHANGED <<now, slots, bucket, booked, spent>>

\* cancel: no concurrency slot in time, or the breaker refuses the call.
Cancel(r) ==
  /\ calls[r].pc = "waiting"
  /\ now >= calls[r].due
  /\ slots' = [w \in Windows |-> RemoveSlot(slots[w], calls[r].slot[w])]
  /\ booked' = [w \in Windows |->
                  IF Holds(slots[w], calls[r].slot[w])
                  THEN RemoveAt(booked[w], InBooked(w, slots[w],
                                             Place(slots[w], calls[r].slot[w])))
                  ELSE booked[w]]
  /\ bucket' = Refund(Refilled(bucket), calls[r].tokens)
  /\ spent' = spent - calls[r].tokens
  /\ calls' = [calls EXCEPT ![r] = Gone]
  /\ UNCHANGED now

\* settle: the answer used `used` tokens, or none when the provider refused.
Settle(r, used) ==
  /\ calls[r].pc = "sent"
  /\ LET unused == calls[r].tokens - used IN
       /\ bucket' = IF unused > 0 THEN Refund(Refilled(bucket), unused)
                    ELSE IF unused < 0 THEN Spend(Refilled(bucket), -unused)
                    ELSE bucket
       /\ spent' = IF unused >= 0 THEN spent - unused
                   ELSE spent + Charged(-unused)
  /\ calls' = [calls EXCEPT ![r] = Gone]
  /\ UNCHANGED <<now, slots, booked>>

\* The scan was cancelled while the request waited or was being answered, or
\* the call failed in a way that leaves the estimate standing.
Abandon(r) ==
  /\ calls[r].pc \in {"waiting", "sent"}
  /\ calls' = [calls EXCEPT ![r] = Gone]
  /\ UNCHANGED <<now, slots, bucket, booked, spent>>

Tick ==
  /\ now < MaxTime
  /\ now' = now + 1
  /\ UNCHANGED <<slots, bucket, calls, booked, spent>>

Next ==
  \/ Tick
  \/ \E tokens \in Estimates : Refuse(tokens)
  \/ \E r \in Requests :
       \/ \E tokens \in Estimates : Reserve(r, tokens)
       \/ Send(r)
       \/ Cancel(r)
       \/ \E used \in Usages : Settle(r, used)
       \/ Abandon(r)

Spec == Init /\ [][Next]_vars

-----------------------------------------------------------------------------
(* Properties.                                                             *)

CallState == {"idle", "waiting", "sent", "over"}

\* The state has the shape of the code's: slots are lists of clock times, the
\* bucket holds a level that debt may make negative.
TypeOK ==
  /\ now \in 0..MaxTime
  /\ slots \in [Windows -> Seq(Nat)]
  /\ bucket \in [level : Int, updated : Nat]
  /\ calls \in [Requests -> [pc : CallState, tokens : Nat,
                             slot : [Windows -> Nat], due : Nat]]
  /\ booked \in [Windows -> Seq(Nat)]
  /\ spent \in Int

\* SlidingWindow's promise, limits.py:71: no window of its length ever holds
\* more than `capacity` bookings, counting the ones it has forgotten, whatever
\* the order of bookings, cancellations and queries.
NeverOverbooked ==
  \A w \in Windows : Spaced(booked[w], Capacity[w], Length[w])

\* TokenBucket's promise, limits.py:28: waits, refunds and corrections never
\* create tokens; what is there and what was taken is at most one full bucket
\* and what has been refilled since.
NoTokensMinted ==
  Refilled(bucket).level + spent <= TokenCapacity + now

\* When a request becomes due the budget has paid for it and for everything
\* reserved before it, even while the bucket is in debt.
PaidWhenDue ==
  [][\A r \in Requests :
       calls[r].pc = "idle" /\ calls'[r].pc = "waiting"
         => spent' <= TokenCapacity + calls'[r].due]_vars

\* limits.py:3-6 and :71 say requests are counted in sliding windows so that
\* calls stay under the limit: at most `capacity` requests in any window.  The
\* time that counts for the provider is when a request may be sent.
DueWithinCapacity ==
  \A w \in Windows : \A t \in 0..(MaxTime + MaxWait) :
    Cardinality({r \in Requests :
                   /\ calls[r].pc \in {"waiting", "sent"}
                   /\ calls[r].due \in t..(t + Length[w] - 1)}) <= Capacity[w]

=============================================================================
