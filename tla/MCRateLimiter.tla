---------------------------- MODULE MCRateLimiter ----------------------------
(* RateLimiter on a small instance: a minute window of 2 ticks for two       *)
(* requests, a day window of 3 ticks for three, and a bucket of 2 tokens.     *)
EXTENDS RateLimiter

MCWindows == {"minute", "day"}
MCLength == [minute |-> 2, day |-> 3]
MCCapacity == [minute |-> 2, day |-> 3]

\* Requests are interchangeable.
Symmetry == Permutations(Requests)
=============================================================================
