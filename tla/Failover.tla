------------------------------ MODULE Failover ------------------------------
(***************************************************************************)
(* What Router.complete promises for each request (app/llm/router.py and   *)
(* docs/routing.md), whatever goes on at the providers: every provider the *)
(* request offers itself to is tried at most once; the request ends with   *)
(* one usable answer of such a provider, with an answer that an equal      *)
(* request got before from a provider this one permits, or, once every one *)
(* of them has been tried, with a failure.                                 *)
(***************************************************************************)
CONSTANTS
  Requests, Kinds, Providers, Texts,
  Offered,     \* Offered[k]: the enabled providers that k is routed to
  Permitted,   \* Permitted[k]: the enabled providers whose answers k may get
  Usable,      \* Usable[k]: the answers its validator accepts
  Key,         \* Key[k]: what shapes an answer to k
  Nothing      \* no kind, provider or text yet

VARIABLES
  asked,    \* asked[r]: what r asks for
  tried,    \* tried[r]: the providers that have been tried for it
  outcome   \* outcome[r]: how it ended

vars == <<asked, tried, outcome>>

NoOutcome == [end |-> "none", by |-> Nothing, text |-> Nothing]
AnswerOf(p, t) == [end |-> "answer", by |-> p, text |-> t]
Failure == [NoOutcome EXCEPT !.end = "failed"]
Cancelled == [NoOutcome EXCEPT !.end = "cancelled"]

Init ==
  /\ asked = [r \in Requests |-> Nothing]
  /\ tried = [r \in Requests |-> {}]
  /\ outcome = [r \in Requests |-> NoOutcome]

Untried(r) == Offered[asked[r]] \ tried[r]
Pending(r) == asked[r] # Nothing /\ outcome[r] = NoOutcome

Answered(k, p, t) ==
  \E q \in Requests : /\ asked[q] # Nothing
                      /\ Key[asked[q]] = Key[k]
                      /\ outcome[q] = AnswerOf(p, t)

Ask(r, k) ==
  /\ asked[r] = Nothing
  /\ asked' = [asked EXCEPT ![r] = k]
  /\ \/ UNCHANGED outcome
     \/ Offered[k] = {} /\ outcome' = [outcome EXCEPT ![r] = Failure]
     \/ \E p \in Permitted[k], t \in Usable[k] :
          Answered(k, p, t) /\ outcome' = [outcome EXCEPT ![r] = AnswerOf(p, t)]
  /\ UNCHANGED tried

Try(r, p) ==
  /\ Pending(r)
  /\ p \in Untried(r)
  /\ tried' = [tried EXCEPT ![r] = @ \cup {p}]
  /\ \/ Untried(r) # {p} /\ UNCHANGED outcome
     \/ Untried(r) = {p} /\ outcome' = [outcome EXCEPT ![r] = Failure]
     \/ \E t \in Usable[asked[r]] : outcome' = [outcome EXCEPT ![r] = AnswerOf(p, t)]
  /\ UNCHANGED asked

Cancel(r) ==
  /\ Pending(r)
  /\ outcome' = [outcome EXCEPT ![r] = Cancelled]
  /\ UNCHANGED <<asked, tried>>

Next ==
  \E r \in Requests :
    \/ \E k \in Kinds : Ask(r, k)
    \/ \E p \in Providers : Try(r, p)
    \/ Cancel(r)

Spec == Init /\ [][Next]_vars

=============================================================================
