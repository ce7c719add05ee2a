------------------------------- MODULE MCRouter -------------------------------
(***************************************************************************)
(* A small instance of Router: a hosted provider and one on this machine,  *)
(* and requests that differ in everything the router looks at.             *)
(***************************************************************************)
EXTENDS Router, TLC

CONSTANTS hosted, local, good, odd, Key1, Key2, r1, r2, r3

Route == <<hosted, local>>
TwoNames == <<hosted, local>>
Slots == (hosted :> 1) @@ (local :> 2)

Review == [route |-> Route, restricted |-> FALSE, only |-> {}, exclude |-> {},
           consent |-> TRUE, interactive |-> FALSE, key |-> Key1,
           accepts |-> {good}]

\* A caller with a laxer validator who does not wait and gave no consent: the code must not
\* leave the machine.
Private == [Review EXCEPT !.consent = FALSE, !.interactive = TRUE, !.accepts = {good, odd}]

\* A verification of what the hosted provider found, with a provider outside
\* the task's route named as well.
Verify == [Review EXCEPT !.route = <<hosted>>, !.restricted = TRUE,
                         !.only = {hosted, local}, !.exclude = {hosted}, !.key = Key2]

ThreeKinds == {Review, Private, Verify}

\* A request of each permission; the last may be a verification instead.
Mixed == (r1 :> {Review}) @@ (r2 :> {Private}) @@ (r3 :> {Review, Verify})

=============================================================================
