-------------------------- MODULE MCBillingSession --------------------------
(***************************************************************************)
(* BillingSession on small instances.  The requests are interchangeable.   *)
(***************************************************************************)
EXTENDS BillingSession, TLC

Symmetry == Permutations(Requests)

Relay(pref, want, playground, force) ==
  [pref |-> pref, kind |-> "relay", want |-> want, playground |-> playground, force |-> force]

\* Every preference; a request that may be trusted, one that never is (an
\* asynchronous task), one from the playground and one that asks for nothing.
RelayInputs ==
  {Relay("subscription_first", 2, FALSE, FALSE), Relay("subscription_first", 0, FALSE, TRUE),
   Relay("wallet_first", 2, FALSE, TRUE), Relay("wallet_only", 2, TRUE, TRUE),
   Relay("wallet_only", 1, FALSE, FALSE), Relay("subscription_only", 1, TRUE, FALSE)}

\* A realtime connection beside a relayed request, for the runs with faults.
MixedInputs ==
  {Relay("subscription_first", 2, FALSE, TRUE),
   [pref |-> "wallet_first", kind |-> "realtime", want |-> 1,
    playground |-> FALSE, force |-> FALSE]}

\* Requests that fall back from an exhausted subscription, for liveness.
FallbackInputs == {Relay("subscription_first", 2, FALSE, TRUE)}
=============================================================================
