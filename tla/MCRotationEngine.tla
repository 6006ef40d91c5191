-------------------------- MODULE MCRotationEngine --------------------------
(* Small instances of RotationEngine for TLC. *)
EXTENDS RotationEngine

Text  == [r \in {"text"} |-> "model"]
Both  == [r \in {"text", "image"} |-> "model"]
Image == [r \in {"image"} |-> "model"]

Of(routes, key, concurrency, limit) ==
  [routes |-> routes, key |-> key, maxConcurrency |-> concurrency,
   capacityLimit |-> limit, enabled |-> TRUE, draining |-> FALSE]

\* One member without limits.
OneSetting == {Of(Text, "A", 0, 0)}

\* Two accounts; the second may be moved to the first one's resource.
MemberSettings == {Of(Text, "A", 0, 2), Of(Text, "B", 1, 0), Of(Text, "A", 1, 0)}

\* Protocol aliases of one account.
AliasSettings == {Of(Both, "A", 0, 0)}

\* A refresh of the model inventory loses the route and finds it again.
RouteSettings == {Of(Both, "A", 0, 0), Of(Image, "A", 0, 0)}

Fine     == [enabled |-> TRUE, draining |-> FALSE, auth |-> "Ready",
             quota |-> "Available", rate |-> 0]
Blocked  == [Fine EXCEPT !.quota = "Exhausted"]
Limited  == [Fine EXCEPT !.rate = 2]
Credit   == [Fine EXCEPT !.quota = "CreditFallback"]

NoObservations   == {}
ManyObservations == {Blocked, Limited, Credit}

DefaultPolicy == {[initialCredits |-> 1, successesPerCredit |-> 2, maxInFlight |-> 1]}
TwoPolicies   == {[initialCredits |-> 1, successesPerCredit |-> 1, maxInFlight |-> 1],
                  [initialCredits |-> 0, successesPerCredit |-> 2, maxInFlight |-> 2]}
=============================================================================
