-------------------------- MODULE MCAdmissionQueue --------------------------
(* Small instances of AdmissionQueue. *)
EXTENDS AdmissionQueue, TLC

CONSTANTS a1, a2, a3, b1, alice, bob, m1, m2

\* Two requests of alice compete with one of bob.
TwoPrincipals == a1 :> alice @@ a2 :> alice @@ b1 :> bob

\* Three requests of one principal.
OnePrincipal == a1 :> alice @@ a2 :> alice @@ a3 :> alice

\* Everybody may use every member.
AnyMember == [q \in Requests |-> Members]

\* Only a2 may use either member.
Overlapping == a1 :> {m1} @@ a2 :> {m1, m2} @@ a3 :> {m2}

\* a1 waits for one member, the others for the other one.
Apart == a1 :> {m1} @@ a2 :> {m2} @@ b1 :> {m2}

\* The requests of alice are alike where nothing tells them apart.
Alike == Permutations({a1, a2})

\* Route recovery stays enabled.
Recovering == recoveryEnabled

OneEach == [m \in Members |-> 1]

=============================================================================
