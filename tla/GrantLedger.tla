---------------------------- MODULE GrantLedger ----------------------------
(***************************************************************************)
(* What this client of a provider with rotating refresh grants promises.   *)
(* A grant is never sent again once its replacement was received, or once  *)
(* its exchange was dropped, by a cancelled request or a crash.  It does   *)
(* not promise this of a grant whose answer was lost to an exchange that   *)
(* ran to its end: that grant may be rotated, and is sent again all the    *)
(* same after a backoff (authority/refresh.rs:295-296, "Preserve native    *)
(* OAuth's existing failure/backoff policy; this barrier protects known    *)
(* successful rotations").                                                 *)
(***************************************************************************)
CONSTANT Grants

VARIABLE use  \* [Grants -> Uses]

\* none: not issued; fresh: issued, or known not rotated; flying: sent;
\* spent: its replacement was received; refused: the provider refused it;
\* lost: the exchange ended without a readable answer, it may be rotated;
\* unknown: the exchange was dropped before its answer, it may be rotated.
Uses == {"none", "fresh", "flying", "spent", "refused", "lost", "unknown"}

\* Some grants were issued before.
Init == use \in [Grants -> {"none", "fresh"}]

Move(g, from, to) == use[g] \in from /\ use' = [use EXCEPT ![g] = to]

\* A sign-in.
Obtain(g) == Move(g, {"none"}, "fresh")

Send(g) == Move(g, {"fresh", "refused", "lost"}, "flying")

Rotate(g, n) ==
  /\ use[g] = "flying" /\ use[n] = "none"
  /\ use' = [use EXCEPT ![g] = "spent", ![n] = "fresh"]

Refuse(g) == Move(g, {"flying"}, "refused")

\* The provider was not reached, or failed without rotating.
Fail(g) == Move(g, {"flying"}, "fresh")

\* A timeout, a broken connection, an unreadable body: it may have rotated.
LoseAnswer(g) == Move(g, {"flying"}, "lost")

\* A cancelled request, or a crash: all that is in flight is dropped together.
Drop == \E dropped \in SUBSET {g \in Grants : use[g] = "flying"} :
          use' = [g \in Grants |-> IF g \in dropped THEN "unknown" ELSE use[g]]

Next ==
  \/ \E g \in Grants : Obtain(g) \/ Send(g) \/ Refuse(g) \/ Fail(g) \/ LoseAnswer(g)
  \/ \E g, n \in Grants : Rotate(g, n)
  \/ Drop

Spec == Init /\ [][Next]_use

=============================================================================
