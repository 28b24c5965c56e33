---------------------------- MODULE MCSubscriptions ----------------------------
(***************************************************************************)
(* Model checking Subscriptions.                                           *)
(***************************************************************************)
EXTENDS Subscriptions

\* Subscriptions made one after the other for the same channel.
OneChannel == [s \in Subs |-> 1]

\* Two channels, the first of which may get a second subscription.
TwoChannels == [s \in Subs |-> IF s = 2 THEN 2 ELSE 1]

\* The slots are all alike.  (Not for liveness.)
AnySlot == Permutations(Slots)

=============================================================================
