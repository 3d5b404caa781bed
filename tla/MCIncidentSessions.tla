------------------------- MODULE MCIncidentSessions -------------------------
(***************************************************************************)
(* An instance of IncidentSessions for TLC: two operators, of a Namespace  *)
(* each, and limits that every operation reaches.                          *)
(***************************************************************************)
EXTENDS IncidentSessions, TLC

CONSTANTS alice, bob

Operators == {alice, bob}
Uids == (alice :> "A") @@ (bob :> "B")
Policy == (alice :> Operation) @@ (bob :> {"create", "append"})
Slots == Permutations(Slot)
=============================================================================
