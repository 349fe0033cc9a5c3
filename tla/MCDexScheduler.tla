--------------------------- MODULE MCDexScheduler ---------------------------
(* Rooms for TLC: one with an agent in a browser tab and one on the local    *)
(* machine, and two with one agent each.                                     *)
EXTENDS DexScheduler, TLC

CONSTANTS a, b, web, loc

MixedRoom == a :> {web, loc}
TwoRooms == (a :> {loc}) @@ (b :> {web})

(* With two rooms, a state in which a recovery has been archived is checked  *)
(* and not gone on from; what a late final does is the business of one room. *)
NothingArchived == \A room \in Rooms : watches[room] = {}
=============================================================================
