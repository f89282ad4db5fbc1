------------------------------- MODULE MCFeed -------------------------------
(* Threads for TLC: a note, a reply, and a reply to both. *)
EXTENDS Threads

CONSTANTS note, reply, nested

TheEras == {{}, {"value_sats"}, {"value_sats", "zap_sats"}, {"sats_clank"}, {"sats_clank", "sats_ext"}}
TheParents == note :> {} @@ reply :> {note} @@ nested :> {note, reply}
TheTimes == note :> 1 @@ reply :> 2 @@ nested :> 3

=============================================================================
