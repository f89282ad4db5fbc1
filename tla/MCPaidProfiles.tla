---------------------------- MODULE MCPaidProfiles --------------------------
(* PaidActions for the kind:0 profiles of one author. *)
EXTENDS MCPaidActions

CONSTANTS old, new   \* two profiles of one author, new the later

LaterProfile == {<<new, old>>}

=============================================================================
