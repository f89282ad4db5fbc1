---------------------------- MODULE MCEventStore ----------------------------
(* A small instance of EventStore for TLC. *)
EXTENDS EventStore

CONSTANTS v1, v2, v3

\* Three versions of a profile, each later than the one before.
InOrder == {<<v2, v1>>, <<v3, v1>>, <<v3, v2>>}

=============================================================================
