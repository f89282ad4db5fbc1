------------------------------- MODULE MCRelay ------------------------------
(* A small instance of RelayConnections for TLC. *)
EXTENDS RelayConnections, TLC

\* A filter for all events, and one with an ill-typed bound.
AllOrIllTyped == {[match |-> Events, raises |-> {}], [match |-> {}, raises |-> Events]}

Interchangeable == Permutations(Sockets)

=============================================================================
