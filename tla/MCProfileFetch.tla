--------------------------- MODULE MCProfileFetch ---------------------------
(* A small instance of ProfileFetch for TLC. *)
EXTENDS ProfileFetch

CONSTANTS v1, v2

\* Two versions of a profile, the second later and with a lud16.
InOrder == {<<v2, v1>>}
Later == {v2}

=============================================================================
