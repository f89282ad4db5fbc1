---------------------------- MODULE MCPaidActions ---------------------------
(* Small instances of PaidActions for TLC. *)
EXTENDS PaidActions, TLC

\* Slots, invoices and tokens are interchangeable.
Interchangeable ==
  Permutations(Slots) \cup Permutations(Invoices) \cup Permutations(Tokens)

\* So are the notes, when none is seeded and none supersedes another.
AllInterchangeable == Interchangeable \cup Permutations(Notes)

=============================================================================
