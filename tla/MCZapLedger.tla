----------------------------- MODULE MCZapLedger ----------------------------
(* Small instances of ZapLedger for TLC. *)
EXTENDS ZapLedger, TLC

CONSTANTS tip, zap, note

\* A tip of one sat to the relay and a zap of two sats to the author, for the same note.
OneNote == [z \in {tip, zap} |-> note]
OneAndTwo == (tip :> 1) @@ (zap :> 2)

\* Two zaps of one sat.
OneEach == [z \in {tip, zap} |-> 1]

Interchangeable == Permutations(Clients) \cup Permutations(Relays)

=============================================================================
