----------------------------- MODULE MCLiveTail -----------------------------
(* Small instances of LiveTail for TLC. *)
EXTENDS LiveTail

\* The filter lets all but the second record through.
MCMatching == Offsets \ {2}
=============================================================================
