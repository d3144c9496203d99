----------------------------- MODULE MCMirEntry -----------------------------
(* MirEntry on small instances for TLC. *)
EXTENDS MirEntry, TLC

CONSTANTS R1, R2, a, b

\* One unit on each line, or one too many on the first.
SomeDeliveries == {<<1, 1>>, <<2, 0>>}

Requests == Permutations({R1, R2})
Symmetric == Requests \cup Permutations({a, b})
=============================================================================
