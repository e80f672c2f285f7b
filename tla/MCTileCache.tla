----------------------------- MODULE MCTileCache -----------------------------
(***************************************************************************)
(* A cache of two tiles and three bytes, three keys, and payloads of 1, 2  *)
(* and 4 bytes: one that always fits, one of which two do not fit, and one *)
(* that never fits.                                                        *)
(***************************************************************************)
EXTENDS TileCache

CONSTANTS k1, k2, k3, n1, n2, n3, small, medium, oversize

MCKey  == {k1, k2, k3}
MCNode == {n1, n2, n3}
MCData == {small, medium, oversize}
MCSizeOf == [d \in MCData |-> CASE d = small -> 1 [] d = medium -> 2 [] d = oversize -> 4]
=============================================================================
