----------------------------- MODULE MCTilePipeline -----------------------------
(***************************************************************************)
(* Three tiles: one of two bytes a sample; one whose data is not what its  *)
(* dimensions say, but is when compressed; and one whose size payload_bytes *)
(* (here of 256 values) cannot hold.  LZ4 may leave each of the three as    *)
(* long as its bound allows: 20 bytes of 4, 277 of 260.                     *)
(***************************************************************************)
EXTENDS TilePipeline, TLC

CONSTANTS k1, k2

MCWorker == {k1, k2}
MCTile == {[id |-> 1, tile_w |-> 2, tile_h |-> 1, dtype |-> "U16", size |-> 4],
           [id |-> 2, tile_w |-> 1, tile_h |-> 2, dtype |-> "MuLawU8", size |-> 4],
           [id |-> 3, tile_w |-> 20, tile_h |-> 13, dtype |-> "U8", size |-> 260]}
MCPacked == {2, 20, 277}
MCName == {"none", "unheard of"}
MCControl ==
  {[type |-> "hello", value |-> [webgpu |-> TRUE, webgl2 |-> TRUE, max_texture |-> 8192]],
   [type |-> "set_slice", value |-> [inline_idx |-> 3, xline_idx |-> 4, z_idx |-> 5]],
   [type |-> "set_view", value |-> [plane |-> "inline", index |-> 3, drag |-> TRUE, vx |-> -1]],
   [type |-> "set_lut", value |-> [name |-> "Gray", clip_pct |-> 99, gain |-> 2, agc |-> 7]],
   [type |-> "quality", value |-> [dtype |-> "u8", downsample |-> 4]],
   [type |-> "ping", value |-> [id |-> 9]],
   [type |-> "set_view", value |-> Absent],
   [type |-> "Unknown", value |-> Absent]}
Symmetry == Permutations(MCWorker)
=============================================================================
