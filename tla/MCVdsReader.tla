----------------------------- MODULE MCVdsReader -----------------------------
(***************************************************************************)
(* Two threads and two buffers, three files and six requests: neighbours,  *)
(* one past the time axis, one for a slice that only the first file has,   *)
(* one too large for a buffer and one for a plane that does not exist.     *)
(* Three reads use a buffer a second time.                                 *)
(***************************************************************************)
EXTENDS VdsReader

CONSTANTS t1, t2

MCThread == {t1, t2}

Tile(plane, slice, x, y, w, h, level) ==
  [plane_index |-> plane, slice_index |-> slice, x_offset |-> x, y_offset |-> y,
   width |-> w, height |-> h, downsample_level |-> level]

MCRequest == {Tile(0, 80, 0, 0, 63, 64, 1), Tile(0, 80, 63, 0, 8, 64, 1),
              Tile(0, 80, 0, 200, 64, 64, 0), Tile(0, 1500, 0, 0, 64, 64, 6),
              Tile(2, 10, 0, 0, 1024, 1024, 0), Tile(3, 0, 0, 0, 64, 64, 0)}

\* inline, crossline and time samples; the third file has no time axis.
File(i, x, z) == [a \in 0..2 |-> <<i, x, z>>[a + 1]]
MCLayout   == {File(2111, 71, 500), File(100, 300, 50), [a \in 0..1 |-> <<100, 71>>[a + 1]]}
MCLevel    == 0..10
MCLeftover == {40}
=============================================================================
