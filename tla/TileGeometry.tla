----------------------------- MODULE TileGeometry -----------------------------
(***************************************************************************)
(* The arithmetic of src/vds_access: the metadata taken from a layout, the *)
(* downsample levels, which tile requests are accepted, and the voxels and *)
(* bytes one of them reads.                                                *)
(*                                                                         *)
(* Axis 0 is the inline, 1 the crossline and 2 the time axis.  A layout    *)
(* gives the number of samples of the axes it has; names, units, channels  *)
(* and coordinates, which no operation reads, are left out.                *)
(***************************************************************************)
EXTENDS Integers

CONSTANTS Word,             \* how many values a uint32_t has: 2^32
          Level,            \* downsample levels a request may name
          Leftover,         \* what an uint32_t nobody wrote may hold
          DefaultTileSize,  \* config: tiles.default_size
          Algorithm         \* config: compression.algorithm

U32  == 0..(Word - 1)
Axis == 0..2

ASSUME GeometryAssumption == /\ Word \in Nat \ {0}
                             /\ Level \subseteq U32
                             /\ Leftover \subseteq U32 /\ Leftover # {}
                             /\ DefaultTileSize \in Nat \ {0}

Larger(a, b)      == IF a > b THEN a ELSE b
Clamp(n, lo, hi)  == IF n < lo THEN lo ELSE IF n > hi THEN hi ELSE n

\* 1 << n, as long as it fits.
Bit[n \in Nat] == IF n = 0 THEN 1 ELSE 2 * Bit[n-1]
-----------------------------------------------------------------------------
(* VdsMetadataExtractor *)

MIN_SIZE_AT_MAX_LEVEL == 32

\* Rounds of the loop that halves the larger axis.
Halvings[n \in Nat] == IF n > MIN_SIZE_AT_MAX_LEVEL THEN 1 + Halvings[n \div 2] ELSE 0

\* Mutant: the loop goes on at the minimum.
HalvingsOneMore[n \in Nat] == IF n >= MIN_SIZE_AT_MAX_LEVEL THEN 1 + HalvingsOneMore[n \div 2] ELSE 0
MaxLevelOneMore(size) == HalvingsOneMore[Larger(size[0], size[1])]

MaxLevel(size) == Halvings[Larger(size[0], size[1])]

\* Mutant: factor is 2 << level.
LevelSizeTwice(n, level) == Larger(1, n \div Bit[level + 1])

LevelSize(n, level) == Larger(1, n \div Bit[level])

Metadata(size) ==
  [size                 |-> size,
   max_downsample_level |-> MaxLevel(size),
   level_sizes          |-> [a \in {0, 1} |-> [l \in 0..MaxLevel(size) |-> LevelSize(size[a], l)]]]

\* An axis the layout lacks keeps what its member held: nothing initializes it.
ExtractFromLayout(layout) ==
  {Metadata([a \in Axis |-> IF a \in DOMAIN layout THEN layout[a] ELSE rest[a]]) :
     rest \in [Axis \ DOMAIN layout -> Leftover]}
-----------------------------------------------------------------------------
(* Tile requests *)

TileRequest == [plane_index : U32, slice_index : U32, x_offset : U32, y_offset : U32,
                width : U32, height : U32, downsample_level : Level]

IsValidTileRequest(m, r) ==
  /\ r.plane_index <= 2
  /\ r.slice_index < m.size[r.plane_index]
  /\ r.x_offset < m.size[0]
  /\ r.y_offset < m.size[1]
  /\ r.downsample_level <= m.max_downsample_level

GetAvailableDownsampleLevels(m) == 0..m.max_downsample_level

\* The nearest power of two on a logarithmic scale, for 0 < requested_size < 2^31.
GetOptimalTileSize(requested_size) ==
  LET square == requested_size * requested_size
      power  == CHOOSE p \in 0..31 : Bit[2 * p] <= 2 * square /\ 2 * square < Bit[2 * (p + 1)]
  IN  Clamp(Bit[power], 64, 1024)

Factor(r) == Bit[r.downsample_level]

\* Mutant: a tile that is cut by the factor keeps its last, partial sample.
TileWidthUp(r) == (r.width + Factor(r) - 1) \div Factor(r)

TileWidth(r)  == r.width \div Factor(r)
TileHeight(r) == r.height \div Factor(r)

\* The configured algorithm is a hint for the sample format, except for large tiles.
BytesPerSample(r) == IF Algorithm = "u8" \/ (TileWidth(r) * TileHeight(r)) % Word > 65536 THEN 1
                     ELSE IF Algorithm = "f32" THEN 4 ELSE 2

\* A product of 32-bit factors.
RequiredSize(r) == (TileWidth(r) * TileHeight(r) * BytesPerSample(r)) % Word

\* max_buffer_size: four bytes for each sample of a tile of the default size.
BufferSize == DefaultTileSize * DefaultTileSize * 4

\* The axes along which the tile's x and y go.
XAxis(r) == IF r.plane_index = 0 THEN 1 ELSE 0
YAxis(r) == IF r.plane_index = 2 THEN 1 ELSE 2

\* startRead and endRead: the first voxel on each axis and the one after the last.
Start(r) == [a \in Axis |-> CASE a = r.plane_index -> r.slice_index
                              [] a = XAxis(r)      -> r.x_offset \div Factor(r)
                              [] OTHER             -> r.y_offset \div Factor(r)]
End(r)   == [a \in Axis |-> Start(r)[a] + CASE a = r.plane_index -> 1
                                            [] a = XAxis(r)      -> TileWidth(r)
                                            [] OTHER             -> TileHeight(r)]
-----------------------------------------------------------------------------
(* What the geometry is meant to give *)

\* The full-resolution voxels a request asks for, along its x axis and its y axis.
Asked(r, a) == IF a = XAxis(r) THEN [from |-> r.x_offset, to |-> r.x_offset + r.width]
                               ELSE [from |-> r.y_offset, to |-> r.y_offset + r.height]

\* q is the tile right of r, or the one below it, at the same level.
NextAlong(r, q, a) == /\ a \in {XAxis(r), YAxis(r)}
                      /\ q.plane_index = r.plane_index
                      /\ q.slice_index = r.slice_index
                      /\ q.downsample_level = r.downsample_level
                      /\ Asked(q, a).from = Asked(r, a).to
=============================================================================
