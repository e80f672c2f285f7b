------------------------------ MODULE TileMessage ------------------------------
(***************************************************************************)
(* The binary tile protocol (src/protocol/tile_message): TileData, the     *)
(* message made of it, its bytes, and what deserialize makes of bytes.     *)
(*                                                                         *)
(* A buffer is abstracted to what its bytes are: `made` names the codec    *)
(* that wrote them ("None": samples as they are), `of` the tile they come  *)
(* from, `raw` how many bytes of samples they stand for and `size` how     *)
(* many they are.  A tile is its own place in the volume.                  *)
(***************************************************************************)
EXTENDS Integers

CONSTANTS Tile,  \* TileData: [id, tile_w, tile_h, dtype, size], size being data.size()
          Word   \* how many values payload_bytes has: 2^32

Codec    == {"None", "LZ4", "Zstd"}
DataType == {"U8", "U16", "F32", "MuLawU8"}
SIZE     == 24

ASSUME TileAssumption ==
  /\ Word \in Nat \ {0, 1}
  /\ \A t \in Tile : /\ t.tile_w \in Nat /\ t.tile_h \in Nat /\ t.dtype \in DataType
                     /\ t.size \in Nat \ {0}
                     /\ t.tile_w * t.tile_h <= 2147483647  \* an int in the code

Samples(t) == [made |-> "None", of |-> t, raw |-> t.size, size |-> t.size]

\* The first n bytes of a buffer.
Prefix(b, n) == IF n = b.size THEN b
                ELSE [made |-> IF b.made = "None" THEN "None" ELSE "cut", of |-> b.of,
                      raw |-> n, size |-> n]
-----------------------------------------------------------------------------
BytesPerSample(dtype) == CASE dtype = "U16" -> 2 [] dtype = "F32" -> 4 [] OTHER -> 1

ExpectedDataSize(t) == t.tile_w * t.tile_h * BytesPerSample(t.dtype)

\* Mutant: any data will do.
AnyTileData(t, data) == TRUE

\* TileData::is_valid, for the tile t with these bytes as its data.
IsValidTileData(t, data) == data.size = ExpectedDataSize(t)

\* Mutant: payload_bytes is as wide as it must be.
MessageWide(t, compression, payload) ==
  [header  |-> [msg_type |-> 1, tile |-> t, compression |-> compression,
                payload_bytes |-> payload.size],
   payload |-> payload]

\* The constructor.  payload_bytes is cast to 32 bits.
Message(t, compression, payload) ==
  [header  |-> [msg_type |-> 1, tile |-> t, compression |-> compression,
                payload_bytes |-> payload.size % Word],
   payload |-> payload]

\* TileData::compress: the samples as they are, under the label that was asked for.
CompressTileData(t, compression) == Message(t, compression, Samples(t))

IsValidMessage(m) == /\ m.header.msg_type = 1
                     /\ m.header.payload_bytes = m.payload.size

SerializedSize(m) == SIZE + m.payload.size

\* Mutant: the header is not counted.
DeserializeShort(m, n, null) ==
  IF n < SIZE \/ m.header.msg_type # 1 \/ n < m.header.payload_bytes THEN null
  ELSE [m EXCEPT !.payload = Prefix(m.payload, m.header.payload_bytes)]

\* deserialize, given n of the bytes of m, or all of them and more.
Deserialize(m, n, null) ==
  IF n < SIZE \/ m.header.msg_type # 1 \/ n < SIZE + m.header.payload_bytes THEN null
  ELSE [m EXCEPT !.payload = Prefix(m.payload, m.header.payload_bytes)]
=============================================================================
