------------------------------ MODULE TilePipeline ------------------------------
(***************************************************************************)
(* Tiles from a compressor over a channel back to samples, and control     *)
(* messages the other way, with the parts as they are in the code.  What    *)
(* joins the parts is theirs to say: the header names the compression that *)
(* type() reports, the receiver decompresses by the header into as many    *)
(* bytes as its dimensions ask for, and is_valid decides on the result.     *)
(* The channel loses, repeats and reorders messages, and may hand over too  *)
(* few bytes or too many.                                                   *)
(***************************************************************************)
EXTENDS Compressor, ControlMessage

CONSTANTS Name,     \* compression names a configuration may hold
          Control,  \* control messages, as ControlMessage holds them
          MaxWire,  \* bound: messages in flight
          Null      \* nullptr

VARIABLE wire  \* the messages in flight: [tile: TileMessage] or [sent, doc: JSON]

vars == <<stats, call, wire>>

Init == CompressorInit /\ wire = {}

Room == Cardinality(wire) < MaxWire

\* Lengths at which deserialize decides, for the message m.
Lengths(m) == {SIZE - 1, SIZE, SerializedSize(m) - 1, SerializedSize(m), SerializedSize(m) + 1}
-----------------------------------------------------------------------------
Choices(t) == {CreateByName(n) : n \in Name} \cup {Recommend(t.size, speed) : speed \in BOOLEAN}

StartCompress(w, t) ==
  \E c \in Choices(t) : Compress(w, "compress", c, t, Samples(t)) /\ UNCHANGED wire

StartEstimate(w, t) == \E c \in Choices(t) : EstimateRatio(w, c, t) /\ UNCHANGED wire

CountCall(w) == Count(w) /\ UNCHANGED wire

\* The constructor and serialize: the label is the compressor's type().
Send(w) ==
  /\ Room
  /\ call[w].at = "done" /\ call[w].op = "compress"
  /\ wire' = wire \cup {[tile |-> Message(call[w].tile, call[w].codec, call[w].out)]}
  /\ call' = [call EXCEPT ![w] = Idle]
  /\ UNCHANGED stats

SendPlain(t, compression) ==
  /\ Room
  /\ wire' = wire \cup {[tile |-> CompressTileData(t, compression)]}
  /\ UNCHANGED compressorVars

Receive(w, x, n) ==
  /\ "tile" \in DOMAIN x
  /\ LET m == Deserialize(x.tile, n, Null)
     IN  /\ m # Null
         /\ Decompress(w, CreateByType(m.header.compression), m.header.tile, m.payload,
                       ExpectedDataSize(m.header.tile))
  /\ UNCHANGED wire

\* The caller has the ratio, or the samples.
Return(w) ==
  /\ call[w].at = "done" /\ call[w].op # "compress"
  /\ call' = [call EXCEPT ![w] = Idle]
  /\ UNCHANGED <<stats, wire>>

\* From a client that leaves a key out, or gives one a value of the wrong type.
SendControl(m, missing, bad) ==
  /\ Room
  /\ LET doc == ToJson(m)
     IN  wire' = wire \cup {[sent |-> m,
                             doc  |-> [k \in DOMAIN doc \ {missing} |->
                                         IF k = bad THEN Bad ELSE doc[k]]]}
  /\ UNCHANGED compressorVars

Lose(x) == wire' = wire \ {x} /\ UNCHANGED compressorVars

Reset(c) == stats[c] # Stats /\ ResetStats(c) /\ UNCHANGED wire

Next ==
  \/ \E w \in Worker : \/ CountCall(w) \/ Send(w) \/ Return(w)
                       \/ \E t \in Tile : StartCompress(w, t) \/ StartEstimate(w, t)
                       \/ \E x \in wire : /\ "tile" \in DOMAIN x
                                          /\ \E n \in Lengths(x.tile) : Receive(w, x, n)
  \/ \E t \in Tile, c \in Codec : SendPlain(t, c)
  \/ \E m \in Control :
       \/ SendControl(m, Null, Null)
       \/ \E k \in DOMAIN ToJson(m) : SendControl(m, k, Null) \/ SendControl(m, Null, k)
  \/ \E x \in wire : Lose(x)
  \/ \E c \in Codec : Reset(c)

Spec == Init /\ [][Next]_vars
-----------------------------------------------------------------------------
Buffer == [made : Codec \cup {"cut", "noise"}, of : Tile, raw : Nat, size : Nat]

Call == [at : {"count", "done"}, op : {"compress", "estimate", "decompress"},
         codec : Codec, tile : Tile, in : Buffer, out : Buffer]

\* Type invariant.
TypeOK ==
  /\ stats \in [Codec -> [compress_calls : Nat, decompress_calls : Nat,
                        total_input_bytes : Nat, total_output_bytes : Nat]]
  /\ call \in [Worker -> {Idle} \cup Call]
  /\ \A x \in wire : "tile" \in DOMAIN x =>
       /\ x.tile.header \in [msg_type : {1}, tile : Tile, compression : Codec,
                             payload_bytes : 0 .. Word - 1]
       /\ x.tile.payload \in Buffer

\* Of a tile with as many samples as its dimensions say, is_valid accepts after
\* the way over the wire those samples and nothing else -- with one exception:
\* a decoder that was given bytes it had not written and made just as many of
\* them.  It is the compressors' fallbacks that are at stake: a failed
\* compression sends samples under the codec's label, a failed decompression
\* returns what it was given, and payload_bytes keeps only 32 bits of a size
\* (compressor.cpp:50/:87, tile_message.cpp:22/:126).
AcceptedIsSent ==
  \A w \in Worker : LET c == call[w] IN
    /\ c.at = "done" /\ c.op = "decompress"
    /\ IsValidTileData(c.tile, Samples(c.tile))
    /\ IsValidTileData(c.tile, c.out)
    => c.out = Samples(c.tile) \/ (c.out.made = "noise" /\ c.in.made # c.codec)

\* From too few bytes deserialize makes nothing, from enough of them the message
\* that was sent, also if more follow it; that is, for every message whose
\* payload_bytes can tell its size (tile_message.cpp:44-75).
OnlyWholeMessages ==
  \A x \in wire : "tile" \in DOMAIN x /\ IsValidMessage(x.tile) =>
    \A n \in Lengths(x.tile) :
      Deserialize(x.tile, n, Null) = IF n < SerializedSize(x.tile) THEN Null ELSE x.tile

\* The most that n calls of the library make of `input` bytes together.
BoundOfCalls(c, input, n) ==
  CASE c = "None" -> input
    [] c = "LZ4"  -> input + input \div 255 + 16 * n
    [] c = "Zstd" -> input + input \div 256 + 64 * n

\* The totals of a compressor are of the calls it counts: none without a call, and
\* no more bytes out than so many calls of the library may make of the bytes in,
\* however incompressible, so that compression_ratio is of calls that were made.
\* Threads count after the work and a reset may come between
\* (compressor.cpp:59-65, :123); who copies the samples counts what he copied.
RatioOfCountedCalls ==
  \A c \in Codec :
    LET s == stats[c]
    IN  /\ s.compress_calls = 0 => s.total_input_bytes = 0
        /\ s.total_output_bytes <= BoundOfCalls(c, s.total_input_bytes, s.compress_calls)
        /\ c = "None" => s.total_output_bytes = s.total_input_bytes

\* What from_json makes of a document in which keys of `sent` are left out or bad.
Understood(sent, doc) ==
  LET got == FromJson(doc)
      changed == {f \in DOMAIN got.value : sent.value = Absent \/ got.value[f] # sent.value[f]}
  IN  IF "t" \notin DOMAIN doc THEN got = Unknown
      ELSE IF \E k \in DOMAIN doc : doc[k] = Bad THEN got = Thrown
      ELSE IF sent.type \notin MessageType THEN got = Unknown
      ELSE /\ got.type = sent.type
           /\ sent.value # Absent =>
                Cardinality(changed) <= Cardinality(DOMAIN ToJson(sent) \ DOMAIN doc)
           /\ \A f \in changed \cap DOMAIN Defaults[got.type] :
                got.value[f] = Defaults[got.type][f]

\* A control message is read by from_json as it was sent, but for the fields
\* whose keys are left out, and those are what the structures initialise them
\* to; a type that is left out or not known is read as Unknown, and a value of
\* the wrong type is no message at all (control_message.cpp:7-158).
ControlUnderstood == \A x \in wire : "doc" \in DOMAIN x => Understood(x.sent, x.doc)
=============================================================================
